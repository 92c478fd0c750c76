-------------------------- MODULE ControllerProofs --------------------------
(***************************************************************************)
(* Proofs about the controllers of networks.                               *)
(*                                                                         *)
(* RoutingLearner: for every set of flows and paths, every capacity of the *)
(* pipes, every number of rewards an action needs and both settings of the *)
(* split of load levels.                                                   *)
(*                                                                         *)
(* SlicedNetwork: for every number of packets, rules that expire and       *)
(* emergencies.  Each network is the one of the source, so its ports are   *)
(* computed from its list of links; the way of a packet is written down    *)
(* once (Hop), and each decision is shown to lead on along it.             *)
(***************************************************************************)
EXTENDS RoutingLearner, SlicedNetwork, SequenceLemmas

----------------------------------------------------------------------------
(* RoutingLearner                                                          *)

\* An action leads from combinations to combinations, and forgets no flow.
LEMMA NextStateType ==
  ASSUME NEW c \in Combinations, NEW a \in Actions
  PROVE  NextState(c, a) \in Combinations /\ Known(c) \subseteq Known(NextState(c, a))
<1>1. CASE a = <<NoTrans>>
  BY <1>1 DEF NextState
<1>2. CASE a # <<NoTrans>>
  <2>1. PICK f \in Flows, p \in Paths : a = <<f, p>>
    BY <1>2 DEF Actions
  <2>2. NextState(c, a) = [c EXCEPT ![f] = p]
    BY <1>2, <2>1 DEF NextState
  <2>3. QED
    BY <2>2, RoutingLearnerAssumption DEF Combinations, Known
<1>3. QED
  BY <1>1, <1>2

\* The report at the head of the pipe, and what is left behind it.
LEMMA GotType ==
  ASSUME TypeOK, toLearner # <<>>
  PROVE  /\ Got \in Report /\ Known(Got.comb) \subseteq Known(chosen)
         /\ Tail(toLearner) \in Seq(Report)
         /\ Len(Tail(toLearner)) = Len(toLearner) - 1
         /\ \A i \in DOMAIN Tail(toLearner) :
              /\ Tail(toLearner)[i] \in Report
              /\ Known(Tail(toLearner)[i].comb) \subseteq Known(chosen)
<1>1. /\ Got = toLearner[1] /\ 1 \in DOMAIN toLearner /\ Got \in Report
      /\ Tail(toLearner) \in Seq(Report) /\ Len(Tail(toLearner)) = Len(toLearner) - 1
      /\ DOMAIN Tail(toLearner) = 1 .. Len(toLearner) - 1
      /\ DOMAIN toLearner = 1 .. Len(toLearner) /\ Len(toLearner) \in Nat
  BY HeadTailProperties, LenProperties DEF TypeOK, Got
<1>2. \A i \in 1 .. Len(toLearner) - 1 :
        Tail(toLearner)[i] = toLearner[i + 1] /\ i + 1 \in DOMAIN toLearner
  BY <1>1, HeadTailProperties DEF TypeOK
<1>3. \A i \in DOMAIN toLearner : toLearner[i] \in Report
  BY <1>1, ElementOfSeq DEF TypeOK
<1>4. QED
  BY <1>1, <1>2, <1>3 DEF TypeOK

\* A report of flows with paths may be appended to others.
LEMMA AppendReport ==
  ASSUME NEW s \in Seq(Report), NEW r \in Report, NEW S, Known(r.comb) \subseteq S,
         \A i \in DOMAIN s : Known(s[i].comb) \subseteq S
  PROVE  \A i \in DOMAIN Append(s, r) : Known(Append(s, r)[i].comb) \subseteq S
<1>1. /\ DOMAIN s = 1 .. Len(s) /\ Len(s) \in Nat
      /\ DOMAIN Append(s, r) = 1 .. Len(s) + 1
      /\ Append(s, r)[Len(s) + 1] = r
      /\ \A i \in 1 .. Len(s) : Append(s, r)[i] = s[i]
  BY AppendProperties, LenProperties
<1>2. SUFFICES ASSUME NEW i \in 1 .. Len(s) + 1 PROVE Known(Append(s, r)[i].comb) \subseteq S
  BY <1>1
<1>3. CASE i = Len(s) + 1
  BY <1>1, <1>3
<1>4. CASE i # Len(s) + 1
  BY <1>1, <1>4
<1>5. QED
  BY <1>3, <1>4

\* What a step of the learner that takes a report and leaves the rest must keep.
LEMMA LearnerType ==
  ASSUME TypeOK, Receives, UNCHANGED <<cvars, flags, toController>>,
         status' \in {"runs", "stopped", "failed"}, built' \in BOOLEAN, acted' \in BOOLEAN,
         temp' \subseteq Known(chosen), state' \in Combinations,
         rewards' \in Seq(BOOLEAN), Len(rewards') < Needed
  PROVE  TypeOK'
<1>1. toLearner' \in Seq(Report)
      /\ \A i \in DOMAIN toLearner' : Known(toLearner'[i].comb) \subseteq Known(chosen')
  BY GotType DEF Receives, cvars
<1>2. QED
  BY <1>1 DEF TypeOK, cvars, flags, Known

\* Every variable keeps its type, and nobody speaks of a flow without a path.
THEOREM TypeCorrect == Spec => []TypeOK
<1>1. Init => TypeOK
  <2> SUFFICES ASSUME Init PROVE TypeOK
    OBVIOUS
  <2>1. toLearner \in Seq(Report) /\ toController \in Seq(Actions) /\ rewards \in Seq(BOOLEAN)
        /\ DOMAIN toLearner = {} /\ Len(rewards) = 0
    BY EmptySeq DEF Init
  <2>2. chosen \in Combinations /\ state \in Combinations
    BY DEF Init, Combinations
  <2>3. Len(rewards) < Needed
    BY <2>1, RoutingLearnerAssumption
  <2>4. QED
    BY <2>1, <2>2, <2>3 DEF Init, TypeOK
<1>2. TypeOK /\ [Next]_vars => TypeOK'
  <2> SUFFICES ASSUME TypeOK, [Next]_vars PROVE TypeOK'
    OBVIOUS
  <2>1. ASSUME NEW f \in Flows, PacketIn(f) PROVE TypeOK'
    <3>1. chosen' \in Combinations /\ routed' \subseteq Known(chosen')
          /\ Known(chosen) \subseteq Known(chosen')
      BY <2>1, RoutingLearnerAssumption DEF PacketIn, TypeOK, Combinations, Known
    <3>2. QED
      BY <2>1, <3>1 DEF PacketIn, TypeOK, flags, lvars
  <2>2. CASE ProbesArrive
    BY <2>2 DEF ProbesArrive, TypeOK, flags, lvars, Known
  <2>3. CASE Put
    BY <2>3 DEF Put, TypeOK, cvars, lvars, Known
  <2>4. CASE Poll
    <3>1. CASE toController = <<>>
      BY <2>4, <3>1 DEF Poll, TypeOK, flags, lvars, Known
    <3>2. CASE toController # <<>>
      <4>1. Head(toController) \in Actions /\ Tail(toController) \in Seq(Actions)
        BY <3>2, HeadTailProperties DEF TypeOK
      <4>2. chosen' \in Combinations /\ Known(chosen) \subseteq Known(chosen')
        BY <2>4, <3>2, <4>1, NextStateType DEF Poll, TypeOK, Known
      <4>3. QED
        BY <2>4, <3>2, <4>1, <4>2 DEF Poll, TypeOK, flags, lvars
    <3>3. QED
      BY <3>1, <3>2
  <2>5. CASE Reports
    <3> DEFINE r == [comb |-> chosen, reset |-> reset, iteration |-> iteration, stop |-> stop,
                     old |-> ~measured \/ toController # <<>>]
    <3>1. r \in Report
      BY DEF TypeOK, Report
    <3>2. SendsReport => /\ toLearner' \in Seq(Report)
                         /\ \A i \in DOMAIN toLearner' :
                              Known(toLearner'[i].comb) \subseteq Known(chosen)
                         /\ hurried' \in BOOLEAN
      <4> SUFFICES ASSUME SendsReport
                   PROVE  /\ toLearner' \in Seq(Report)
                          /\ \A i \in DOMAIN toLearner' :
                               Known(toLearner'[i].comb) \subseteq Known(chosen)
                          /\ hurried' \in BOOLEAN
        OBVIOUS
      <4>1. toLearner' = Append(toLearner, r) /\ hurried' \in BOOLEAN
        BY DEF SendsReport, TypeOK
      <4>2. r.comb = chosen
        OBVIOUS
      <4> HIDE DEF r
      <4>3. QED
        BY <3>1, <4>1, <4>2, AppendReport, AppendProperties DEF TypeOK
    <3>3. chosen' = chosen /\ routed' \subseteq routed
      BY <2>5 DEF Reports
    <3>4. /\ toLearner' \in Seq(Report)
          /\ \A i \in DOMAIN toLearner' : Known(toLearner'[i].comb) \subseteq Known(chosen')
          /\ hurried' \in BOOLEAN /\ reset' \in BOOLEAN /\ iteration' \in BOOLEAN
      BY <2>5, <3>2, <3>3 DEF Reports, TypeOK, Known
    <3>5. QED
      BY <2>5, <3>3, <3>4 DEF Reports, TypeOK, lvars, Known
  <2>6. CASE Learner
    <3> USE DEF TypeOK
    <3>0. toLearner # <<>> /\ Got \in Report /\ Known(Got.comb) \subseteq Known(chosen)
          /\ Got.comb \in Combinations /\ Got.old \in BOOLEAN
      BY <2>6, GotType DEF Learner, Ignores, Stops, Fails, Restarts, Builds, Counts, Acts, Plain,
                           Receives, Report
    <3>1. CASE Ignores
      BY <3>1, LearnerType DEF Ignores, lvars
    <3>2. CASE Stops
      BY <3>2, LearnerType DEF Stops
    <3>3. CASE Fails
      BY <3>3, LearnerType DEF Fails
    <3>4. CASE Restarts
      BY <3>4, LearnerType, EmptySeq, RoutingLearnerAssumption DEF Restarts
    <3>5. CASE Builds
      <4>1. rewards' \in Seq(BOOLEAN) /\ Len(rewards') < Needed
        <5>1. CASE ResetsQ
          BY <3>5, <5>1, EmptySeq, RoutingLearnerAssumption DEF Builds
        <5>2. CASE ~ResetsQ
          BY <3>5, <5>2 DEF Builds
        <5>3. QED
          BY <5>1, <5>2
      <4>2. Receives /\ status' \in {"runs", "stopped", "failed"} /\ built' \in BOOLEAN
            /\ acted' \in BOOLEAN /\ temp' \subseteq Known(chosen) /\ state' \in Combinations
            /\ UNCHANGED <<cvars, flags, toController>>
        BY <3>0, <3>5 DEF Builds, Plain, TimeGoesOn
      <4>3. QED
        BY <4>1, <4>2, LearnerType
    <3>6. Current \in Combinations /\ Counted \in Seq(BOOLEAN)
      BY <3>0, EmptySeq, AppendProperties DEF Current, Counted
    <3>7. CASE Counts
      BY <3>0, <3>6, <3>7, LearnerType DEF Counts, Plain, TimeGoesOn
    <3>8. CASE Acts
      <4>1. PICK a \in PossibleActions(Current) : toController' = Append(toController, a)
                                                  /\ state' = NextState(Current, a)
        BY <3>8 DEF Acts
      <4>2. a \in Actions
        BY DEF PossibleActions
      <4>3. toController' \in Seq(Actions) /\ state' \in Combinations
        BY <3>6, <4>1, <4>2, NextStateType, AppendProperties
      <4>4. /\ toLearner' \in Seq(Report)
            /\ \A i \in DOMAIN toLearner' : Known(toLearner'[i].comb) \subseteq Known(chosen)
        <5> DEFINE t == Tail(toLearner)
        <5>1. t \in Seq(Report) /\ \A i \in DOMAIN t : t[i] \in Report
                                                      /\ Known(t[i].comb) \subseteq Known(chosen)
          BY <3>0, GotType
        <5>2. toLearner' = [i \in DOMAIN t |-> [t[i] EXCEPT !.old = TRUE]]
          BY <3>8 DEF Acts
        <5> HIDE DEF t
        <5>3. \A i \in DOMAIN t : [t[i] EXCEPT !.old = TRUE] \in Report
                                  /\ [t[i] EXCEPT !.old = TRUE].comb = t[i].comb
          BY <5>1 DEF Report
        <5>4. DOMAIN t = 1 .. Len(t) /\ Len(t) \in Nat
          BY <5>1, LenProperties
        <5>5. toLearner' \in Seq(Report)
          BY <5>2, <5>3, <5>4, IsASeq
        <5>6. QED
          BY <5>1, <5>2, <5>3, <5>5
      <4>5. UNCHANGED <<cvars, flags, built>> /\ temp' \subseteq Known(chosen) /\ acted' = TRUE
            /\ rewards' = <<>> /\ status' \in {"runs", "stopped", "failed"}
        BY <3>0, <3>8 DEF Acts, TimeGoesOn
      <4>6. rewards' \in Seq(BOOLEAN) /\ Len(rewards') < Needed
        BY <4>5, EmptySeq, RoutingLearnerAssumption
      <4>7. QED
        BY <4>3, <4>4, <4>5, <4>6 DEF cvars, flags, Known
    <3>9. QED
      BY <2>6, <3>1, <3>2, <3>3, <3>4, <3>5, <3>7, <3>8 DEF Learner
  <2>7. CASE UNCHANGED vars
    BY <2>7 DEF TypeOK, vars, cvars, flags, lvars, Known
  <2>8. QED
    BY <2>1, <2>2, <2>3, <2>4, <2>5, <2>6, <2>7 DEF Next
<1>3. QED
  BY <1>1, <1>2, PTL DEF Spec

-----------------------------------------------------------------------------
\* A round of the controller takes an action, if there is one, before it sends a report: in
\* between there is room for that report.
OutInv ==
  /\ Len(toLearner) <= Capacity
  /\ Len(toLearner) + Len(toController) <= IF pc = "report" THEN Capacity ELSE Capacity + 1

\* There is room in every round (checking_updates, learning_module).
THEOREM RoomCorrect == Spec => []OutInv
<1>1. Init => OutInv
  BY EmptySeq, RoutingLearnerAssumption DEF Init, OutInv
<1>2. TypeOK /\ OutInv /\ [Next]_vars => OutInv'
  <2> SUFFICES ASSUME TypeOK, OutInv, [Next]_vars PROVE OutInv'
    OBVIOUS
  <2> DEFINE m == Len(toLearner) 
             a == Len(toController)
  <2>0. m \in Nat /\ a \in Nat /\ Capacity \in Nat /\ pc \in {"poll", "report"}
    BY LenProperties, RoutingLearnerAssumption DEF TypeOK
  <2>1. ASSUME NEW f \in Flows, PacketIn(f) PROVE OutInv'
    BY <2>1 DEF PacketIn, OutInv
  <2>2. CASE ProbesArrive
    BY <2>2 DEF ProbesArrive, OutInv
  <2>3. CASE Put
    BY <2>3 DEF Put, OutInv, cvars
  <2>4. CASE Poll
    <3>1. toController # <<>> => Len(Tail(toController)) = a - 1
      BY HeadTailProperties DEF TypeOK
    <3>2. toController = <<>> => a = 0
      BY EmptySeq
    <3>3. QED
      BY <2>0, <2>4, <3>1, <3>2 DEF Poll, OutInv
  <2>5. CASE Reports
    <3>1. SendsReport => m < Capacity /\ Len(toLearner') = m + 1
      BY <2>0, LenProperties, AppendProperties DEF SendsReport, TypeOK
    <3>2. QED
      BY <2>0, <2>5, <3>1 DEF Reports, OutInv
  <2>6. CASE Learner
    <3>1. toLearner # <<>>
      BY <2>6 DEF Learner, Ignores, Stops, Fails, Restarts, Builds, Counts, Acts, Plain, Receives
    <3>2. Len(Tail(toLearner)) = m - 1 /\ Tail(toLearner) \in Seq(Report)
      BY <3>1, GotType
    <3>3. pc' = pc
      BY <2>6 DEF Learner, Ignores, Stops, Fails, Restarts, Builds, Counts, Acts, cvars
    <3>4. CASE Acts
      <4>1. PICK b \in PossibleActions(Current) : toController' = Append(toController, b)
        BY <3>4 DEF Acts
      <4>2. b \in Actions
        BY DEF PossibleActions
      <4>3. Len(toController') = a + 1
        BY <4>1, <4>2, AppendProperties DEF TypeOK
      <4>4. Len(toLearner') = m - 1
        <5>1. DOMAIN Tail(toLearner) = 1 .. m - 1 /\ m - 1 \in Nat
          BY <3>2, LenProperties
        <5>2. toLearner' = [i \in 1 .. m - 1 |-> [Tail(toLearner)[i] EXCEPT !.old = TRUE]]
          BY <3>4, <5>1 DEF Acts
        <5>3. DOMAIN toLearner' = 1 .. m - 1
          BY <5>2
        <5>4. QED
          BY <5>1, <5>3, <5>2
      <4>5. QED
        BY <2>0, <3>3, <4>3, <4>4 DEF OutInv
    <3>5. CASE ~Acts
      <4>1. toLearner' = Tail(toLearner) /\ toController' = toController
        BY <2>6, <3>5 DEF Learner, Ignores, Stops, Fails, Restarts, Builds, Counts, Plain, Receives
      <4>2. QED
        BY <2>0, <3>2, <3>3, <4>1 DEF OutInv
    <3>6. QED
      BY <3>4, <3>5
  <2>7. CASE UNCHANGED vars
    BY <2>7 DEF OutInv, vars, cvars
  <2>8. QED
    BY <2>1, <2>2, <2>3, <2>4, <2>5, <2>6, <2>7 DEF Next
<1>3. QED
  BY <1>1, <1>2, TypeCorrect, PTL DEF Spec

\* The two pipes are never both full.
THEOREM OutstandingHolds == Spec => []Outstanding
<1>1. TypeOK /\ OutInv => Outstanding
  <2>1. TypeOK => Len(toLearner) \in Nat /\ Len(toController) \in Nat
    BY LenProperties DEF TypeOK
  <2>2. QED
    BY <2>1, RoutingLearnerAssumption DEF OutInv, Outstanding, TypeOK
<1>2. QED
  BY <1>1, RoomCorrect, TypeCorrect, PTL

-----------------------------------------------------------------------------
\* While no report was hurried there is one at most under way, no action is under way with it,
\* and it was measured after the last one.
FreshInv ==
  /\ fresh = measured
  /\ ~hurried =>
       /\ Len(toLearner) <= 1
       /\ toLearner # <<>> => toController = <<>>
       /\ \A i \in DOMAIN toLearner : ~toLearner[i].old
       /\ \A i \in DOMAIN rewards : ~rewards[i]

\* The invariant holds (checking_updates, learning_module).
THEOREM FreshCorrect == Spec => []FreshInv
<1>1. Init => FreshInv
  <2>1. Init => toLearner = <<>> /\ toController = <<>> /\ rewards = <<>> /\ fresh = measured
    BY DEF Init
  <2>2. DOMAIN <<>> = {} /\ Len(<<>>) = 0
    BY EmptySeq
  <2>3. QED
    BY <2>1, <2>2 DEF FreshInv
<1>2. TypeOK /\ FreshInv /\ [Next]_vars => FreshInv'
  <2> SUFFICES ASSUME TypeOK, FreshInv, [Next]_vars PROVE FreshInv'
    OBVIOUS
  <2>1. ASSUME NEW f \in Flows, PacketIn(f) PROVE FreshInv'
    BY <2>1 DEF PacketIn, FreshInv, lvars
  <2>2. CASE ProbesArrive
    BY <2>2 DEF ProbesArrive, FreshInv, lvars
  <2>3. CASE Put
    BY <2>3 DEF Put, FreshInv, cvars, lvars
  <2>4. CASE Poll
    BY <2>4 DEF Poll, FreshInv, lvars
  <2>5. CASE Reports
    <3>1. CASE SendsReport
      <4> DEFINE r == [comb |-> chosen, reset |-> reset, iteration |-> iteration, stop |-> stop,
                       old |-> ~measured \/ toController # <<>>]
      <4>1. toLearner' = Append(toLearner, r)
            /\ hurried' = (hurried \/ toLearner # <<>> \/ toController # <<>> \/ ~fresh)
            /\ UNCHANGED <<fresh, measured, rewards, toController>>
        BY <2>5, <3>1 DEF Reports, SendsReport, lvars
      <4>2. CASE hurried'
        BY <4>1, <4>2 DEF FreshInv
      <4>3. CASE ~hurried'
        <5>1. ~hurried /\ toLearner = <<>> /\ toController = <<>> /\ measured
          BY <4>1, <4>3 DEF FreshInv, TypeOK
        <5>2. ~r.old
          BY <5>1
        <5> HIDE DEF r
        <5>3. toLearner' = <<r>>
          BY <4>1, <5>1
        <5>4. Len(toLearner') = 1 /\ \A i \in DOMAIN toLearner' : toLearner'[i] = r
          BY <5>3
        <5>5. QED
          BY <4>1, <5>1, <5>2, <5>4 DEF FreshInv
      <4>4. QED
        BY <4>2, <4>3
    <3>2. CASE ~SendsReport
      BY <2>5, <3>2 DEF Reports, FreshInv, lvars
    <3>3. QED
      BY <3>1, <3>2
  <2>6. CASE Learner
    <3>1. toLearner # <<>> /\ UNCHANGED <<fresh, measured, hurried>>
      BY <2>6 DEF Learner, Ignores, Stops, Fails, Restarts, Builds, Counts, Acts, Plain, Receives, cvars
    <3>2. CASE hurried
      BY <3>1, <3>2 DEF FreshInv
    <3>3. CASE ~hurried
      <4>1. Len(Tail(toLearner)) = 0 /\ DOMAIN Tail(toLearner) = {} /\ Tail(toLearner) = <<>>
        <5>1. Len(toLearner) \in Nat /\ Len(toLearner) # 0 /\ Len(toLearner) <= 1
          BY <3>1, <3>3, LenProperties, EmptySeq DEF FreshInv, TypeOK
        <5>2. Len(Tail(toLearner)) = Len(toLearner) - 1 /\ Tail(toLearner) \in Seq(Report)
          BY <3>1, GotType
        <5>3. Len(Tail(toLearner)) = 0
          BY <5>1, <5>2
        <5> DEFINE t == Tail(toLearner)
        <5>4. t \in Seq(Report) /\ Len(t) = 0
          BY <5>2, <5>3
        <5> HIDE DEF t
        <5>5. t = <<>> /\ DOMAIN t = {}
          BY <5>4, EmptySeq, LenProperties
        <5>6. QED
          BY <5>3, <5>5 DEF t
      <4>2. toLearner' = <<>>
        <5>1. CASE Acts
          BY <4>1, <5>1 DEF Acts
        <5>2. CASE ~Acts
          BY <2>6, <4>1, <5>2 DEF Learner, Ignores, Stops, Fails, Restarts, Builds, Counts, Plain,
                                  Receives
        <5>3. QED
          BY <5>1, <5>2
      <4>3. \A i \in DOMAIN rewards' : ~rewards'[i]
        <5>1. CASE Counts
          <6>1. ~Got.old
            BY <3>1, <3>3, HeadTailProperties, LenProperties DEF FreshInv, TypeOK, Got
          <6>2. rewards' = Counted
            BY <5>1 DEF Counts
          <6>3. rewards \in Seq(BOOLEAN) /\ <<>> \in Seq(BOOLEAN)
                /\ Got.old \in BOOLEAN /\ \A i \in DOMAIN rewards : ~rewards[i]
            BY <3>1, <3>3, GotType, EmptySeq DEF TypeOK, FreshInv, Report
          <6> DEFINE b == IF Joined THEN <<>> ELSE rewards
          <6>4. b \in Seq(BOOLEAN) /\ \A i \in DOMAIN b : ~b[i]
            <7>1. CASE Joined
              BY <6>3, <7>1, EmptySeq
            <7>2. CASE ~Joined
              BY <6>3, <7>2
            <7>3. QED
              BY <7>1, <7>2
          <6>5. rewards' = Append(b, Got.old)
            BY <6>2 DEF Counted
          <6> HIDE DEF b
          <6>6. QED
            BY <6>1, <6>3, <6>4, <6>5, AppendProperties, LenProperties
        <5>2. CASE ~Counts
          <6>1. rewards' = rewards \/ rewards' = <<>>
            BY <2>6, <5>2 DEF Learner, Ignores, Stops, Fails, Restarts, Builds, Acts, lvars
          <6>2. QED
            BY <3>3, <6>1, EmptySeq DEF FreshInv
        <5>3. QED
          BY <5>1, <5>2
      <4>4. QED
        BY <3>1, <4>2, <4>3, EmptySeq DEF FreshInv
    <3>4. QED
      BY <3>2, <3>3 DEF TypeOK
  <2>7. CASE UNCHANGED vars
    BY <2>7 DEF FreshInv, vars, cvars, lvars
  <2>8. QED
    BY <2>1, <2>2, <2>3, <2>4, <2>5, <2>6, <2>7 DEF Next
<1>3. QED
  BY <1>1, <1>2, TypeCorrect, PTL DEF Spec

\* How many of the rewards to come may be stale: those of the reports that the pipe holds and
\* of those that a flag sent before they were due.
Spare == Capacity + puts - (IF reset \/ iteration THEN 1 ELSE 0)

\* The actions that are under way for another report to be sent before them.
Behind ==
  IF toController = <<>> THEN 0 ELSE Len(toController) - 1 + (IF pc = "report" THEN 1 ELSE 0)

\* The rewards counted and those under way are stale first; and as long as the last action is not
\* done, or nothing was measured since, all of them are, and more of them are sent only before
\* an action that is behind another, or for a flag.
StaleInv ==
  /\ puts \in Nat /\ (reset \/ iteration => puts > 0)
  /\ \A i, j \in DOMAIN rewards : i <= j /\ rewards[j] => rewards[i]
  /\ \A i \in DOMAIN rewards : rewards[i] => i <= Spare
  /\ \A j \in DOMAIN toLearner : toLearner[j].old =>
       /\ \A i \in DOMAIN rewards : rewards[i]
       /\ \A k \in DOMAIN toLearner : k <= j => toLearner[k].old
       /\ Len(rewards) + j <= Spare
  /\ toController # <<>> \/ ~measured =>
       /\ \A i \in DOMAIN rewards : rewards[i]
       /\ \A k \in DOMAIN toLearner : toLearner[k].old
       /\ Len(rewards) + Len(toLearner) + Behind <= Spare

\* The numbers that the invariant speaks of.
LEMMA StaleFacts ==
  ASSUME TypeOK, StaleInv
  PROVE  /\ Len(rewards) \in Nat /\ DOMAIN rewards = 1 .. Len(rewards)
         /\ Len(toLearner) \in Nat /\ DOMAIN toLearner = 1 .. Len(toLearner)
         /\ Len(toController) \in Nat /\ (toController = <<>> <=> Len(toController) = 0)
         /\ Capacity \in Nat /\ Spare \in Nat /\ Capacity <= Spare /\ Spare <= Capacity + puts
         /\ \A i \in DOMAIN rewards : rewards[i] \in BOOLEAN
         /\ \A i \in DOMAIN toLearner : toLearner[i].old \in BOOLEAN
         /\ {measured, reset, iteration} \subseteq BOOLEAN /\ pc \in {"poll", "report"}
<1>1. /\ Len(rewards) \in Nat /\ DOMAIN rewards = 1 .. Len(rewards)
      /\ Len(toLearner) \in Nat /\ DOMAIN toLearner = 1 .. Len(toLearner)
      /\ \A i \in DOMAIN rewards : rewards[i] \in BOOLEAN
      /\ \A i \in DOMAIN toLearner : toLearner[i] \in Report
  BY LenProperties, ElementOfSeq DEF TypeOK
<1>2. Len(toController) \in Nat /\ (toController = <<>> <=> Len(toController) = 0)
  BY LenProperties, EmptySeq DEF TypeOK
<1>3. Capacity \in Nat /\ puts \in Nat /\ (reset \/ iteration => puts > 0)
  BY RoutingLearnerAssumption DEF StaleInv
<1>4. Spare \in Nat /\ Capacity <= Spare /\ Spare <= Capacity + puts
  BY <1>3 DEF Spare
<1>5. QED
  BY <1>1, <1>2, <1>3, <1>4 DEF Report, TypeOK

\* A round of the controller: it takes an action, which another may be behind.
LEMMA PollKeepsStale ==
  ASSUME TypeOK, StaleInv, Poll
  PROVE  StaleInv'
<1>1. pc = "poll" /\ pc' = "report" /\ UNCHANGED <<rewards, toLearner, reset, iteration, puts>>
  BY DEF Poll, flags, lvars
<1>2. Spare' = Spare
  BY <1>1 DEF Spare
<1>3. CASE toController = <<>>
  <2>1. UNCHANGED <<measured, toController>> /\ Behind' = 0 /\ Behind = 0
    BY <1>3 DEF Poll, Behind
  <2>2. QED
    BY <1>1, <1>2, <2>1 DEF StaleInv
<1>4. CASE toController # <<>>
  <2>1. toController' = Tail(toController) /\ toController' \in Seq(Actions)
        /\ Len(toController') = Len(toController) - 1
    BY <1>4, HeadTailProperties DEF Poll, TypeOK
  <2>2. Behind' <= Behind /\ Behind \in Nat /\ Behind' \in Nat
    <3>1. toController' = <<>> <=> Len(toController') = 0
      BY <2>1, EmptySeq
    <3>2. QED
      BY <1>1, <1>4, <2>1, <3>1, StaleFacts DEF Behind
  <2>3. Len(rewards) + Len(toLearner) + Behind' <= Spare
    BY <1>4, <2>2, StaleFacts DEF StaleInv
  <2>4. QED
    BY <1>1, <1>2, <1>4, <2>3 DEF StaleInv
<1>5. QED
  BY <1>3, <1>4

\* A report that is stale is sent before an action that is under way, or for a flag.
LEMMA ReportsKeepStale ==
  ASSUME TypeOK, FreshInv, StaleInv, Reports
  PROVE  StaleInv'
<1> DEFINE m == Len(toLearner)
           r == Len(rewards)
           old == ~measured \/ toController # <<>>
<1>1. pc = "report" /\ pc' = "poll" /\ UNCHANGED <<measured, rewards, toController, puts>>
  BY DEF Reports, lvars
<1>2. /\ Behind \in Nat /\ Behind' \in Nat /\ Behind' <= Behind
      /\ toController # <<>> => Behind' + 1 = Behind
      /\ toController = <<>> => Behind' = 0 /\ Behind = 0
  BY <1>1, StaleFacts DEF Behind
<1>3. CASE fresh \/ iteration \/ reset
  <2>1. reset' = FALSE /\ iteration' = FALSE
        /\ toLearner' = Append(toLearner, [comb |-> chosen, reset |-> reset, iteration |-> iteration,
                                          stop |-> stop, old |-> old])
    BY <1>3 DEF Reports, SendsReport
  <2>2. /\ Len(toLearner') = m + 1 /\ DOMAIN toLearner' = 1 .. m + 1
        /\ \A i \in 1 .. m : toLearner'[i] = toLearner[i]
        /\ toLearner'[m + 1].old = old
    <3> DEFINE t == [comb |-> chosen, reset |-> reset, iteration |-> iteration,
                     stop |-> stop, old |-> old]
    <3>1. t \in Report
      BY DEF TypeOK, Report
    <3>2. t.old = old
      OBVIOUS
    <3> HIDE DEF t, old
    <3>3. toLearner' = Append(toLearner, t) /\ toLearner \in Seq(Report)
      BY <2>1 DEF TypeOK, t
    <3>4. Append(toLearner, t) \in Seq(Report)
      BY <3>1, <3>3, AppendProperties
    <3>5. QED
      BY <3>1, <3>2, <3>3, <3>4, AppendProperties, LenProperties
  <2>3. Spare' = Capacity + puts /\ Spare <= Spare' /\ Spare \in Nat /\ Spare' \in Nat
        /\ (iteration \/ reset => Spare' = Spare + 1)
    BY <1>1, <2>1, StaleFacts DEF Spare, StaleInv
  <2>4. CASE old
    <3>1. /\ \A i \in DOMAIN rewards : rewards[i]
          /\ \A k \in DOMAIN toLearner : toLearner[k].old
          /\ r + m + Behind <= Spare
      BY <2>4 DEF StaleInv
    <3>2. r + (m + 1) + Behind' <= Spare'
      <4>1. r \in Nat /\ m \in Nat /\ r + m + Behind <= Spare
        BY <3>1, StaleFacts
      <4> HIDE DEF r, m
      <4>2. CASE toController # <<>>
        <5>1. Behind' + 1 = Behind /\ Behind' \in Nat /\ Behind \in Nat
          BY <1>2, <4>2
        <5>2. Spare \in Nat /\ Spare' \in Nat /\ Spare <= Spare'
          BY <2>3
        <5>3. \A x, y, b, c, s, u \in Nat :
                x + y + b <= s /\ s <= u /\ c + 1 = b => x + (y + 1) + c <= u
          OBVIOUS
        <5>4. QED
          BY ONLY <4>1, <5>1, <5>2, <5>3
      <4>3. CASE toController = <<>>
        <5>1. iteration \/ reset
          BY <1>3, <2>4, <4>3 DEF FreshInv
        <5>2. Spare' = Spare + 1 /\ Behind' = 0 /\ Behind = 0
          BY <1>2, <2>3, <4>3, <5>1
        <5>3. QED
          BY <2>3, <4>1, <5>2
      <4>4. QED
        BY <4>2, <4>3
    <3>3. \A k \in DOMAIN toLearner' : toLearner'[k].old /\ r + k <= Spare'
      <4>1. ASSUME NEW k \in 1 .. m + 1 PROVE toLearner'[k].old
        <5>1. CASE k = m + 1
          BY <2>2, <2>4, <5>1
        <5>2. CASE k # m + 1
          <6>1. k \in 1 .. m
            BY <5>2, StaleFacts
          <6>2. QED
            BY <2>2, <3>1, <6>1, StaleFacts
        <5>3. QED
          BY <5>1, <5>2
      <4>2. \A k \in 1 .. m + 1 : r + k <= Spare'
        BY <1>2, <2>3, <3>2, StaleFacts
      <4>3. QED
        BY <2>2, <4>1, <4>2
    <3>4. \A i \in DOMAIN rewards : i <= Spare'
      BY <2>3, <3>1, StaleFacts DEF StaleInv
    <3> HIDE DEF old
    <3>5. QED
      BY <1>1, <2>1, <2>2, <3>1, <3>2, <3>3, <3>4 DEF StaleInv
  <2>5. CASE ~old
    <3>1. measured /\ toController = <<>>
      BY <2>5
    <3>2. \A i \in DOMAIN rewards : rewards[i] => i <= Spare'
      BY <2>3, StaleFacts DEF StaleInv
    <3>3. \A j \in DOMAIN toLearner' : toLearner'[j].old => j \in DOMAIN toLearner
      <4>1. ~toLearner'[m + 1].old
        BY <2>2, <2>5
      <4>2. m \in Nat /\ DOMAIN toLearner = 1 .. m /\ DOMAIN toLearner' = 1 .. m + 1
        BY <2>2, StaleFacts
      <4> HIDE DEF m
      <4>3. \A j \in 1 .. m + 1 : j \in 1 .. m \/ j = m + 1
        BY <4>2
      <4>4. QED
        BY <4>1, <4>2, <4>3
    <3>4. \A j \in DOMAIN toLearner : toLearner'[j] = toLearner[j]
      BY <2>2, StaleFacts
    <3>5. \A j, k \in DOMAIN toLearner' : k <= j /\ j \in DOMAIN toLearner => k \in DOMAIN toLearner
      BY <2>2, StaleFacts
    <3>6. ASSUME NEW j \in DOMAIN toLearner', toLearner'[j].old
          PROVE  /\ \A i \in DOMAIN rewards : rewards[i]
                 /\ \A k \in DOMAIN toLearner' : k <= j => toLearner'[k].old
                 /\ r + j <= Spare'
      <4>1. j \in DOMAIN toLearner /\ toLearner[j].old
        BY <3>3, <3>4, <3>6
      <4>2. /\ \A i \in DOMAIN rewards : rewards[i]
            /\ \A k \in DOMAIN toLearner : k <= j => toLearner[k].old
            /\ r + j <= Spare
        BY <4>1 DEF StaleInv
      <4>3. r + j <= Spare'
        BY <2>3, <4>1, <4>2, StaleFacts
      <4>4. QED
        BY <3>4, <3>5, <4>1, <4>2, <4>3
    <3> HIDE DEF old
    <3>7. QED
      BY <1>1, <2>1, <3>1, <3>2, <3>6 DEF StaleInv
  <2>6. QED
    BY <2>4, <2>5
<1>4. CASE ~(fresh \/ iteration \/ reset)
  <2>1. UNCHANGED <<toLearner, reset, iteration>>
    BY <1>4 DEF Reports
  <2>2. Spare' = Spare
    BY <1>1, <2>1 DEF Spare
  <2>3. toController # <<>> \/ ~measured => Len(rewards) + Len(toLearner) + Behind' <= Spare
    BY <1>2, StaleFacts DEF StaleInv
  <2>4. QED
    BY <1>1, <2>1, <2>2, <2>3 DEF StaleInv
<1>5. QED
  BY <1>3, <1>4

\* An action begins anew: what is still in the pipe is stale, and there is room for it.
LEMMA ActsKeepsStale ==
  ASSUME TypeOK, OutInv, StaleInv, Acts
  PROVE  StaleInv'
<1> DEFINE m == Len(toLearner)
           a == Len(toController)
<1>1. toLearner # <<>> /\ rewards' = <<>> /\ UNCHANGED <<pc, measured, reset, iteration, puts>>
  BY DEF Acts, cvars, flags
<1>2. /\ m - 1 \in Nat /\ DOMAIN toLearner' = 1 .. m - 1
      /\ \A j \in 1 .. m - 1 : toLearner'[j].old
      /\ Len(toLearner') = m - 1
  <2>1. /\ Len(Tail(toLearner)) = m - 1 /\ DOMAIN Tail(toLearner) = 1 .. m - 1 /\ m - 1 \in Nat
        /\ \A i \in 1 .. m - 1 : Tail(toLearner)[i] \in Report
    BY <1>1, GotType, LenProperties
  <2>2. toLearner' = [i \in 1 .. m - 1 |-> [Tail(toLearner)[i] EXCEPT !.old = TRUE]]
    BY <2>1 DEF Acts
  <2>3. \A j \in 1 .. m - 1 : toLearner'[j].old
    BY <2>1, <2>2 DEF Report
  <2>4. DOMAIN toLearner' = 1 .. m - 1
    BY <2>2
  <2> HIDE DEF m
  <2>5. Len(toLearner') = m - 1
    BY <2>1, <2>4
  <2>6. QED
    BY <2>1, <2>3, <2>4, <2>5
<1>3. Len(toController') = a + 1 /\ toController' # <<>>
  <2>1. PICK b \in PossibleActions(Current) : toController' = Append(toController, b)
    BY DEF Acts
  <2>2. b \in Actions
    BY DEF PossibleActions
  <2>3. QED
    BY <2>1, <2>2, AppendProperties, EmptySeq DEF TypeOK
<1>4. Spare' = Spare
  BY <1>1 DEF Spare
<1>5. Len(toLearner') + Behind' <= Spare /\ Behind' \in Nat
  BY <1>1, <1>2, <1>3, StaleFacts DEF OutInv, Behind
<1>6. Len(<<>>) = 0 /\ DOMAIN <<>> = {}
  BY EmptySeq
<1>7. \A j \in DOMAIN toLearner' : j <= Spare /\ 0 + j <= Spare
  BY <1>2, <1>5, StaleFacts
<1>8. puts' \in Nat /\ (reset' \/ iteration' => puts' > 0)
  BY <1>1 DEF StaleInv
<1>9. Len(rewards') + Len(toLearner') + Behind' <= Spare'
  BY <1>1, <1>2, <1>4, <1>5, <1>6
<1>10. \A j \in DOMAIN toLearner' : Len(rewards') + j <= Spare' /\ toLearner'[j].old
  BY <1>1, <1>2, <1>4, <1>6, <1>7
<1>11. DOMAIN rewards' = {}
  BY <1>1, <1>6
<1>12. QED
  BY <1>8, <1>9, <1>10, <1>11 DEF StaleInv

\* What else the learner does with a report: its reward is counted after those before it, or
\* after none, or dropped with them or without them.
LEMMA TakesKeepsStale ==
  ASSUME TypeOK, StaleInv, Learner, ~Acts
  PROVE  StaleInv'
<1> DEFINE m == Len(toLearner)
           r == Len(rewards)
           n == Len(rewards')
<1>1. /\ toLearner # <<>> /\ toLearner' = Tail(toLearner)
      /\ UNCHANGED <<pc, measured, reset, iteration, puts, toController>>
  BY DEF Learner, Ignores, Stops, Fails, Restarts, Builds, Counts, Plain, Receives, cvars, flags
<1>2. /\ m - 1 \in Nat /\ 1 \in DOMAIN toLearner /\ Got = toLearner[1] /\ Got.old \in BOOLEAN
      /\ Len(toLearner') = m - 1 /\ DOMAIN toLearner' = 1 .. m - 1
      /\ \A j \in 1 .. m - 1 : toLearner'[j] = toLearner[j + 1] /\ j + 1 \in DOMAIN toLearner
  <2>1. Len(Tail(toLearner)) = m - 1 /\ Tail(toLearner) \in Seq(Report) /\ m \in Nat \ {0}
    BY <1>1, GotType, StaleFacts, EmptySeq, LenProperties DEF TypeOK
  <2>2. \A j \in 1 .. m - 1 : Tail(toLearner)[j] = toLearner[j + 1]
    BY <1>1, HeadTailProperties DEF TypeOK
  <2>3. Got = toLearner[1]
    BY DEF Got
  <2>4. DOMAIN Tail(toLearner) = 1 .. m - 1
    BY <2>1, LenProperties
  <2> HIDE DEF m
  <2>5. DOMAIN toLearner = 1 .. m
    BY StaleFacts DEF m
  <2>6. QED
    BY <1>1, <2>1, <2>2, <2>3, <2>4, <2>5, StaleFacts
<1>3. \E b \in {rewards, <<>>} : rewards' = b \/ rewards' = Append(b, Got.old)
  BY DEF Learner, Ignores, Stops, Fails, Restarts, Builds, Counts, Counted, lvars
<1>4. /\ n \in Nat /\ n <= r + 1 /\ DOMAIN rewards' = 1 .. n
      /\ \A i \in 1 .. n : \/ i \in DOMAIN rewards /\ rewards'[i] = rewards[i]
                           \/ i = n /\ rewards'[i] = Got.old
  <2>1. PICK b \in {rewards, <<>>} : rewards' = b \/ rewards' = Append(b, Got.old)
    BY <1>3
  <2>2. b \in Seq(BOOLEAN) /\ Len(b) \in Nat /\ Len(b) <= r /\ DOMAIN b = 1 .. Len(b)
        /\ \A i \in DOMAIN b : i \in DOMAIN rewards /\ b[i] = rewards[i]
    <3>1. CASE b = rewards
      BY <3>1, StaleFacts DEF TypeOK
    <3>2. CASE b = <<>>
      <4>1. <<>> \in Seq(BOOLEAN) /\ Len(<<>>) = 0 /\ DOMAIN <<>> = {}
        BY EmptySeq
      <4>2. QED
        BY <3>2, <4>1, StaleFacts
    <3>3. QED
      BY <3>1, <3>2
  <2>3. CASE rewards' = b
    <3>1. r \in Nat
      BY StaleFacts
    <3> HIDE DEF r
    <3>2. n \in Nat /\ n <= r /\ DOMAIN rewards' = 1 .. n
      BY <2>2, <2>3
    <3>3. \A i \in 1 .. n : i \in DOMAIN rewards /\ rewards'[i] = rewards[i]
      BY <2>2, <2>3
    <3> HIDE DEF n
    <3>4. n <= r + 1
      BY <3>1, <3>2
    <3>5. QED
      BY <3>2, <3>3, <3>4
  <2>4. CASE rewards' = Append(b, Got.old)
    <3> DEFINE c == Append(b, Got.old)
    <3>1. c \in Seq(BOOLEAN) /\ Len(c) = Len(b) + 1 /\ c[Len(b) + 1] = Got.old
          /\ \A i \in 1 .. Len(b) : c[i] = b[i]
      BY <1>2, <2>2, AppendProperties
    <3> HIDE DEF c
    <3>2. DOMAIN c = 1 .. Len(b) + 1
      BY <3>1, LenProperties
    <3>3. \A i \in 1 .. Len(b) + 1 : i \in DOMAIN b \/ i = Len(b) + 1
      BY <2>2
    <3>4. rewards' = c
      BY <2>4 DEF c
    <3>5. QED
      BY <2>2, <3>1, <3>2, <3>3, <3>4, StaleFacts
  <2>5. QED
    BY <2>1, <2>3, <2>4
<1> HIDE DEF m, r, n
<1>5. Spare' = Spare /\ Behind' = Behind
  BY <1>1 DEF Spare, Behind
<1>6. r \in Nat /\ m \in Nat /\ DOMAIN rewards = 1 .. r /\ Spare \in Nat
  BY StaleFacts DEF r, m
<1>7. Got.old => /\ \A i \in DOMAIN rewards : rewards[i]
                 /\ r + 1 <= Spare
  BY <1>2 DEF StaleInv, r
<1>8. (\A i \in DOMAIN rewards : rewards[i]) /\ Got.old => \A i \in 1 .. n : rewards'[i]
  BY <1>4
<1>9. \A i, j \in DOMAIN rewards' : i <= j /\ rewards'[j] => rewards'[i]
  <2> SUFFICES ASSUME NEW i \in 1 .. n, NEW j \in 1 .. n, i <= j, rewards'[j] PROVE rewards'[i]
    BY <1>4
  <2>1. CASE Got.old
    BY <1>7, <1>8, <2>1
  <2>2. CASE ~Got.old
    <3>1. j \in DOMAIN rewards /\ rewards[j]
      BY <1>4, <2>2
    <3>2. i \in DOMAIN rewards
      BY <1>6, <3>1
    <3>3. rewards[i]
      BY <3>1, <3>2 DEF StaleInv
    <3>4. i = j \/ i # n
      BY <1>4
    <3>5. QED
      BY <1>4, <3>3, <3>4
  <2>3. QED
    BY <1>2, <2>1, <2>2
<1>10. \A i \in DOMAIN rewards' : rewards'[i] => i <= Spare'
  <2> SUFFICES ASSUME NEW i \in 1 .. n, rewards'[i] PROVE i <= Spare
    BY <1>4, <1>5
  <2>1. CASE i \in DOMAIN rewards /\ rewards'[i] = rewards[i]
    BY <2>1 DEF StaleInv
  <2>2. CASE i = n /\ rewards'[i] = Got.old
    <3>1. Got.old
      BY <2>2
    <3>2. r + 1 <= Spare
      BY <1>7, <3>1
    <3>3. QED
      BY <1>4, <1>6, <2>2, <3>2
  <2>3. QED
    BY <1>4, <2>1, <2>2
<1>11. ASSUME NEW j \in DOMAIN toLearner', toLearner'[j].old
       PROVE  /\ \A i \in DOMAIN rewards' : rewards'[i]
              /\ \A k \in DOMAIN toLearner' : k <= j => toLearner'[k].old
              /\ n + j <= Spare'
  <2>1. j \in 1 .. m - 1 /\ j + 1 \in DOMAIN toLearner /\ toLearner[j + 1].old
    BY <1>2, <1>11
  <2>2. /\ \A i \in DOMAIN rewards : rewards[i]
        /\ \A k \in DOMAIN toLearner : k <= j + 1 => toLearner[k].old
        /\ r + (j + 1) <= Spare
    BY <2>1 DEF StaleInv, r
  <2>3. Got.old
    BY <1>2, <2>1, <2>2
  <2>4. ASSUME NEW k \in DOMAIN toLearner', k <= j PROVE toLearner'[k].old
    <3>1. k \in 1 .. m - 1 /\ k + 1 \in DOMAIN toLearner /\ k + 1 <= j + 1
      BY <1>2, <2>1, <2>4
    <3>2. QED
      BY <1>2, <2>2, <3>1
  <2>5. n + j <= Spare
    BY <1>4, <1>6, <2>1, <2>2
  <2>6. QED
    BY <1>4, <1>5, <1>8, <2>2, <2>3, <2>4, <2>5
<1>12. ASSUME toController' # <<>> \/ ~measured'
       PROVE  /\ \A i \in DOMAIN rewards' : rewards'[i]
              /\ \A k \in DOMAIN toLearner' : toLearner'[k].old
              /\ n + Len(toLearner') + Behind' <= Spare'
  <2>1. /\ \A i \in DOMAIN rewards : rewards[i]
        /\ \A k \in DOMAIN toLearner : toLearner[k].old
        /\ r + m + Behind <= Spare
    BY <1>1, <1>12 DEF StaleInv, r, m
  <2>2. Behind \in Nat
    BY StaleFacts DEF Behind
  <2>3. n + (m - 1) + Behind <= Spare
    BY <1>2, <1>4, <1>6, <2>1, <2>2
  <2>4. QED
    BY <1>2, <1>4, <1>5, <1>8, <2>1, <2>3
<1>13. puts' \in Nat /\ (reset' \/ iteration' => puts' > 0)
  BY <1>1 DEF StaleInv
<1>14. QED
  BY <1>9, <1>10, <1>11, <1>12, <1>13 DEF StaleInv, n

\* The invariant of the rewards that are stale (checking_updates, learning_module).
THEOREM StaleCorrect == Spec => []StaleInv
<1>1. Init => StaleInv
  <2> SUFFICES ASSUME Init PROVE StaleInv
    OBVIOUS
  <2>1. /\ toLearner = <<>> /\ toController = <<>> /\ rewards = <<>>
        /\ ~reset /\ ~iteration /\ puts = 0
    BY DEF Init
  <2>2. DOMAIN <<>> = {} /\ Len(<<>>) = 0
    BY EmptySeq
  <2>3. Behind = 0 /\ Spare = Capacity
    BY <2>1, RoutingLearnerAssumption DEF Behind, Spare
  <2>4. QED
    BY <2>1, <2>2, <2>3, RoutingLearnerAssumption DEF StaleInv
<1>2. TypeOK /\ FreshInv /\ OutInv /\ StaleInv /\ [Next]_vars => StaleInv'
  <2> SUFFICES ASSUME TypeOK, FreshInv, OutInv, StaleInv, [Next]_vars PROVE StaleInv'
    OBVIOUS
  <2>1. ASSUME NEW f \in Flows, PacketIn(f) PROVE StaleInv'
    BY <2>1 DEF PacketIn, StaleInv, Spare, Behind, lvars, flags
  <2>2. CASE ProbesArrive
    BY <2>2 DEF ProbesArrive, StaleInv, Spare, Behind, lvars, flags
  <2>3. CASE Put
    <3>1. /\ puts' = puts + 1 /\ UNCHANGED <<pc, measured, rewards, toLearner, toController>>
          /\ (reset' \/ iteration' => reset \/ iteration \/ puts' > 0)
      BY <2>3, StaleFacts DEF Put, StaleInv, cvars, lvars
    <3>2. puts \in Nat /\ Spare \in Nat /\ Spare' \in Nat /\ Spare <= Spare'
      BY <3>1, StaleFacts DEF Spare, StaleInv
    <3>3. Behind' = Behind /\ Behind \in Nat
      BY <3>1, StaleFacts DEF Behind
    <3>4. \A i \in DOMAIN rewards : rewards[i] => i <= Spare'
      BY <3>2, StaleFacts DEF StaleInv
    <3>5. \A j \in DOMAIN toLearner : toLearner[j].old => Len(rewards) + j <= Spare'
      BY <3>2, StaleFacts DEF StaleInv
    <3>6. toController # <<>> \/ ~measured => Len(rewards) + Len(toLearner) + Behind <= Spare'
      BY <3>2, <3>3, StaleFacts DEF StaleInv
    <3>7. puts' \in Nat /\ puts' > 0
      BY <3>1, <3>2
    <3>8. QED
      BY <3>1, <3>3, <3>4, <3>5, <3>6, <3>7 DEF StaleInv
  <2>4. CASE Poll
    BY <2>4, PollKeepsStale
  <2>5. CASE Reports
    BY <2>5, ReportsKeepStale
  <2>6. CASE Learner
    BY <2>6, ActsKeepsStale, TakesKeepsStale
  <2>7. CASE UNCHANGED vars
    BY <2>7 DEF StaleInv, Spare, Behind, vars, cvars, flags, lvars
  <2>8. QED
    BY <2>1, <2>2, <2>3, <2>4, <2>5, <2>6, <2>7 DEF Next
<1>3. QED
  BY <1>1, <1>2, TypeCorrect, FreshCorrect, RoomCorrect, PTL DEF Spec

\* Rewards measured before the action they are counted for come first, and are no more than the
\* pipe holds and one for each PUT, however slow the learner is; there are none while no report
\* was hurried (last_state_change).
THEOREM RewardsAreFreshHolds == Spec => []RewardsAreFresh
<1>1. TypeOK /\ FreshInv /\ StaleInv => RewardsAreFresh
  <2> SUFFICES ASSUME TypeOK, FreshInv, StaleInv PROVE RewardsAreFresh
    OBVIOUS
  <2> DEFINE r == Len(rewards)
             m == Len(toLearner)
             old == [i \in DOMAIN toLearner |-> toLearner[i].old]
  <2>1. r \in Nat /\ m \in Nat /\ DOMAIN rewards = 1 .. r /\ DOMAIN toLearner = 1 .. m
    BY StaleFacts
  <2>2. old \in Seq(BOOLEAN) /\ Len(old) = m
    <3>1. old = [i \in 1 .. m |-> toLearner[i].old]
      BY <2>1
    <3>2. \A i \in 1 .. m : toLearner[i].old \in BOOLEAN
      BY StaleFacts
    <3> HIDE DEF old
    <3>3. QED
      BY <2>1, <3>1, <3>2, IsASeq
  <2>3. /\ DOMAIN Due = 1 .. r + m
        /\ \A i \in 1 .. r : Due[i] = rewards[i]
        /\ \A i \in 1 .. m : Due[r + i] = toLearner[i].old
    <3>1. Due = rewards \o old
      BY DEF Due
    <3>2. \A i \in 1 .. m : old[i] = toLearner[i].old
      BY <2>1
    <3>3. rewards \in Seq(BOOLEAN)
      BY DEF TypeOK
    <3> HIDE DEF old, m
    <3>4. /\ rewards \o old \in Seq(BOOLEAN) /\ Len(rewards \o old) = r + m
          /\ \A i \in 1 .. r + m : (rewards \o old)[i] = IF i <= r THEN rewards[i] ELSE old[i - r]
      BY <2>2, <3>3, ConcatProperties
    <3> HIDE DEF r
    <3>5. Due \in Seq(BOOLEAN) /\ DOMAIN Due = 1 .. r + m
      BY <3>1, <3>4, LenProperties
    <3>6. \A i \in 1 .. r : i \in 1 .. r + m /\ i <= r
      BY <2>1
    <3>7. \A i \in 1 .. m : r + i \in 1 .. r + m /\ ~(r + i <= r) /\ (r + i) - r = i
      BY <2>1
    <3>8. QED
      BY <3>1, <3>2, <3>4, <3>5, <3>6, <3>7
  <2> HIDE DEF old, r, m
  <2>4. \A i \in 1 .. r + m : i \in 1 .. r \/ \E j \in 1 .. m : i = r + j
    <3>1. \A i \in 1 .. r + m : i \in 1 .. r \/ (i - r \in 1 .. m /\ i = r + (i - r))
      BY <2>1
    <3>2. QED
      BY <3>1
  <2>5. ASSUME NEW i \in DOMAIN Due, Due[i] PROVE i <= Capacity + puts
    <3>1. i <= Spare
      <4>1. CASE i \in 1 .. r
        BY <2>1, <2>3, <2>5, <4>1 DEF StaleInv
      <4>2. ASSUME NEW j \in 1 .. m, i = r + j PROVE i <= Spare
        BY <2>1, <2>3, <2>5, <4>2 DEF StaleInv, r
      <4>3. QED
        BY <2>3, <2>4, <4>1, <4>2
    <3>2. Spare \in Nat /\ Spare <= Capacity + puts /\ Capacity + puts \in Nat /\ i \in Nat
      BY <2>1, <2>3, StaleFacts DEF StaleInv
    <3>3. QED
      BY <3>1, <3>2
  <2>6. ASSUME NEW i \in DOMAIN Due, NEW j \in DOMAIN Due, i <= j, Due[j] PROVE Due[i]
    <3>1. CASE j \in 1 .. r
      <4>1. i \in 1 .. r
        BY <2>1, <2>3, <2>6, <3>1
      <4>2. QED
        BY <2>1, <2>3, <2>6, <3>1, <4>1 DEF StaleInv
    <3>2. ASSUME NEW k \in 1 .. m, j = r + k PROVE Due[i]
      <4>1. toLearner[k].old /\ k \in DOMAIN toLearner
        BY <2>1, <2>3, <2>6, <3>2
      <4>2. /\ \A l \in DOMAIN rewards : rewards[l]
            /\ \A l \in DOMAIN toLearner : l <= k => toLearner[l].old
        BY <4>1 DEF StaleInv
      <4>3. CASE i \in 1 .. r
        BY <2>1, <2>3, <4>2, <4>3
      <4>4. ASSUME NEW l \in 1 .. m, i = r + l PROVE Due[i]
        <5>1. l <= k
          BY <2>1, <2>6, <3>2, <4>4
        <5>2. QED
          BY <2>1, <2>3, <4>2, <4>4, <5>1
      <4>5. QED
        BY <2>3, <2>4, <4>3, <4>4
    <3>3. QED
      BY <2>3, <2>4, <3>1, <3>2
  <2>7. ASSUME ~hurried, NEW i \in DOMAIN Due PROVE ~Due[i]
    <3>1. CASE i \in 1 .. r
      BY <2>1, <2>3, <2>7, <3>1 DEF FreshInv
    <3>2. ASSUME NEW j \in 1 .. m, i = r + j PROVE ~Due[i]
      BY <2>1, <2>3, <2>7, <3>2 DEF FreshInv
    <3>3. QED
      BY <2>3, <2>4, <3>1, <3>2
  <2>8. QED
    BY <2>5, <2>6, <2>7 DEF RewardsAreFresh
<1>2. QED
  BY <1>1, TypeCorrect, FreshCorrect, StaleCorrect, PTL

-----------------------------------------------------------------------------
\* Doing no actions one after the other changes nothing.
LEMMA FoldOfNone ==
  ASSUME NEW c
  PROVE  FoldLeft(NextState, c, <<>>) = c
<1> DEFINE G(g, s) == IF s = {} THEN c ELSE NextState(g[s \ {Max(s)}], <<>>[Max(s)])
           iter == CHOOSE g : g = [s \in SUBSET DOMAIN <<>> |-> G(g, s)]
<1>1. FoldLeft(NextState, c, <<>>) = iter[DOMAIN <<>>]
  BY DEF FoldLeft, MapThenFoldSet
<1>2. DOMAIN <<>> = {}
  BY EmptySeq
<1> DEFINE h == [s \in SUBSET DOMAIN <<>> |-> c]
<1>3. h = [s \in SUBSET DOMAIN <<>> |-> G(h, s)]
  BY <1>2
<1> HIDE DEF h
<1>4. iter = [s \in SUBSET DOMAIN <<>> |-> G(iter, s)]
  BY <1>3
<1> HIDE DEF iter
<1>5. QED
  BY <1>1, <1>2, <1>4

\* Doing a single one is its step.
LEMMA FoldOfOne ==
  ASSUME NEW c, NEW a
  PROVE  FoldLeft(NextState, c, <<a>>) = NextState(c, a)
<1> DEFINE q == <<a>>
           G(g, s) == IF s = {} THEN c ELSE NextState(g[s \ {Max(s)}], q[Max(s)])
           iter == CHOOSE g : g = [s \in SUBSET DOMAIN q |-> G(g, s)]
<1>1. FoldLeft(NextState, c, q) = iter[DOMAIN q]
  BY DEF FoldLeft, MapThenFoldSet
<1>2. DOMAIN q = {1} /\ q[1] = a
  OBVIOUS
<1>3. Max({1}) = 1
  BY DEF Max
<1> DEFINE h == [s \in SUBSET DOMAIN q |-> IF s = {} THEN c ELSE NextState(c, a)]
<1>4. h = [s \in SUBSET DOMAIN q |-> G(h, s)]
  <2>1. \A s \in SUBSET DOMAIN q : s = {} \/ s = {1}
    BY <1>2
  <2>2. {1} \ {1} = {}
    OBVIOUS
  <2>3. h[{}] = c /\ h[{1}] = NextState(c, a)
    BY <1>2
  <2> HIDE DEF q
  <2>4. \A s \in SUBSET DOMAIN q : h[s] = G(h, s)
    <3> SUFFICES ASSUME NEW s \in SUBSET DOMAIN q PROVE h[s] = G(h, s)
      OBVIOUS
    <3>1. CASE s = {}
      BY <3>1, <2>3
    <3>2. CASE s = {1}
      BY <3>2, <2>2, <2>3, <1>2, <1>3
    <3>3. QED
      BY <2>1, <3>1, <3>2
  <2>5. QED
    BY <2>4
<1> HIDE DEF h
<1>5. iter = [s \in SUBSET DOMAIN q |-> G(iter, s)]
  BY <1>4
<1> HIDE DEF iter
<1>6. iter[{}] = c
  BY <1>2, <1>5
<1>7. iter[{1}] = NextState(iter[{1} \ {1}], a)
  BY <1>2, <1>3, <1>5
<1>8. {1} \ {1} = {}
  OBVIOUS
<1>9. QED
  BY <1>1, <1>2, <1>6, <1>7, <1>8
\* While no report was hurried, one action at most is under way; and unless a flow was given
\* another path behind the learner's back, a report under way names the paths of its flows, and
\* the learner's state is where the action under way leads to.
PredictInv ==
  /\ ~hurried => Len(toController) <= 1
  /\ ~hurried /\ ~strayed =>
       /\ toLearner # <<>> => \A f \in Known(Got.comb) : Got.comb[f] = chosen[f]
       /\ \A f \in temp :
            state[f] = IF toController = <<>> THEN chosen[f]
                       ELSE NextState(chosen, Head(toController))[f]

\* Combinations that agree on some flows agree on them after an action.
LEMMA NextStateAgrees ==
  ASSUME NEW c \in Combinations, NEW d \in Combinations, NEW a \in Actions, NEW f \in Flows,
         c[f] = d[f]
  PROVE  NextState(c, a)[f] = NextState(d, a)[f]
<1>1. CASE a = <<NoTrans>>
  BY <1>1 DEF NextState
<1>2. CASE a # <<NoTrans>>
  <2>1. PICK g \in Flows, p \in Paths : a = <<g, p>>
    BY <1>2 DEF Actions
  <2>2. NextState(c, a) = [c EXCEPT ![g] = p] /\ NextState(d, a) = [d EXCEPT ![g] = p]
    BY <1>2, <2>1 DEF NextState
  <2>3. QED
    BY <2>2 DEF Combinations
<1>3. QED
  BY <1>1, <1>2

\* What the invariant says of the pipes and the state while nothing was hurried or strayed.
LEMMA PredictFacts ==
  ASSUME TypeOK, FreshInv, PredictInv, toLearner # <<>>, ~hurried
  PROVE  /\ toController = <<>> /\ Tail(toLearner) = <<>>
         /\ ~strayed => \A f \in Known(Got.comb) : Got.comb[f] = chosen[f]
         /\ ~strayed => \A f \in temp : state[f] = chosen[f]
<1>1. Len(toLearner) \in Nat /\ Len(toLearner) # 0 /\ Len(toLearner) <= 1
  BY LenProperties, EmptySeq DEF FreshInv, TypeOK
<1>2. Len(Tail(toLearner)) = Len(toLearner) - 1 /\ Tail(toLearner) \in Seq(Report)
  BY GotType
<1>3. Len(Tail(toLearner)) = 0
  BY <1>1, <1>2
<1>4. Tail(toLearner) = <<>>
  BY <1>2, <1>3, EmptySeq
<1>5. QED
  BY <1>4 DEF FreshInv, PredictInv

\* What the learner takes for the current state is where the actions under way lead to, unless
\* a report was hurried or a flow was given another path (get_next_state).
THEOREM PredictionIsRightHolds == Spec => []PredictionIsRight
<1>1. Init => PredictInv
  <2>1. Init => toLearner = <<>> /\ toController = <<>> /\ temp = {}
    BY DEF Init
  <2>2. Len(<<>>) = 0
    BY EmptySeq
  <2>3. QED
    BY <2>1, <2>2 DEF PredictInv
<1>2. TypeOK /\ FreshInv /\ PredictInv /\ [Next]_vars => PredictInv'
  <2> SUFFICES ASSUME TypeOK, FreshInv, PredictInv, [Next]_vars PROVE PredictInv'
    OBVIOUS
  <2>1. ASSUME NEW g \in Flows, PacketIn(g) PROVE PredictInv'
    <3>1. /\ UNCHANGED <<hurried, temp, state, toLearner, toController>>
          /\ \E p \in Paths : chosen' = [chosen EXCEPT ![g] = p]
          /\ strayed' = (strayed \/ chosen[g] \notin {NoPath, chosen'[g]})
      BY <2>1 DEF PacketIn, lvars
    <3>2. CASE hurried
      BY <3>1, <3>2 DEF PredictInv
    <3>3. CASE strayed'
      BY <3>1, <3>3 DEF PredictInv
    <3>4. CASE ~hurried /\ ~strayed'
      <4>1. chosen[g] \in {NoPath, chosen'[g]} /\ ~strayed
        BY <3>1, <3>4 DEF TypeOK
      <4>2. chosen \in Combinations /\ chosen' \in Combinations
            /\ temp \subseteq Known(chosen) /\ Known(chosen) \subseteq Flows
        BY <3>1 DEF TypeOK, Combinations, Known
      <4>3. \A f \in Known(chosen) : chosen'[f] = chosen[f]
        BY <3>1, <4>1, <4>2 DEF Combinations, Known
      <4>4. toLearner # <<>> => \A f \in Known(Got.comb) : Got.comb[f] = chosen'[f]
        <5>1. toLearner # <<>> => Known(Got.comb) \subseteq Known(chosen)
          BY GotType
        <5>2. QED
          BY <3>4, <4>1, <4>3, <5>1 DEF PredictInv
      <4>5. \A f \in temp : toController = <<>> => state[f] = chosen'[f]
        BY <3>4, <4>1, <4>2, <4>3 DEF PredictInv
      <4>6. \A f \in temp :
              toController # <<>> => state[f] = NextState(chosen', Head(toController))[f]
        <5> SUFFICES ASSUME NEW f \in temp, toController # <<>>
                     PROVE  state[f] = NextState(chosen', Head(toController))[f]
          OBVIOUS
        <5>1. state[f] = NextState(chosen, Head(toController))[f]
          BY <3>4, <4>1 DEF PredictInv
        <5>2. Head(toController) \in Actions
          BY HeadTailProperties DEF TypeOK
        <5>3. NextState(chosen, Head(toController))[f] = NextState(chosen', Head(toController))[f]
          BY <4>2, <4>3, <5>2, NextStateAgrees
        <5>4. QED
          BY <5>1, <5>3
      <4>7. Got' = Got
        BY <3>1 DEF Got
      <4>8. QED
        BY <3>1, <3>4, <4>4, <4>5, <4>6, <4>7 DEF PredictInv
    <3>5. QED
      BY <3>2, <3>3, <3>4
  <2>2. CASE ProbesArrive
    BY <2>2 DEF ProbesArrive, PredictInv, lvars, Got
  <2>3. CASE Put
    BY <2>3 DEF Put, PredictInv, cvars, lvars, Got
  <2>4. CASE Poll
    <3>1. UNCHANGED <<hurried, strayed, temp, state, toLearner>>
      BY <2>4 DEF Poll, lvars
    <3>2. CASE toController = <<>>
      BY <2>4, <3>1, <3>2 DEF Poll, PredictInv, Got
    <3>3. CASE toController # <<>>
      <4>1. chosen' = NextState(chosen, Head(toController)) /\ toController' = Tail(toController)
        BY <2>4, <3>3 DEF Poll
      <4>2. CASE hurried
        BY <3>1, <4>2 DEF PredictInv
      <4>3. CASE ~hurried
        <5>1. toLearner = <<>>
          BY <3>3, <4>3 DEF FreshInv
        <5>2. Len(toController) \in Nat /\ Len(toController) # 0 /\ Len(toController) <= 1
          BY <3>3, <4>3, LenProperties, EmptySeq DEF PredictInv, TypeOK
        <5>3. Len(Tail(toController)) = Len(toController) - 1 /\ Tail(toController) \in Seq(Actions)
          BY <3>3, HeadTailProperties DEF TypeOK
        <5>4. Len(Tail(toController)) = 0
          BY <5>2, <5>3
        <5>5. Tail(toController) = <<>>
          BY <5>3, <5>4, EmptySeq
        <5>6. toController' = <<>> /\ Len(toController') = 0
          BY <4>1, <5>4, <5>5
        <5>7. ~strayed => \A f \in temp : state[f] = chosen'[f]
          BY <3>3, <4>1, <4>3 DEF PredictInv
        <5>8. QED
          BY <3>1, <5>1, <5>6, <5>7 DEF PredictInv
      <4>4. QED
        BY <4>2, <4>3
    <3>4. QED
      BY <3>2, <3>3
  <2>5. CASE Reports
    <3>1. UNCHANGED <<chosen, strayed, temp, state, toController>>
      BY <2>5 DEF Reports, lvars
    <3>2. CASE SendsReport
      <4> DEFINE r == [comb |-> chosen, reset |-> reset, iteration |-> iteration, stop |-> stop,
                       old |-> ~measured \/ toController # <<>>]
      <4>1. toLearner' = Append(toLearner, r)
            /\ hurried' = (hurried \/ toLearner # <<>> \/ toController # <<>> \/ ~fresh)
        BY <3>2 DEF SendsReport
      <4>2. CASE hurried'
        BY <4>2 DEF PredictInv
      <4>3. CASE ~hurried'
        <5>1. ~hurried /\ toLearner = <<>> /\ toController = <<>>
          BY <4>1, <4>3 DEF TypeOK
        <5>2. r.comb = chosen
          OBVIOUS
        <5> HIDE DEF r
        <5>3. toLearner' = <<r>>
          BY <4>1, <5>1
        <5>4. Got' = r
          BY <5>3 DEF Got
        <5>5. QED
          BY <3>1, <5>1, <5>2, <5>4 DEF PredictInv
      <4>4. QED
        BY <4>2, <4>3
    <3>3. CASE ~SendsReport
      <4>1. UNCHANGED <<toLearner, hurried>>
        BY <2>5, <3>3 DEF Reports
      <4>2. QED
        BY <3>1, <4>1 DEF PredictInv, Got
    <3>4. QED
      BY <3>2, <3>3
  <2>6. CASE Learner
    <3>1. toLearner # <<>> /\ UNCHANGED <<chosen, hurried, strayed>>
      BY <2>6 DEF Learner, Ignores, Stops, Fails, Restarts, Builds, Counts, Acts, Plain, Receives, cvars
    <3>2. CASE hurried
      BY <3>1, <3>2 DEF PredictInv
    <3>3. CASE ~hurried
      <4>1. /\ toController = <<>> /\ Tail(toLearner) = <<>>
            /\ ~strayed => \A f \in Known(Got.comb) : Got.comb[f] = chosen[f]
            /\ ~strayed => \A f \in temp : state[f] = chosen[f]
        BY <3>1, <3>3, PredictFacts
      <4>2. toLearner' = <<>>
        <5>1. CASE Acts
          BY <4>1, <5>1 DEF Acts
        <5>2. CASE ~Acts
          BY <2>6, <4>1, <5>2 DEF Learner, Ignores, Stops, Fails, Restarts, Builds, Counts, Plain,
                                  Receives
        <5>3. QED
          BY <5>1, <5>2
      <4>3. Got.comb \in Combinations /\ Current \in Combinations /\ chosen \in Combinations
            /\ temp \subseteq Flows /\ Known(Got.comb) \subseteq Flows
        BY <3>1, GotType DEF TypeOK, Report, Current, Known
      <4>4. ~strayed => \A f \in Known(Got.comb) : Current[f] = chosen[f]
        BY <4>1 DEF Current, Joined
      <4>5. CASE Acts
        <5>1. PICK a \in PossibleActions(Current) : toController' = Append(toController, a)
                                                    /\ state' = NextState(Current, a)
          BY <4>5 DEF Acts
        <5>2. toController' = <<a>> /\ Len(toController') = 1 /\ Head(toController') = a
              /\ toController' # <<>>
          BY <4>1, <5>1
        <5>3. temp' = Known(Got.comb) /\ a \in Actions
          BY <4>5 DEF Acts, PossibleActions
        <5>4. ~strayed => \A f \in temp' : state'[f] = NextState(chosen, a)[f]
          BY <4>3, <4>4, <5>1, <5>3, NextStateAgrees
        <5>5. QED
          BY <3>1, <4>2, <5>2, <5>4 DEF PredictInv
      <4>6. CASE ~Acts
        <5>1. toController' = toController
          BY <2>6, <4>6 DEF Learner, Ignores, Stops, Fails, Restarts, Builds, Counts
        <5>2. ~strayed => \A f \in temp' : state'[f] = chosen[f]
          <6>1. CASE Counts
            BY <4>4, <6>1 DEF Counts
          <6>2. CASE Builds
            BY <4>1, <6>2 DEF Builds
          <6>3. CASE Restarts
            BY <6>3 DEF Restarts
          <6>4. CASE Ignores \/ Stops \/ Fails
            BY <4>1, <6>4 DEF Ignores, Stops, Fails, lvars
          <6>5. QED
            BY <2>6, <4>6, <6>1, <6>2, <6>3, <6>4 DEF Learner
        <5>3. Len(toController') = 0
          BY <4>1, <5>1, EmptySeq
        <5>4. QED
          BY <3>1, <4>1, <4>2, <5>1, <5>2, <5>3 DEF PredictInv
      <4>7. QED
        BY <4>5, <4>6
    <3>4. QED
      BY <3>2, <3>3 DEF TypeOK
  <2>7. CASE UNCHANGED vars
    BY <2>7 DEF PredictInv, vars, cvars, lvars, Got
  <2>8. QED
    BY <2>1, <2>2, <2>3, <2>4, <2>5, <2>6, <2>7 DEF Next
<1>3. TypeOK /\ PredictInv => PredictionIsRight
  <2> SUFFICES ASSUME TypeOK, PredictInv, ~hurried, ~strayed, NEW f \in temp
               PROVE  state[f] = FoldLeft(NextState, chosen, toController)[f]
    BY DEF PredictionIsRight
  <2>1. CASE toController = <<>>
    <3>1. FoldLeft(NextState, chosen, <<>>) = chosen
      BY FoldOfNone
    <3>2. FoldLeft(NextState, chosen, toController) = chosen
      BY <2>1, <3>1
    <3>3. QED
      BY <2>1, <3>2 DEF PredictInv
  <2>2. CASE toController # <<>>
    <3> DEFINE a == Head(toController)
    <3>1. toController \in Seq(Actions) /\ Len(toController) \in Nat /\ Len(toController) <= 1
      BY LenProperties DEF TypeOK, PredictInv
    <3>2. Len(toController) # 0
      BY <2>2, <3>1, EmptySeq
    <3>3. toController = <<a>>
      <4> DEFINE s == toController
      <4>1. s \in Seq(Actions) /\ Len(s) = 1
        <5> DEFINE n == Len(s)
        <5>1. s \in Seq(Actions) /\ n \in Nat /\ n <= 1 /\ n # 0
          BY <3>1, <3>2
        <5> HIDE DEF n
        <5>2. n = 1
          BY <5>1
        <5>3. QED
          BY <5>1, <5>2 DEF n
      <4> HIDE DEF s
      <4>2. s = <<s[1]>> /\ Head(s) = s[1]
        BY <4>1
      <4>3. QED
        BY <4>2 DEF s
    <3>4. state[f] = NextState(chosen, a)[f]
      BY <2>2 DEF PredictInv
    <3> HIDE DEF a
    <3>5. FoldLeft(NextState, chosen, <<a>>) = NextState(chosen, a)
      BY FoldOfOne
    <3>6. FoldLeft(NextState, chosen, toController) = NextState(chosen, a)
      BY <3>3, <3>5
    <3>7. QED
      BY <3>4, <3>6
  <2>3. QED
    BY <2>1, <2>2
<1>4. Spec => []FreshInv
  BY FreshCorrect
<1>5. QED
  BY <1>1, <1>2, <1>3, <1>4, TypeCorrect, PTL DEF Spec

----------------------------------------------------------------------------
(* SlicedNetwork: the ways of packets                                      *)

Fast(p) == p.proto = "udp" /\ p.port = 9999

\* Hop i of a packet is to switch w, where it comes in at port k: for each network the way the
\* controllers mean a packet to go. Two hosts are at the ports own and own + 1 of a switch.
Own(p, first, own) == IF p.src = first THEN own ELSE own + 1

ServiceHop(p, i, w, k) ==
  LET mid == IF Fast(p) THEN "s2" ELSE "s3"
      end == IF Fast(p) THEN 1 ELSE 2 IN
  IF p.src \in {"h1", "h2"}
  THEN \/ i = 1 /\ w = "s1" /\ k = Own(p, "h1", 3)
       \/ i = 2 /\ w = mid /\ k = 1
       \/ i = 3 /\ w = "s4" /\ k = end
  ELSE \/ i = 1 /\ w = "s4" /\ k = Own(p, "h3", 3)
       \/ i = 2 /\ w = mid /\ k = 2
       \/ i = 3 /\ w = "s1" /\ k = end

TopologyHop(p, i, w, k) ==
  \/ /\ p.src = "h1"
     /\ \/ i = 1 /\ w = "s1" /\ k = 3
        \/ i = 2 /\ w = "s2" /\ k = 1
        \/ i = 3 /\ w = "s4" /\ k = 1
  \/ /\ p.src = "h2"
     /\ \/ i = 1 /\ w = "s1" /\ k = 4
        \/ i = 2 /\ w = "s3" /\ k = 1
        \/ i = 3 /\ w = "s4" /\ k = 2
  \/ /\ p.src = "h3"
     /\ \/ i = 1 /\ w = "s4" /\ k = 3
        \/ i = 2 /\ w = "s2" /\ k = 2
        \/ i = 3 /\ w = "s1" /\ k = 1
  \/ /\ p.src = "h4"
     /\ \/ i = 1 /\ w = "s4" /\ k = 4
        \/ i = 2 /\ w = "s3" /\ k = 2
        \/ i = 3 /\ w = "s1" /\ k = 2

\* The upper slice is not the same way forth and back.
FirstHop(p, i, w, k) ==
  \/ /\ p.src = "h1"
     /\ \/ i = 1 /\ w = "s1" /\ k = 3
        \/ i = 2 /\ w = "s3" /\ k = 1
        \/ i = 3 /\ w = "s6" /\ k = 1
  \/ /\ p.src = "h2"
     /\ \/ i = 1 /\ w = "s2" /\ k = 3
        \/ i = 2 /\ w = "s4" /\ k = 2
        \/ i = 3 /\ w = "s7" /\ k = 1
  \/ /\ p.src = "h3"
     /\ \/ i = 1 /\ w = "s2" /\ k = 4
        \/ i = 2 /\ w = "s5" /\ k = 1
        \/ i = 3 /\ w = "s7" /\ k = 2
  \/ /\ p.src = "h4"
     /\ \/ i = 1 /\ w = "s6" /\ k = 3
        \/ i = 2 /\ w = "s4" /\ k = 3
        \/ i = 3 /\ w = "s1" /\ k = 2
  \/ /\ p.src = "h5"
     /\ \/ i = 1 /\ w = "s7" /\ k = 3
        \/ i = 2 /\ w = "s4" /\ k = 4
        \/ i = 3 /\ w = "s2" /\ k = 1
  \/ /\ p.src = "h6"
     /\ \/ i = 1 /\ w = "s7" /\ k = 4
        \/ i = 2 /\ w = "s5" /\ k = 2
        \/ i = 3 /\ w = "s2" /\ k = 2

SecondHop(p, i, w, k) ==
  LET mid == IF Fast(p) THEN "s3" ELSE "s4"
      end == IF Fast(p) THEN 1 ELSE 2 IN
  \/ /\ p.src \in {"h1", "h2"}
     /\ \/ i = 1 /\ w = "s1" /\ k = Own(p, "h1", 3)
        \/ i = 2 /\ w = mid /\ k = 1
        \/ i = 3 /\ w = "s6" /\ k = end
  \/ /\ p.src \in {"h5", "h6"}
     /\ \/ i = 1 /\ w = "s6" /\ k = Own(p, "h5", 3)
        \/ i = 2 /\ w = mid /\ k = end + 1
        \/ i = 3 /\ w = "s1" /\ k = end
  \/ /\ p.src \in {"h3", "h4"}
     /\ \/ i = 1 /\ w = "s2" /\ k = Own(p, "h3", 3)
        \/ i = 2 /\ w = "s5" /\ k = 1
        \/ i = 3 /\ w = "s7" /\ k = 2
  \/ /\ p.src \in {"h7", "h8"}
     /\ \/ i = 1 /\ w = "s7" /\ k = Own(p, "h7", 3)
        \/ i = 2 /\ w = "s5" /\ k = 2
        \/ i = 3 /\ w = "s2" /\ k = 2

ThirdHop(p, i, w, k) ==
  LET mid == IF Video(p) THEN "s2" ELSE IF Voip(p) THEN "s3" ELSE "s4"
      end == IF Video(p) THEN 1 ELSE IF Voip(p) THEN 2 ELSE 3 IN
  IF p.src \in {"h1", "h2"}
  THEN \/ i = 1 /\ w = "s1" /\ k = Own(p, "h1", 4)
       \/ i = 2 /\ w = mid /\ k = 1
       \/ i = 3 /\ w = "s5" /\ k = end
  ELSE \/ i = 1 /\ w = "s5" /\ k = Own(p, "h3", 4)
       \/ i = 2 /\ w = mid /\ k = 2
       \/ i = 3 /\ w = "s1" /\ k = end

DynamicHop(p, i, w, k) ==
  LET own == IF p.src \in {"h1", "h4"} THEN 2 ELSE IF p.src \in {"h2", "h5"} THEN 3 ELSE 4
      here == IF p.src \in {"h1", "h2", "h3"} THEN "r1" ELSE "r2"
      there == IF p.src \in {"h1", "h2", "h3"} THEN "r2" ELSE "r1" IN
  \/ i = 1 /\ w = here /\ k = own
  \/ i = 2 /\ w = there /\ k = 1

LineHop(p, i, w, k) ==
  \/ /\ p.src = "h1"
     /\ \/ i = 1 /\ w = "s1" /\ k = 2
        \/ i = 2 /\ w = "s2" /\ k = 1
  \/ /\ p.src = "h2"
     /\ \/ i = 1 /\ w = "s1" /\ k = 3
        \/ i = 2 /\ w = "s2" /\ k = 1
  \/ /\ p.src = "h3"
     /\ \/ i = 1 /\ w = "s2" /\ k = 2
        \/ i = 2 /\ w = "s1" /\ k = 1

Hop(n, p, i, w, k) ==
  CASE n = "service" -> ServiceHop(p, i, w, k)
    [] n = "topology" -> TopologyHop(p, i, w, k)
    [] n = "first" -> FirstHop(p, i, w, k)
    [] n = "second" -> SecondHop(p, i, w, k)
    [] n = "third" -> ThirdHop(p, i, w, k)
    [] n = "dynamic" -> DynamicHop(p, i, w, k)
    [] OTHER -> LineHop(p, i, w, k)

Named(n, p) ==
  /\ p.src \in Hosts(n)
  /\ p.dst \in Hosts(n) \cup (IF n \in Learning THEN {"all"} ELSE {})
  /\ <<p.proto, p.port>> \in Kinds(n, p.src)

Toward(s, h) == IF s = "s1" THEN IF h = "h1" THEN 2 ELSE IF h = "h2" THEN 3 ELSE 1
                ELSE IF h = "h3" THEN 2 ELSE 1

LineRule(line) ==
  [at |-> line.at, slice |-> "all", match |-> Match(line, {"src", "dst"}), prio |-> 65500,
   out |-> line.out, lasting |-> TRUE]

ScriptLines == ToSet(SosScenario) \cup ToSet(CommonScenario)
HighRules == {LineRule(l) : l \in ScriptLines}
ThirdPair(l) == <<l.src, l.dst>> \in {<<"h3", "h6">>, <<"h6", "h3">>}

\* The ports of a node are numbered in the order of its links.
LEMMA PortsInOrder ==
  ASSUME NEW w, NEW x, NEW k \in Nat, NEW js \in [1 .. k -> Nat],
         \A a, b \in 1 .. k : a < b => js[a] < js[b],
         Joins(w, x) = {js[a] : a \in 1 .. k}
  PROVE  /\ Cardinality(Joins(w, x)) = k /\ IsFiniteSet(Joins(w, x))
         /\ \A m \in 1 .. k : PortOf(w, x, js[m]) = m
<1>1. ASSUME NEW m \in 0 .. k, NEW S, S = {js[a] : a \in 1 .. m}
      PROVE  IsFiniteSet(S) /\ Cardinality(S) = m
  <2> DEFINE f == [a \in 1 .. m |-> js[a]]
  <2>1. f \in Bijection(1 .. m, S)
    <3>1. f \in [1 .. m -> S]
      BY <1>1
    <3>2. \A a, b \in 1 .. m : f[a] = f[b] => a = b
      BY <1>1
    <3>3. \A s \in S : \E a \in 1 .. m : f[a] = s
      BY <1>1
    <3>4. QED
      BY <3>1, <3>2, <3>3 DEF Bijection, Injection, Surjection, IsInjective
  <2>2. IsFiniteSet(1 .. m) /\ Cardinality(1 .. m) = m
    BY <1>1, FS_Interval
  <2>3. QED
    BY <2>1, <2>2, FS_Bijection DEF ExistsBijection
<1>2. Cardinality(Joins(w, x)) = k /\ IsFiniteSet(Joins(w, x))
  BY <1>1
<1>3. ASSUME NEW m \in 1 .. k PROVE PortOf(w, x, js[m]) = m
  <2>1. {j \in Joins(w, x) : j <= js[m]} = {js[a] : a \in 1 .. m}
    <3>1. \A a \in 1 .. k : js[a] <= js[m] <=> a <= m
      <4> TAKE a \in 1 .. k
      <4>1. a < m \/ a = m \/ m < a
        OBVIOUS
      <4>2. js[a] \in Nat /\ js[m] \in Nat
        OBVIOUS
      <4>3. a < m => js[a] < js[m]
        OBVIOUS
      <4>4. m < a => js[m] < js[a]
        OBVIOUS
      <4>5. QED
        BY <4>1, <4>2, <4>3, <4>4
    <3>2. QED
      BY <3>1
  <2>2. QED
    BY <1>1, <2>1 DEF PortOf
<1>4. QED
  BY <1>2, <1>3

\* What a port leads to: the other end of its link.
LEMMA PeersAre ==
  ASSUME NEW n \in DOMAIN Wires, NEW w, w = Wires[n],
         NEW x \in Nodes(w), NEW i \in Joins(w, x), NEW y, y = Far(w, x, i),
         NEW q, q = PortOf(w, x, i), q \in 1 .. Cardinality(Joins(w, x)),
         \A j \in Joins(w, x) : PortOf(w, x, j) = q => j = i
  PROVE  /\ Ports(n, x) = 1 .. Cardinality(Joins(w, x))
         /\ Peers[n][x][q] = [node |-> y, port |-> PortOf(w, y, i)]
<1> DEFINE P(s) == [p \in 1 .. Cardinality(Joins(w, s)) |->
                      LET j == CHOOSE j \in Joins(w, s) : PortOf(w, s, j) = p IN
                      [node |-> Far(w, s, j), port |-> PortOf(w, Far(w, s, j), j)]]
<1>1. Peers[n] = [s \in Nodes(w) |-> P(s)]
  BY DEF Peers
<1>2. Peers[n][x] = P(x)
  BY <1>1
<1>3. (CHOOSE j \in Joins(w, x) : PortOf(w, x, j) = q) = i
  OBVIOUS
<1>4. P(x)[q] = [node |-> y, port |-> PortOf(w, y, i)]
  BY <1>3
<1>5. QED
  BY <1>2, <1>4 DEF Ports

\* Link i is at port q of x.
At(w, x, i, q) ==
  /\ x \in Nodes(w) /\ i \in Joins(w, x)
  /\ q \in 1 .. Cardinality(Joins(w, x)) /\ PortOf(w, x, i) = q
  /\ \A j \in Joins(w, x) : PortOf(w, x, j) = q => j = i

\* A link joins port q of x and port r of y.
Link(n, x, q, y, r) ==
  /\ q \in Ports(n, x) /\ r \in Ports(n, y)
  /\ Peers[n][x][q] = [node |-> y, port |-> r]
  /\ Peers[n][y][r] = [node |-> x, port |-> q]

\* A link joins the ports it has at its two ends.
LEMMA LinkOf ==
  ASSUME NEW n \in DOMAIN Wires, NEW i \in DOMAIN Wires[n],
         NEW x, NEW y, Wires[n][i] = <<x, y>>, x # y,
         NEW q, At(Wires[n], x, i, q), NEW r, At(Wires[n], y, i, r)
  PROVE  Link(n, x, q, y, r)
<1> DEFINE w == Wires[n]
<1>1. w[i][1] = x /\ w[i][2] = y
  OBVIOUS
<1>2. Far(w, x, i) = y /\ Far(w, y, i) = x
  BY <1>1 DEF Far
<1>3. Ports(n, x) = 1 .. Cardinality(Joins(w, x)) /\ Peers[n][x][q] = [node |-> y, port |-> r]
  BY <1>2, PeersAre DEF At
<1>4. Ports(n, y) = 1 .. Cardinality(Joins(w, y)) /\ Peers[n][y][r] = [node |-> x, port |-> q]
  BY <1>2, PeersAre DEF At
<1>5. QED
  BY <1>3, <1>4 DEF Link, At

\* A node has a port for each link that it joins.
LEMMA PortsOf ==
  ASSUME NEW n \in DOMAIN Wires, NEW x \in Nodes(Wires[n])
  PROVE  Ports(n, x) = 1 .. Cardinality(Joins(Wires[n], x))
BY DEF Ports, Peers

\* The ports of a node are its links in the order of addLink.
LEMMA InOrder ==
  ASSUME NEW w, NEW x \in Nodes(w), NEW k \in Nat, NEW js \in [1 .. k -> Nat],
         \A a, b \in 1 .. k : a < b => js[a] < js[b],
         Joins(w, x) = {js[a] : a \in 1 .. k}
  PROVE  Cardinality(Joins(w, x)) = k /\ \A q \in 1 .. k : At(w, x, js[q], q)
<1>1. /\ Cardinality(Joins(w, x)) = k
      /\ \A m \in 1 .. k : PortOf(w, x, js[m]) = m
  BY ZenonT(90), PortsInOrder
<1>2. QED
  BY <1>1 DEF At

\* The same for a node of one link, ...
LEMMA OnePort ==
  ASSUME NEW w, NEW x \in Nodes(w),
         NEW a \in Nat,
         Joins(w, x) = {a}
  PROVE  /\ Cardinality(Joins(w, x)) = 1
         /\ At(w, x, a, 1)
<1> DEFINE js == <<a>>
<1>1. js \in [1 .. 1 -> Nat] /\ {a} = {js[m] : m \in 1 .. 1}
  OBVIOUS
<1>2. \A m, l \in 1 .. 1 : m < l => js[m] < js[l]
  OBVIOUS
<1>3. js[1] = a
  OBVIOUS
<1> HIDE DEF js
<1>4. Cardinality(Joins(w, x)) = 1 /\ \A q \in 1 .. 1 : At(w, x, js[q], q)
  BY <1>1, <1>2, InOrder
<1>5. QED
  BY <1>3, <1>4

\* ... of two, ...
LEMMA TwoPorts ==
  ASSUME NEW w, NEW x \in Nodes(w),
         NEW a \in Nat, NEW b \in Nat,
         a < b, Joins(w, x) = {a, b}
  PROVE  /\ Cardinality(Joins(w, x)) = 2
         /\ At(w, x, a, 1) /\ At(w, x, b, 2)
<1> DEFINE js == <<a, b>>
<1>1. js \in [1 .. 2 -> Nat] /\ {a, b} = {js[m] : m \in 1 .. 2}
  OBVIOUS
<1>2. \A m, l \in 1 .. 2 : m < l => js[m] < js[l]
  OBVIOUS
<1>3. js[1] = a /\ js[2] = b
  OBVIOUS
<1> HIDE DEF js
<1>4. Cardinality(Joins(w, x)) = 2 /\ \A q \in 1 .. 2 : At(w, x, js[q], q)
  BY <1>1, <1>2, InOrder
<1>5. QED
  BY <1>3, <1>4

\* ... of three, ...
LEMMA ThreePorts ==
  ASSUME NEW w, NEW x \in Nodes(w),
         NEW a \in Nat, NEW b \in Nat, NEW c \in Nat,
         a < b, b < c, Joins(w, x) = {a, b, c}
  PROVE  /\ Cardinality(Joins(w, x)) = 3
         /\ At(w, x, a, 1) /\ At(w, x, b, 2) /\ At(w, x, c, 3)
<1> DEFINE js == <<a, b, c>>
<1>1. js \in [1 .. 3 -> Nat] /\ {a, b, c} = {js[m] : m \in 1 .. 3}
  OBVIOUS
<1>2. \A m, l \in 1 .. 3 : m < l => js[m] < js[l]
  OBVIOUS
<1>3. js[1] = a /\ js[2] = b /\ js[3] = c
  OBVIOUS
<1> HIDE DEF js
<1>4. Cardinality(Joins(w, x)) = 3 /\ \A q \in 1 .. 3 : At(w, x, js[q], q)
  BY <1>1, <1>2, InOrder
<1>5. QED
  BY <1>3, <1>4

\* ... of four, ...
LEMMA FourPorts ==
  ASSUME NEW w, NEW x \in Nodes(w),
         NEW a \in Nat, NEW b \in Nat, NEW c \in Nat, NEW d \in Nat,
         a < b, b < c, c < d, Joins(w, x) = {a, b, c, d}
  PROVE  /\ Cardinality(Joins(w, x)) = 4
         /\ At(w, x, a, 1) /\ At(w, x, b, 2) /\ At(w, x, c, 3) /\ At(w, x, d, 4)
<1> DEFINE js == <<a, b, c, d>>
<1>1. js \in [1 .. 4 -> Nat] /\ {a, b, c, d} = {js[m] : m \in 1 .. 4}
  OBVIOUS
<1>2. \A m, l \in 1 .. 4 : m < l => js[m] < js[l]
  OBVIOUS
<1>3. js[1] = a /\ js[2] = b /\ js[3] = c /\ js[4] = d
  OBVIOUS
<1> HIDE DEF js
<1>4. Cardinality(Joins(w, x)) = 4 /\ \A q \in 1 .. 4 : At(w, x, js[q], q)
  BY <1>1, <1>2, InOrder
<1>5. QED
  BY <1>3, <1>4

\* ... and of five.
LEMMA FivePorts ==
  ASSUME NEW w, NEW x \in Nodes(w),
         NEW a \in Nat, NEW b \in Nat, NEW c \in Nat, NEW d \in Nat, NEW e \in Nat,
         a < b, b < c, c < d, d < e, Joins(w, x) = {a, b, c, d, e}
  PROVE  /\ Cardinality(Joins(w, x)) = 5
         /\ At(w, x, a, 1) /\ At(w, x, b, 2) /\ At(w, x, c, 3) /\ At(w, x, d, 4) /\ At(w, x, e, 5)
<1> DEFINE js == <<a, b, c, d, e>>
<1>1. js \in [1 .. 5 -> Nat] /\ {a, b, c, d, e} = {js[m] : m \in 1 .. 5}
  OBVIOUS
<1>2. \A m, l \in 1 .. 5 : m < l => js[m] < js[l]
  OBVIOUS
<1>3. js[1] = a /\ js[2] = b /\ js[3] = c /\ js[4] = d /\ js[5] = e
  OBVIOUS
<1> HIDE DEF js
<1>4. Cardinality(Joins(w, x)) = 5 /\ \A q \in 1 .. 5 : At(w, x, js[q], q)
  BY <1>1, <1>2, InOrder
<1>5. QED
  BY <1>3, <1>4

\* The networks of service_slicing and topology_slicing.
LEMMA SquareLinks ==
  ASSUME NEW n \in {"service", "topology"}
  PROVE  /\ Switches(n) = {"s1", "s2", "s3", "s4"} /\ Hosts(n) = {"h1", "h2", "h3", "h4"}
         /\ Ports(n, "s1") = 1 .. 4 /\ Ports(n, "s2") = 1 .. 2 /\ Ports(n, "s3") = 1 .. 2
         /\ Ports(n, "s4") = 1 .. 4 /\ Link(n, "s1", 1, "s2", 1) /\ Link(n, "s2", 2, "s4", 1)
         /\ Link(n, "s1", 2, "s3", 1) /\ Link(n, "s3", 2, "s4", 2) /\ Link(n, "h1", 1, "s1", 3)
         /\ Link(n, "h2", 1, "s1", 4) /\ Link(n, "h3", 1, "s4", 3) /\ Link(n, "h4", 1, "s4", 4)
<1> DEFINE w == SquareWires
<1>1. n \in DOMAIN Wires /\ Wires[n] = w
  BY DEF Wires
<1>2. /\ DOMAIN w = 1 .. 8 /\ w[1] = <<"s1", "s2">> /\ w[2] = <<"s2", "s4">>
      /\ w[3] = <<"s1", "s3">> /\ w[4] = <<"s3", "s4">> /\ w[5] = <<"h1", "s1">>
      /\ w[6] = <<"h2", "s1">> /\ w[7] = <<"h3", "s4">> /\ w[8] = <<"h4", "s4">>
  BY DEF SquareWires
<1> HIDE DEF w
<1>3. Nodes(w) =
        {"s1", "s2", "s3", "s4", "h1", "h2", "h3", "h4"}
  BY <1>2 DEF Nodes
<1>4. /\ Joins(w, "s1") = {1, 3, 5, 6} /\ Joins(w, "s2") = {1, 2} /\ Joins(w, "s3") = {3, 4}
      /\ Joins(w, "s4") = {2, 4, 7, 8} /\ Joins(w, "h1") = {5} /\ Joins(w, "h2") = {6}
      /\ Joins(w, "h3") = {7} /\ Joins(w, "h4") = {8}
  BY <1>2 DEF Joins
<1>5. /\ Cardinality(Joins(w, "s1")) = 4 /\ At(w, "s1", 1, 1) /\ At(w, "s1", 3, 2)
      /\ At(w, "s1", 5, 3) /\ At(w, "s1", 6, 4)
  BY SMTT(40), <1>3, <1>4, FourPorts
<1>6. /\ Cardinality(Joins(w, "s4")) = 4 /\ At(w, "s4", 2, 1) /\ At(w, "s4", 4, 2)
      /\ At(w, "s4", 7, 3) /\ At(w, "s4", 8, 4)
  BY SMTT(40), <1>3, <1>4, FourPorts
<1>7. /\ Cardinality(Joins(w, "s2")) = 2 /\ Cardinality(Joins(w, "s3")) = 2 /\ At(w, "s2", 1, 1)
      /\ At(w, "s2", 2, 2) /\ At(w, "s3", 3, 1) /\ At(w, "s3", 4, 2)
  BY <1>3, <1>4, TwoPorts
<1>8. /\ At(w, "h1", 5, 1) /\ At(w, "h2", 6, 1) /\ At(w, "h3", 7, 1) /\ At(w, "h4", 8, 1)
  BY <1>3, <1>4, OnePort
<1>9. /\ Link(n, "s1", 1, "s2", 1) /\ Link(n, "s2", 2, "s4", 1) /\ Link(n, "s1", 2, "s3", 1)
      /\ Link(n, "s3", 2, "s4", 2)
  BY SMTT(60), <1>1, <1>2, <1>5, <1>6, <1>7, LinkOf
<1>10. /\ Link(n, "h1", 1, "s1", 3) /\ Link(n, "h2", 1, "s1", 4) /\ Link(n, "h3", 1, "s4", 3)
      /\ Link(n, "h4", 1, "s4", 4)
  BY SMTT(60), <1>1, <1>2, <1>5, <1>6, <1>8, LinkOf
<1>11. /\ Ports(n, "s1") = 1 .. 4 /\ Ports(n, "s2") = 1 .. 2 /\ Ports(n, "s3") = 1 .. 2
      /\ Ports(n, "s4") = 1 .. 4
  BY <1>1, <1>3, <1>5, <1>6, <1>7, <1>8, PortsOf
<1>12. QED
  BY <1>1, <1>3, <1>9, <1>10, <1>11 DEF Switches, Hosts, AllHosts

\* The first multi-tenant scenario.
LEMMA FirstLinks ==
  ASSUME NEW n \in {"first"}
  PROVE  /\ Switches(n) = {"s1", "s2", "s3", "s4", "s5", "s6", "s7"}
         /\ Hosts(n) = {"h1", "h2", "h3", "h4", "h5", "h6"} /\ Ports(n, "s1") = 1 .. 3
         /\ Ports(n, "s2") = 1 .. 4 /\ Ports(n, "s3") = 1 .. 2 /\ Ports(n, "s4") = 1 .. 4
         /\ Ports(n, "s5") = 1 .. 2 /\ Ports(n, "s6") = 1 .. 3 /\ Ports(n, "s7") = 1 .. 4
         /\ Link(n, "s1", 1, "s3", 1) /\ Link(n, "s1", 2, "s4", 1) /\ Link(n, "s2", 1, "s4", 2)
         /\ Link(n, "s2", 2, "s5", 1) /\ Link(n, "s3", 2, "s6", 1) /\ Link(n, "s4", 3, "s6", 2)
         /\ Link(n, "s4", 4, "s7", 1) /\ Link(n, "s5", 2, "s7", 2) /\ Link(n, "h1", 1, "s1", 3)
         /\ Link(n, "h2", 1, "s2", 3) /\ Link(n, "h3", 1, "s2", 4) /\ Link(n, "h4", 1, "s6", 3)
         /\ Link(n, "h5", 1, "s7", 3) /\ Link(n, "h6", 1, "s7", 4)
<1> DEFINE w == FirstWires
<1>1. n \in DOMAIN Wires /\ Wires[n] = w
  BY DEF Wires
<1>2. /\ DOMAIN w = 1 .. 14 /\ w[1] = <<"s1", "s3">> /\ w[2] = <<"s1", "s4">>
      /\ w[3] = <<"s2", "s4">> /\ w[4] = <<"s2", "s5">> /\ w[5] = <<"s3", "s6">>
      /\ w[6] = <<"s4", "s6">> /\ w[7] = <<"s4", "s7">> /\ w[8] = <<"s5", "s7">>
      /\ w[9] = <<"h1", "s1">> /\ w[10] = <<"h2", "s2">> /\ w[11] = <<"h3", "s2">>
      /\ w[12] = <<"h4", "s6">> /\ w[13] = <<"h5", "s7">> /\ w[14] = <<"h6", "s7">>
  BY DEF FirstWires, LatticeWires
<1> HIDE DEF w
<1>3. Nodes(w) =
        {"s1", "s2", "s3", "s4", "s5", "s6", "s7", "h1", "h2", "h3", "h4", "h5", "h6"}
  BY <1>2 DEF Nodes
<1>4. /\ Joins(w, "s1") = {1, 2, 9} /\ Joins(w, "s2") = {3, 4, 10, 11} /\ Joins(w, "s3") = {1, 5}
      /\ Joins(w, "s4") = {2, 3, 6, 7} /\ Joins(w, "s5") = {4, 8} /\ Joins(w, "s6") = {5, 6, 12}
      /\ Joins(w, "s7") = {7, 8, 13, 14} /\ Joins(w, "h1") = {9} /\ Joins(w, "h2") = {10}
      /\ Joins(w, "h3") = {11} /\ Joins(w, "h4") = {12} /\ Joins(w, "h5") = {13}
      /\ Joins(w, "h6") = {14}
  BY <1>2 DEF Joins
<1>5. /\ Cardinality(Joins(w, "s2")) = 4 /\ At(w, "s2", 3, 1) /\ At(w, "s2", 4, 2)
      /\ At(w, "s2", 10, 3) /\ At(w, "s2", 11, 4)
  BY SMTT(40), <1>3, <1>4, FourPorts
<1>6. /\ Cardinality(Joins(w, "s4")) = 4 /\ At(w, "s4", 2, 1) /\ At(w, "s4", 3, 2)
      /\ At(w, "s4", 6, 3) /\ At(w, "s4", 7, 4)
  BY SMTT(40), <1>3, <1>4, FourPorts
<1>7. /\ Cardinality(Joins(w, "s7")) = 4 /\ At(w, "s7", 7, 1) /\ At(w, "s7", 8, 2)
      /\ At(w, "s7", 13, 3) /\ At(w, "s7", 14, 4)
  BY SMTT(40), <1>3, <1>4, FourPorts
<1>8. /\ Cardinality(Joins(w, "s1")) = 3 /\ Cardinality(Joins(w, "s6")) = 3 /\ At(w, "s1", 1, 1)
      /\ At(w, "s1", 2, 2) /\ At(w, "s1", 9, 3) /\ At(w, "s6", 5, 1) /\ At(w, "s6", 6, 2)
      /\ At(w, "s6", 12, 3)
  BY <1>3, <1>4, ThreePorts
<1>9. /\ Cardinality(Joins(w, "s3")) = 2 /\ Cardinality(Joins(w, "s5")) = 2 /\ At(w, "s3", 1, 1)
      /\ At(w, "s3", 5, 2) /\ At(w, "s5", 4, 1) /\ At(w, "s5", 8, 2)
  BY <1>3, <1>4, TwoPorts
<1>10. /\ At(w, "h1", 9, 1) /\ At(w, "h2", 10, 1) /\ At(w, "h3", 11, 1) /\ At(w, "h4", 12, 1)
  BY <1>3, <1>4, OnePort
<1>11. /\ At(w, "h5", 13, 1) /\ At(w, "h6", 14, 1)
  BY <1>3, <1>4, OnePort
<1>12. /\ Link(n, "s1", 1, "s3", 1) /\ Link(n, "s1", 2, "s4", 1) /\ Link(n, "s2", 1, "s4", 2)
      /\ Link(n, "s2", 2, "s5", 1)
  BY SMTT(60), <1>1, <1>2, <1>5, <1>6, <1>8, <1>9, LinkOf
<1>13. /\ Link(n, "s3", 2, "s6", 1) /\ Link(n, "s4", 3, "s6", 2) /\ Link(n, "s4", 4, "s7", 1)
      /\ Link(n, "s5", 2, "s7", 2)
  BY SMTT(60), <1>1, <1>2, <1>6, <1>7, <1>8, <1>9, LinkOf
<1>14. /\ Link(n, "h1", 1, "s1", 3) /\ Link(n, "h2", 1, "s2", 3) /\ Link(n, "h3", 1, "s2", 4)
      /\ Link(n, "h4", 1, "s6", 3)
  BY SMTT(60), <1>1, <1>2, <1>5, <1>8, <1>10, LinkOf
<1>15. /\ Link(n, "h5", 1, "s7", 3) /\ Link(n, "h6", 1, "s7", 4)
  BY SMTT(60), <1>1, <1>2, <1>7, <1>11, LinkOf
<1>16. /\ Ports(n, "s1") = 1 .. 3 /\ Ports(n, "s2") = 1 .. 4 /\ Ports(n, "s3") = 1 .. 2
      /\ Ports(n, "s4") = 1 .. 4 /\ Ports(n, "s5") = 1 .. 2 /\ Ports(n, "s6") = 1 .. 3
      /\ Ports(n, "s7") = 1 .. 4
  BY <1>1, <1>3, <1>5, <1>6, <1>7, <1>8, <1>9, <1>10, <1>11, PortsOf
<1>17. QED
  BY <1>1, <1>3, <1>12, <1>13, <1>14, <1>15, <1>16 DEF Switches, Hosts, AllHosts

\* The second one.
LEMMA SecondLinks ==
  ASSUME NEW n \in {"second"}
  PROVE  /\ Switches(n) = {"s1", "s2", "s3", "s4", "s5", "s6", "s7"}
         /\ Hosts(n) = {"h1", "h2", "h3", "h4", "h5", "h6", "h7", "h8"} /\ Ports(n, "s1") = 1 .. 4
         /\ Ports(n, "s2") = 1 .. 4 /\ Ports(n, "s3") = 1 .. 2 /\ Ports(n, "s4") = 1 .. 4
         /\ Ports(n, "s5") = 1 .. 2 /\ Ports(n, "s6") = 1 .. 4 /\ Ports(n, "s7") = 1 .. 4
         /\ Link(n, "s1", 1, "s3", 1) /\ Link(n, "s1", 2, "s4", 1) /\ Link(n, "s2", 1, "s4", 2)
         /\ Link(n, "s2", 2, "s5", 1) /\ Link(n, "s3", 2, "s6", 1) /\ Link(n, "s4", 3, "s6", 2)
         /\ Link(n, "s4", 4, "s7", 1) /\ Link(n, "s5", 2, "s7", 2) /\ Link(n, "h1", 1, "s1", 3)
         /\ Link(n, "h2", 1, "s1", 4) /\ Link(n, "h3", 1, "s2", 3) /\ Link(n, "h4", 1, "s2", 4)
         /\ Link(n, "h5", 1, "s6", 3) /\ Link(n, "h6", 1, "s6", 4) /\ Link(n, "h7", 1, "s7", 3)
         /\ Link(n, "h8", 1, "s7", 4)
<1> DEFINE w == SecondWires
<1>1. n \in DOMAIN Wires /\ Wires[n] = w
  BY DEF Wires
<1>2. /\ DOMAIN w = 1 .. 16 /\ w[1] = <<"s1", "s3">> /\ w[2] = <<"s1", "s4">>
      /\ w[3] = <<"s2", "s4">> /\ w[4] = <<"s2", "s5">> /\ w[5] = <<"s3", "s6">>
      /\ w[6] = <<"s4", "s6">> /\ w[7] = <<"s4", "s7">> /\ w[8] = <<"s5", "s7">>
      /\ w[9] = <<"h1", "s1">> /\ w[10] = <<"h2", "s1">> /\ w[11] = <<"h3", "s2">>
      /\ w[12] = <<"h4", "s2">> /\ w[13] = <<"h5", "s6">> /\ w[14] = <<"h6", "s6">>
      /\ w[15] = <<"h7", "s7">> /\ w[16] = <<"h8", "s7">>
  BY DEF SecondWires, LatticeWires
<1> HIDE DEF w
<1>3. Nodes(w) =
        {"s1", "s2", "s3", "s4", "s5", "s6", "s7", "h1", "h2", "h3", "h4", "h5", "h6", "h7", "h8"}
  BY <1>2 DEF Nodes
<1>4. /\ Joins(w, "s1") = {1, 2, 9, 10} /\ Joins(w, "s2") = {3, 4, 11, 12}
      /\ Joins(w, "s3") = {1, 5} /\ Joins(w, "s4") = {2, 3, 6, 7} /\ Joins(w, "s5") = {4, 8}
      /\ Joins(w, "s6") = {5, 6, 13, 14} /\ Joins(w, "s7") = {7, 8, 15, 16}
      /\ Joins(w, "h1") = {9} /\ Joins(w, "h2") = {10} /\ Joins(w, "h3") = {11}
      /\ Joins(w, "h4") = {12} /\ Joins(w, "h5") = {13} /\ Joins(w, "h6") = {14}
      /\ Joins(w, "h7") = {15} /\ Joins(w, "h8") = {16}
  BY <1>2 DEF Joins
<1>5. /\ Cardinality(Joins(w, "s1")) = 4 /\ At(w, "s1", 1, 1) /\ At(w, "s1", 2, 2)
      /\ At(w, "s1", 9, 3) /\ At(w, "s1", 10, 4)
  BY SMTT(40), <1>3, <1>4, FourPorts
<1>6. /\ Cardinality(Joins(w, "s2")) = 4 /\ At(w, "s2", 3, 1) /\ At(w, "s2", 4, 2)
      /\ At(w, "s2", 11, 3) /\ At(w, "s2", 12, 4)
  BY SMTT(40), <1>3, <1>4, FourPorts
<1>7. /\ Cardinality(Joins(w, "s4")) = 4 /\ At(w, "s4", 2, 1) /\ At(w, "s4", 3, 2)
      /\ At(w, "s4", 6, 3) /\ At(w, "s4", 7, 4)
  BY SMTT(40), <1>3, <1>4, FourPorts
<1>8. /\ Cardinality(Joins(w, "s6")) = 4 /\ At(w, "s6", 5, 1) /\ At(w, "s6", 6, 2)
      /\ At(w, "s6", 13, 3) /\ At(w, "s6", 14, 4)
  BY SMTT(40), <1>3, <1>4, FourPorts
<1>9. /\ Cardinality(Joins(w, "s7")) = 4 /\ At(w, "s7", 7, 1) /\ At(w, "s7", 8, 2)
      /\ At(w, "s7", 15, 3) /\ At(w, "s7", 16, 4)
  BY SMTT(40), <1>3, <1>4, FourPorts
<1>10. /\ Cardinality(Joins(w, "s3")) = 2 /\ Cardinality(Joins(w, "s5")) = 2 /\ At(w, "s3", 1, 1)
      /\ At(w, "s3", 5, 2) /\ At(w, "s5", 4, 1) /\ At(w, "s5", 8, 2)
  BY <1>3, <1>4, TwoPorts
<1>11. /\ At(w, "h1", 9, 1) /\ At(w, "h2", 10, 1) /\ At(w, "h3", 11, 1) /\ At(w, "h4", 12, 1)
  BY <1>3, <1>4, OnePort
<1>12. /\ At(w, "h5", 13, 1) /\ At(w, "h6", 14, 1) /\ At(w, "h7", 15, 1) /\ At(w, "h8", 16, 1)
  BY <1>3, <1>4, OnePort
<1>13. /\ Link(n, "s1", 1, "s3", 1) /\ Link(n, "s1", 2, "s4", 1) /\ Link(n, "s2", 1, "s4", 2)
      /\ Link(n, "s2", 2, "s5", 1)
  <2>1. Link(n, "s1", 1, "s3", 1)
    BY SMTT(60), <1>1, <1>2, <1>5, <1>10, LinkOf
  <2>2. Link(n, "s1", 2, "s4", 1)
    BY SMTT(60), <1>1, <1>2, <1>5, <1>7, LinkOf
  <2>3. Link(n, "s2", 1, "s4", 2)
    BY SMTT(60), <1>1, <1>2, <1>6, <1>7, LinkOf
  <2>4. Link(n, "s2", 2, "s5", 1)
    BY SMTT(60), <1>1, <1>2, <1>6, <1>10, LinkOf
  <2>5. QED
    BY <2>1, <2>2, <2>3, <2>4
<1>14. /\ Link(n, "s3", 2, "s6", 1) /\ Link(n, "s4", 3, "s6", 2) /\ Link(n, "s4", 4, "s7", 1)
      /\ Link(n, "s5", 2, "s7", 2)
  BY SMTT(60), <1>1, <1>2, <1>7, <1>8, <1>9, <1>10, LinkOf
<1>15. /\ Link(n, "h1", 1, "s1", 3) /\ Link(n, "h2", 1, "s1", 4) /\ Link(n, "h3", 1, "s2", 3)
      /\ Link(n, "h4", 1, "s2", 4)
  BY SMTT(60), <1>1, <1>2, <1>5, <1>6, <1>11, LinkOf
<1>16. /\ Link(n, "h5", 1, "s6", 3) /\ Link(n, "h6", 1, "s6", 4) /\ Link(n, "h7", 1, "s7", 3)
      /\ Link(n, "h8", 1, "s7", 4)
  BY SMTT(60), <1>1, <1>2, <1>8, <1>9, <1>12, LinkOf
<1>17. /\ Ports(n, "s1") = 1 .. 4 /\ Ports(n, "s2") = 1 .. 4 /\ Ports(n, "s3") = 1 .. 2
      /\ Ports(n, "s4") = 1 .. 4 /\ Ports(n, "s5") = 1 .. 2 /\ Ports(n, "s6") = 1 .. 4
      /\ Ports(n, "s7") = 1 .. 4
  BY <1>1, <1>3, <1>5, <1>6, <1>7, <1>8, <1>9, <1>10, <1>11, <1>12, PortsOf
<1>18. QED
  BY <1>1, <1>3, <1>13, <1>14, <1>15, <1>16, <1>17 DEF Switches, Hosts, AllHosts

\* The third one.
LEMMA ThirdLinks ==
  ASSUME NEW n \in {"third"}
  PROVE  /\ Switches(n) = {"s1", "s2", "s3", "s4", "s5"} /\ Hosts(n) = {"h1", "h2", "h3", "h4"}
         /\ Ports(n, "s1") = 1 .. 5 /\ Ports(n, "s2") = 1 .. 2 /\ Ports(n, "s3") = 1 .. 2
         /\ Ports(n, "s4") = 1 .. 2 /\ Ports(n, "s5") = 1 .. 5 /\ Link(n, "s1", 1, "s2", 1)
         /\ Link(n, "s1", 2, "s3", 1) /\ Link(n, "s1", 3, "s4", 1) /\ Link(n, "s2", 2, "s5", 1)
         /\ Link(n, "s3", 2, "s5", 2) /\ Link(n, "s4", 2, "s5", 3) /\ Link(n, "h1", 1, "s1", 4)
         /\ Link(n, "h2", 1, "s1", 5) /\ Link(n, "h3", 1, "s5", 4) /\ Link(n, "h4", 1, "s5", 5)
<1> DEFINE w == ThirdWires
<1>1. n \in DOMAIN Wires /\ Wires[n] = w
  BY DEF Wires
<1>2. /\ DOMAIN w = 1 .. 10 /\ w[1] = <<"s1", "s2">> /\ w[2] = <<"s1", "s3">>
      /\ w[3] = <<"s1", "s4">> /\ w[4] = <<"s2", "s5">> /\ w[5] = <<"s3", "s5">>
      /\ w[6] = <<"s4", "s5">> /\ w[7] = <<"h1", "s1">> /\ w[8] = <<"h2", "s1">>
      /\ w[9] = <<"h3", "s5">> /\ w[10] = <<"h4", "s5">>
  BY DEF ThirdWires
<1> HIDE DEF w
<1>3. Nodes(w) =
        {"s1", "s2", "s3", "s4", "s5", "h1", "h2", "h3", "h4"}
  BY <1>2 DEF Nodes
<1>4. /\ Joins(w, "s1") = {1, 2, 3, 7, 8} /\ Joins(w, "s2") = {1, 4} /\ Joins(w, "s3") = {2, 5}
      /\ Joins(w, "s4") = {3, 6} /\ Joins(w, "s5") = {4, 5, 6, 9, 10} /\ Joins(w, "h1") = {7}
      /\ Joins(w, "h2") = {8} /\ Joins(w, "h3") = {9} /\ Joins(w, "h4") = {10}
  BY <1>2 DEF Joins
<1>5. /\ Cardinality(Joins(w, "s1")) = 5 /\ At(w, "s1", 1, 1) /\ At(w, "s1", 2, 2)
      /\ At(w, "s1", 3, 3) /\ At(w, "s1", 7, 4) /\ At(w, "s1", 8, 5)
  BY SMTT(40), <1>3, <1>4, FivePorts
<1>6. /\ Cardinality(Joins(w, "s5")) = 5 /\ At(w, "s5", 4, 1) /\ At(w, "s5", 5, 2)
      /\ At(w, "s5", 6, 3) /\ At(w, "s5", 9, 4) /\ At(w, "s5", 10, 5)
  BY SMTT(40), <1>3, <1>4, FivePorts
<1>7. /\ Cardinality(Joins(w, "s2")) = 2 /\ Cardinality(Joins(w, "s3")) = 2
      /\ Cardinality(Joins(w, "s4")) = 2 /\ At(w, "s2", 1, 1) /\ At(w, "s2", 4, 2)
      /\ At(w, "s3", 2, 1) /\ At(w, "s3", 5, 2) /\ At(w, "s4", 3, 1) /\ At(w, "s4", 6, 2)
  BY <1>3, <1>4, TwoPorts
<1>8. /\ At(w, "h1", 7, 1) /\ At(w, "h2", 8, 1) /\ At(w, "h3", 9, 1) /\ At(w, "h4", 10, 1)
  BY <1>3, <1>4, OnePort
<1>9. /\ Link(n, "s1", 1, "s2", 1) /\ Link(n, "s1", 2, "s3", 1) /\ Link(n, "s1", 3, "s4", 1)
      /\ Link(n, "s2", 2, "s5", 1)
  BY SMTT(60), <1>1, <1>2, <1>5, <1>6, <1>7, LinkOf
<1>10. /\ Link(n, "s3", 2, "s5", 2) /\ Link(n, "s4", 2, "s5", 3) /\ Link(n, "h1", 1, "s1", 4)
      /\ Link(n, "h2", 1, "s1", 5)
  BY SMTT(60), <1>1, <1>2, <1>5, <1>6, <1>7, <1>8, LinkOf
<1>11. /\ Link(n, "h3", 1, "s5", 4) /\ Link(n, "h4", 1, "s5", 5)
  BY SMTT(60), <1>1, <1>2, <1>6, <1>8, LinkOf
<1>12. /\ Ports(n, "s1") = 1 .. 5 /\ Ports(n, "s2") = 1 .. 2 /\ Ports(n, "s3") = 1 .. 2
      /\ Ports(n, "s4") = 1 .. 2 /\ Ports(n, "s5") = 1 .. 5
  BY <1>1, <1>3, <1>5, <1>6, <1>7, <1>8, PortsOf
<1>13. QED
  BY <1>1, <1>3, <1>9, <1>10, <1>11, <1>12 DEF Switches, Hosts, AllHosts

\* The dynamic scenario.
LEMMA DynamicLinks ==
  ASSUME NEW n \in {"dynamic"}
  PROVE  /\ Switches(n) = {"r1", "r2"} /\ Hosts(n) = {"h1", "h2", "h3", "h4", "h5", "h6"}
         /\ Ports(n, "r1") = 1 .. 4 /\ Ports(n, "r2") = 1 .. 4 /\ Link(n, "r1", 1, "r2", 1)
         /\ Link(n, "h1", 1, "r1", 2) /\ Link(n, "h2", 1, "r1", 3) /\ Link(n, "h3", 1, "r1", 4)
         /\ Link(n, "h4", 1, "r2", 2) /\ Link(n, "h5", 1, "r2", 3) /\ Link(n, "h6", 1, "r2", 4)
<1> DEFINE w == DynamicWires
<1>1. n \in DOMAIN Wires /\ Wires[n] = w
  BY DEF Wires
<1>2. /\ DOMAIN w = 1 .. 7 /\ w[1] = <<"r1", "r2">> /\ w[2] = <<"h1", "r1">>
      /\ w[3] = <<"h2", "r1">> /\ w[4] = <<"h3", "r1">> /\ w[5] = <<"h4", "r2">>
      /\ w[6] = <<"h5", "r2">> /\ w[7] = <<"h6", "r2">>
  BY DEF DynamicWires
<1> HIDE DEF w
<1>3. Nodes(w) =
        {"r1", "r2", "h1", "h2", "h3", "h4", "h5", "h6"}
  BY <1>2 DEF Nodes
<1>4. /\ Joins(w, "r1") = {1, 2, 3, 4} /\ Joins(w, "r2") = {1, 5, 6, 7} /\ Joins(w, "h1") = {2}
      /\ Joins(w, "h2") = {3} /\ Joins(w, "h3") = {4} /\ Joins(w, "h4") = {5}
      /\ Joins(w, "h5") = {6} /\ Joins(w, "h6") = {7}
  BY <1>2 DEF Joins
<1>5. /\ Cardinality(Joins(w, "r1")) = 4 /\ At(w, "r1", 1, 1) /\ At(w, "r1", 2, 2)
      /\ At(w, "r1", 3, 3) /\ At(w, "r1", 4, 4)
  BY SMTT(40), <1>3, <1>4, FourPorts
<1>6. /\ Cardinality(Joins(w, "r2")) = 4 /\ At(w, "r2", 1, 1) /\ At(w, "r2", 5, 2)
      /\ At(w, "r2", 6, 3) /\ At(w, "r2", 7, 4)
  BY SMTT(40), <1>3, <1>4, FourPorts
<1>7. /\ At(w, "h1", 2, 1) /\ At(w, "h2", 3, 1) /\ At(w, "h3", 4, 1) /\ At(w, "h4", 5, 1)
  BY <1>3, <1>4, OnePort
<1>8. /\ At(w, "h5", 6, 1) /\ At(w, "h6", 7, 1)
  BY <1>3, <1>4, OnePort
<1>9. /\ Link(n, "r1", 1, "r2", 1) /\ Link(n, "h1", 1, "r1", 2) /\ Link(n, "h2", 1, "r1", 3)
      /\ Link(n, "h3", 1, "r1", 4)
  BY SMTT(60), <1>1, <1>2, <1>5, <1>6, <1>7, LinkOf
<1>10. /\ Link(n, "h4", 1, "r2", 2) /\ Link(n, "h5", 1, "r2", 3) /\ Link(n, "h6", 1, "r2", 4)
  BY SMTT(60), <1>1, <1>2, <1>6, <1>7, <1>8, LinkOf
<1>11. /\ Ports(n, "r1") = 1 .. 4 /\ Ports(n, "r2") = 1 .. 4
  BY <1>1, <1>3, <1>5, <1>6, <1>7, <1>8, PortsOf
<1>12. QED
  BY <1>1, <1>3, <1>9, <1>10, <1>11 DEF Switches, Hosts, AllHosts

\* The exercises on switches.
LEMMA LineLinks ==
  ASSUME NEW n \in Learning
  PROVE  /\ Switches(n) = {"s1", "s2"} /\ Hosts(n) = {"h1", "h2", "h3"} /\ Ports(n, "s1") = 1 .. 3
         /\ Ports(n, "s2") = 1 .. 2 /\ Link(n, "s1", 1, "s2", 1) /\ Link(n, "h1", 1, "s1", 2)
         /\ Link(n, "h2", 1, "s1", 3) /\ Link(n, "h3", 1, "s2", 2)
<1> DEFINE w == LineWires
<1>1. n \in DOMAIN Wires /\ Wires[n] = w
  BY DEF Wires, Learning
<1>2. /\ DOMAIN w = 1 .. 4 /\ w[1] = <<"s1", "s2">> /\ w[2] = <<"h1", "s1">>
      /\ w[3] = <<"h2", "s1">> /\ w[4] = <<"h3", "s2">>
  BY DEF LineWires
<1> HIDE DEF w
<1>3. Nodes(w) =
        {"s1", "s2", "h1", "h2", "h3"}
  BY <1>2 DEF Nodes
<1>4. /\ Joins(w, "s1") = {1, 2, 3} /\ Joins(w, "s2") = {1, 4} /\ Joins(w, "h1") = {2}
      /\ Joins(w, "h2") = {3} /\ Joins(w, "h3") = {4}
  BY <1>2 DEF Joins
<1>5. /\ Cardinality(Joins(w, "s1")) = 3 /\ At(w, "s1", 1, 1) /\ At(w, "s1", 2, 2)
      /\ At(w, "s1", 3, 3)
  BY <1>3, <1>4, ThreePorts
<1>6. /\ Cardinality(Joins(w, "s2")) = 2 /\ At(w, "s2", 1, 1) /\ At(w, "s2", 4, 2)
  BY <1>3, <1>4, TwoPorts
<1>7. /\ At(w, "h1", 2, 1) /\ At(w, "h2", 3, 1) /\ At(w, "h3", 4, 1)
  BY <1>3, <1>4, OnePort
<1>8. /\ Link(n, "s1", 1, "s2", 1) /\ Link(n, "h1", 1, "s1", 2) /\ Link(n, "h2", 1, "s1", 3)
      /\ Link(n, "h3", 1, "s2", 2)
  BY SMTT(60), <1>1, <1>2, <1>5, <1>6, <1>7, LinkOf
<1>9. /\ Ports(n, "s1") = 1 .. 3 /\ Ports(n, "s2") = 1 .. 2
  BY <1>1, <1>3, <1>5, <1>6, <1>7, PortsOf
<1>10. QED
  BY <1>1, <1>3, <1>8, <1>9 DEF Switches, Hosts, AllHosts

\* A packet at hop i that goes out at port q: a host there is attached here and may take it only
\* if it is of its slice; a switch there is the next hop, or the packet is in no slice there.
Onward(n, p, i, q) ==
  LET e == Peers[n][p.at][q] IN
  /\ q \in Ports(n, p.at)
  /\ e.node \in AllHosts =>
       Router(n, e.node) = p.at /\ (p.dst \in {e.node, "all"} => e.node \in Group(n, p.src))
  /\ e.node \notin AllHosts =>
       /\ e.node \in Area(n, p)
       /\ \/ Hop(n, p, i + 1, e.node, e.port)
          \/ Slice(n, [p EXCEPT !.at = e.node, !.in = e.port, !.asked = FALSE]) = "none"

\* A port to a host leads on if the host may take the packet.
LEMMA ToHost ==
  ASSUME NEW n, NEW p, NEW i, NEW q, NEW h \in AllHosts, Link(n, h, 1, p.at, q),
         p.dst \in {h, "all"} => h \in Group(n, p.src)
  PROVE  Onward(n, p, i, q)
BY DEF Onward, Link, Router

\* A port to the switch of the next hop leads on.
LEMMA ToSwitch ==
  ASSUME NEW n, NEW p, NEW i, NEW q, NEW w, NEW k, w \notin AllHosts,
         Link(n, p.at, q, w, k) \/ Link(n, w, k, p.at, q),
         w \in Area(n, p), Hop(n, p, i + 1, w, k)
  PROVE  Onward(n, p, i, q)
BY DEF Onward, Link

\* Where there are no slices of hosts, all hosts are together.
LEMMA AllTogether ==
  ASSUME NEW n, n \notin {"topology", "first", "second"}, NEW h \in Hosts(n)
  PROVE  Group(n, h) = Hosts(n)
BY DEF Group

\* What add_flow and the packet sent with it say.
LEMMA Add ==
  ASSUME NEW p, NEW fields, NEW prio, NEW out, NEW lasting \in BOOLEAN,
         NEW d, d \in AddAndSend(p, fields, prio, out, lasting)
  PROVE  d.out = out /\ d.match = Match(p, fields) /\ d.prio = prio /\ d.lasting = lasting /\ d.installs
BY DEF AddAndSend

\* A table of ports sends a packet where the entry of its port says.
LEMMA TableOut ==
  ASSUME NEW table, NEW p, NEW prio, NEW lasting \in BOOLEAN,
         NEW d, d \in TableDecision(table, p, prio, lasting)
  PROVE  table[p.at][p.in] # 0 /\ d.out = {table[p.at][p.in]}
<1>1. table[p.at][p.in] # 0 /\ d \in AddAndSend(p, {"in"}, prio, {table[p.at][p.in]}, lasting)
  BY DEF TableDecision
<1>2. QED
  BY <1>1 DEF AddAndSend

\* The decisions of service_slicing.py: flood, to a host, or to the port of the service.
LEMMA ServiceOut ==
  ASSUME NEW n, NEW p, NEW ends, NEW lasting \in BOOLEAN,
         NEW d, d \in ServiceDecision(n, p, ends, lasting)
  PROVE  /\ p.at \notin DOMAIN ends => d.out = SlicePorts(n, p)
         /\ p.at \in DOMAIN ends =>
              /\ p.dst \in DOMAIN ends[p.at] => d.out = {ends[p.at][p.dst]}
              /\ p.dst \notin DOMAIN ends[p.at] => d.out = {IF Fast(p) THEN 1 ELSE 2}
<1>1. CASE p.at \notin DOMAIN ends
  BY <1>1, Add DEF ServiceDecision
<1>2. CASE p.at \in DOMAIN ends /\ p.dst \in DOMAIN ends[p.at]
  BY <1>2, Add DEF ServiceDecision
<1>3. CASE p.at \in DOMAIN ends /\ p.dst \notin DOMAIN ends[p.at]
  BY <1>3, Add DEF ServiceDecision, Fast
<1>4. QED
  BY <1>1, <1>2, <1>3

\* In service_slicing.py packets are sent on along their way.
LEMMA ServiceStep ==
  ASSUME NEW p, Named("service", p), NEW i \in 1 .. 3, Hop("service", p, i, p.at, p.in),
         NEW macs, NEW d \in Decision("service", p, macs), NEW q \in d.out, q # p.in
  PROVE  Onward("service", p, i, q)
<1>1. /\ p.src \in {"h1", "h2", "h3", "h4"} /\ p.dst \in {"h1", "h2", "h3", "h4"}
      /\ Group("service", p.src) = {"h1", "h2", "h3", "h4"}
  BY SquareLinks, AllTogether DEF Named, Learning
<1>2. \A j, w, k : Hop("service", p, j, w, k) <=> ServiceHop(p, j, w, k)
  BY DEF Hop
<1>3. Area("service", p) = {"s1", "s4", IF Fast(p) THEN "s2" ELSE "s3"}
  BY DEF Area, Fast
<1>4. DOMAIN ServiceEnds = {"s1", "s4"}
  BY DEF ServiceEnds
<1>5. /\ p.at \notin {"s1", "s4"} => d.out = SlicePorts("service", p)
      /\ p.at \in {"s1", "s4"} =>
           /\ p.dst \in DOMAIN ServiceEnds[p.at] => d.out = {ServiceEnds[p.at][p.dst]}
           /\ p.dst \notin DOMAIN ServiceEnds[p.at] => d.out = {IF Fast(p) THEN 1 ELSE 2}
  <2>1. d \in ServiceDecision("service", p, ServiceEnds, TRUE)
    BY DEF Decision
  <2>2. /\ p.at \notin DOMAIN ServiceEnds => d.out = SlicePorts("service", p)
        /\ p.at \in DOMAIN ServiceEnds =>
             /\ p.dst \in DOMAIN ServiceEnds[p.at] => d.out = {ServiceEnds[p.at][p.dst]}
             /\ p.dst \notin DOMAIN ServiceEnds[p.at] => d.out = {IF Fast(p) THEN 1 ELSE 2}
    BY ZenonT(60), <2>1, ServiceOut
  <2>3. QED
    BY <1>4, <2>2
<1>6. \A w, k : w \in {"s1", "s2", "s3", "s4"} /\ w \in Area("service", p) /\ ServiceHop(p, i + 1, w, k)
         /\ (Link("service", p.at, q, w, k) \/ Link("service", w, k, p.at, q)) => Onward("service", p,
                i, q)
  BY <1>2, ToSwitch DEF AllHosts
<1>7. \A h \in {"h1", "h2", "h3", "h4"} : Link("service", h, 1, p.at, q) => Onward("service", p, i, q)
  BY <1>1, ToHost DEF AllHosts
<1>8. CASE i = 2
  <2>1. p.at = (IF Fast(p) THEN "s2" ELSE "s3") /\ p.in \in 1 .. 2
    BY <1>1, <1>2, <1>8 DEF ServiceHop
  <2>2. SlicePorts("service", p) \subseteq Ports("service", p.at)
    BY <2>1 DEF SlicePorts
  <2>3. q \in 1 .. 2
    BY <1>5, <2>1, <2>2, SquareLinks
  <2>4. QED
    BY <1>1, <1>2, <1>3, <1>8, <2>1, <2>3, SquareLinks, <1>6 DEF ServiceHop
<1>9. CASE i # 2
  <2>1. p.at \in {"s1", "s4"}
    BY <1>1, <1>2, <1>9 DEF ServiceHop
  <2>2. /\ p.dst \in DOMAIN ServiceEnds[p.at] => q = ServiceEnds[p.at][p.dst]
        /\ p.dst \notin DOMAIN ServiceEnds[p.at] => q = IF Fast(p) THEN 1 ELSE 2
    BY <1>5, <2>1
  <2>3. CASE p.at = "s1"
    BY <1>1, <1>2, <1>3, <1>6, <1>7, <1>9, <2>2, <2>3, SquareLinks DEF ServiceHop, ServiceEnds
  <2>4. CASE p.at = "s4"
    BY <1>1, <1>2, <1>3, <1>6, <1>7, <1>9, <2>2, <2>4, SquareLinks DEF ServiceHop, ServiceEnds
  <2>5. QED
    BY <2>1, <2>3, <2>4
<1>10. QED
  BY <1>8, <1>9

\* In topology_slicing.py packets are sent on along their way.
LEMMA TopologyStep ==
  ASSUME NEW p, Named("topology", p), NEW i \in 1 .. 3, Hop("topology", p, i, p.at, p.in),
         NEW macs, NEW d \in Decision("topology", p, macs), NEW q \in d.out, q # p.in
  PROVE  Onward("topology", p, i, q)
<1>1. p.src \in {"h1", "h2", "h3", "h4"}
  BY SquareLinks DEF Named
<1>2. \A j, w, k : Hop("topology", p, j, w, k) <=> TopologyHop(p, j, w, k)
  BY DEF Hop
<1>3. Area("topology", p) = {"s1", "s4", IF p.src \in {"h1", "h3"} THEN "s2" ELSE "s3"}
  BY DEF Area
<1>4. TopologyTable[p.at][p.in] # 0 /\ q = TopologyTable[p.at][p.in]
  <2>1. d \in TableDecision(TopologyTable, p, 1, TRUE)
    BY DEF Decision
  <2>2. TopologyTable[p.at][p.in] # 0 /\ d.out = {TopologyTable[p.at][p.in]}
    BY ONLY ZenonT(60), <2>1, TableOut
  <2>3. QED
    BY <2>2
<1>5. \A w, k : w \in {"s1", "s2", "s3", "s4"} /\ w \in Area("topology", p) /\ TopologyHop(p, i + 1, w, k)
         /\ (Link("topology", p.at, q, w, k) \/ Link("topology", w, k, p.at, q))
         => Onward("topology", p, i, q)
  BY <1>2, ToSwitch DEF AllHosts
<1>6. \A h \in {"h1", "h2", "h3", "h4"} :
         Link("topology", h, 1, p.at, q) /\ h \in Group("topology", p.src) => Onward("topology", p, i, q)
  BY <1>1, ToHost DEF AllHosts
<1>7. /\ p.src \in {"h1", "h3"} => Group("topology", p.src) = {"h1", "h3"}
      /\ p.src \in {"h2", "h4"} => Group("topology", p.src) = {"h2", "h4"}
  BY DEF Group
<1>8. CASE p.src = "h1"
  BY <1>2, <1>3, <1>4, <1>5, <1>6, <1>7, <1>8, SquareLinks DEF TopologyHop, TopologyTable
<1>9. CASE p.src = "h2"
  BY <1>2, <1>3, <1>4, <1>5, <1>6, <1>7, <1>9, SquareLinks DEF TopologyHop, TopologyTable
<1>10. CASE p.src = "h3"
  BY <1>2, <1>3, <1>4, <1>5, <1>6, <1>7, <1>10, SquareLinks DEF TopologyHop, TopologyTable
<1>11. CASE p.src = "h4"
  BY <1>2, <1>3, <1>4, <1>5, <1>6, <1>7, <1>11, SquareLinks DEF TopologyHop, TopologyTable
<1>12. QED
  BY <1>1, <1>8, <1>9, <1>10, <1>11

\* The controllers of the first scenario look packets up in the table of their slice.
LEMMA FirstOut ==
  ASSUME NEW p, NEW d \in FirstDecision(p)
  PROVE  LET table == CASE FirstSlice(p.at, p.in) = "upper" -> FirstUpper
                        [] FirstSlice(p.at, p.in) = "middle" -> FirstMiddle
                        [] OTHER -> FirstLower
         IN  table[p.at][p.in] # 0 /\ d.out = {table[p.at][p.in]}
<1>1. Slice("first", p) = FirstSlice(p.at, p.in)
  BY DEF Slice
<1>2. CASE FirstSlice(p.at, p.in) = "upper"
  <2>1. d \in TableDecision(FirstUpper, p, 2, FALSE)
    BY <1>1, <1>2 DEF FirstDecision, FirstUpperSlice
  <2>2. FirstUpper[p.at][p.in] # 0 /\ d.out = {FirstUpper[p.at][p.in]}
    BY ZenonT(60), <2>1, TableOut
  <2>3. QED
    BY <1>2, <2>2
<1>3. CASE FirstSlice(p.at, p.in) = "middle"
  <2>1. d \in TableDecision(FirstMiddle, p, 2, TRUE)
    BY <1>1, <1>3 DEF FirstDecision, FirstMiddleSlice
  <2>2. FirstMiddle[p.at][p.in] # 0 /\ d.out = {FirstMiddle[p.at][p.in]}
    BY ZenonT(60), <2>1, TableOut
  <2>3. QED
    BY <1>3, <2>2
<1>4. CASE FirstSlice(p.at, p.in) \notin {"upper", "middle"}
  <2>1. d \in FirstLowerSlice(p)
    BY <1>1, <1>4 DEF FirstDecision
  <2>2. PICK e \in TableDecision(FirstLower, p, 2, TRUE) : d = [e EXCEPT !.sends = {FALSE}]
    BY <2>1 DEF FirstLowerSlice
  <2>3. FirstLower[p.at][p.in] # 0 /\ e.out = {FirstLower[p.at][p.in]}
    BY ZenonT(60), <2>2, TableOut
  <2>4. e \in AddAndSend(p, {"in"}, 2, {FirstLower[p.at][p.in]}, TRUE)
    BY <2>2, <2>3 DEF TableDecision
  <2>5. d.out = e.out
    BY <2>2, <2>4 DEF AddAndSend
  <2>6. QED
    BY <1>4, <2>3, <2>5
<1>5. QED
  BY <1>2, <1>3, <1>4

\* In the first scenario packets are sent on along their way.
LEMMA FirstStep ==
  ASSUME NEW p, Named("first", p), NEW i \in 1 .. 3, Hop("first", p, i, p.at, p.in),
         NEW macs, NEW d \in Decision("first", p, macs), NEW q \in d.out, q # p.in
  PROVE  Onward("first", p, i, q)
<1>1. p.src \in {"h1", "h2", "h3", "h4", "h5", "h6"}
  BY FirstLinks DEF Named
<1>2. \A j, w, k : Hop("first", p, j, w, k) <=> FirstHop(p, j, w, k)
  BY DEF Hop
<1>3. /\ p.src \in {"h1", "h4"} => Area("first", p) = {"s1", "s3", "s4", "s6"}
      /\ p.src \in {"h2", "h5"} => Area("first", p) = {"s2", "s4", "s7"}
      /\ p.src \in {"h3", "h6"} => Area("first", p) = {"s2", "s5", "s7"}
  BY DEF Area
<1>4. q = (CASE FirstSlice(p.at, p.in) = "upper" -> FirstUpper
             [] FirstSlice(p.at, p.in) = "middle" -> FirstMiddle
             [] OTHER -> FirstLower)[p.at][p.in]
  BY FirstOut DEF Decision
<1>5. \A w, k : w \in {"s1", "s2", "s3", "s4", "s5", "s6", "s7"} /\ w \in Area("first", p)
         /\ FirstHop(p, i + 1, w, k) /\ (Link("first", p.at, q, w, k) \/ Link("first", w, k, p.at, q))
         => Onward("first", p, i, q)
  BY <1>2, ToSwitch DEF AllHosts
<1>6. \A h \in {"h1", "h2", "h3", "h4", "h5", "h6"} :
         Link("first", h, 1, p.at, q) /\ h \in Group("first", p.src) => Onward("first", p, i, q)
  BY <1>1, ToHost DEF AllHosts
<1>7. /\ p.src \in {"h1", "h4"} => Group("first", p.src) = {"h1", "h4"}
      /\ p.src \in {"h2", "h5"} => Group("first", p.src) = {"h2", "h5"}
      /\ p.src \in {"h3", "h6"} => Group("first", p.src) = {"h3", "h6"}
  BY DEF Group
<1>8. CASE p.src \in {"h1", "h4"}
  <2>1. FirstSlice(p.at, p.in) = "upper" /\ q = FirstUpper[p.at][p.in]
    BY <1>2, <1>4, <1>8 DEF FirstHop, FirstSlice
  <2>2. QED
    BY <1>2, <1>3, <1>5, <1>6, <1>7, <1>8, <2>1, FirstLinks DEF FirstHop, FirstUpper
<1>9. CASE p.src \in {"h2", "h5"}
  <2>1. FirstSlice(p.at, p.in) = "middle" /\ q = FirstMiddle[p.at][p.in]
    BY <1>2, <1>4, <1>9 DEF FirstHop, FirstSlice
  <2>2. QED
    BY <1>2, <1>3, <1>5, <1>6, <1>7, <1>9, <2>1, FirstLinks DEF FirstHop, FirstMiddle
<1>10. CASE p.src \in {"h3", "h6"}
  <2>1. FirstSlice(p.at, p.in) = "lower" /\ q = FirstLower[p.at][p.in]
    BY <1>2, <1>4, <1>10 DEF FirstHop, FirstSlice
  <2>2. QED
    BY <1>2, <1>3, <1>5, <1>6, <1>7, <1>10, <2>1, FirstLinks DEF FirstHop, FirstLower
<1>11. QED
  BY <1>1, <1>8, <1>9, <1>10

\* In the dynamic scenario every port but the one a packet came from leads on.
LEMMA DynamicStep ==
  ASSUME NEW p, Named("dynamic", p), NEW i \in 1 .. 3, Hop("dynamic", p, i, p.at, p.in),
         NEW q \in Ports("dynamic", p.at), q # p.in
  PROVE  Onward("dynamic", p, i, q)
<1>1. p.src \in Hosts("dynamic") /\ Group("dynamic", p.src) = Hosts("dynamic")
  BY AllTogether DEF Named
<1>2. \A j, w, k : Hop("dynamic", p, j, w, k) <=> DynamicHop(p, j, w, k)
  BY DEF Hop
<1>3. Area("dynamic", p) = {"r1", "r2"}
  BY DynamicLinks DEF Area
<1>4. \A w, k : w \in {"r1", "r2"} /\ DynamicHop(p, i + 1, w, k)
         /\ (Link("dynamic", p.at, q, w, k) \/ Link("dynamic", w, k, p.at, q))
         => Onward("dynamic", p, i, q)
  BY <1>2, <1>3, ToSwitch DEF AllHosts
<1>5. \A h \in Hosts("dynamic") : Link("dynamic", h, 1, p.at, q) => Onward("dynamic", p, i, q)
  BY <1>1, ToHost DEF Hosts
<1>6. q \in 1 .. 4 /\ p.at \in {"r1", "r2"} /\ p.src \in {"h1", "h2", "h3", "h4", "h5", "h6"}
  BY <1>1, <1>2, DynamicLinks DEF DynamicHop
<1>7. QED
  BY <1>2, <1>4, <1>5, <1>6, DynamicLinks DEF DynamicHop

\* So it is on the line of switches of the exercises, which has no cycle.
LEMMA LineStep ==
  ASSUME NEW n \in Learning, NEW p, Named(n, p), NEW i \in 1 .. 3, Hop(n, p, i, p.at, p.in),
         NEW q \in Ports(n, p.at), q # p.in
  PROVE  Onward(n, p, i, q)
<1>1. p.src \in Hosts(n) /\ Group(n, p.src) = Hosts(n)
  BY AllTogether DEF Named, Learning
<1>2. \A j, w, k : Hop(n, p, j, w, k) <=> LineHop(p, j, w, k)
  BY DEF Hop, Learning
<1>3. Area(n, p) = {"s1", "s2"}
  BY LineLinks DEF Area, Learning
<1>4. \A w, k : w \in {"s1", "s2"} /\ LineHop(p, i + 1, w, k)
         /\ (Link(n, p.at, q, w, k) \/ Link(n, w, k, p.at, q)) => Onward(n, p, i, q)
  BY <1>2, <1>3, ToSwitch DEF AllHosts
<1>5. \A h \in Hosts(n) : Link(n, h, 1, p.at, q) => Onward(n, p, i, q)
  BY <1>1, ToHost DEF Hosts
<1>6. q \in 1 .. 3 /\ p.at \in {"s1", "s2"} /\ p.src \in {"h1", "h2", "h3"}
  BY <1>1, <1>2, LineLinks DEF LineHop
<1>7. QED
  BY <1>2, <1>4, <1>5, <1>6, LineLinks DEF LineHop

\* A copy of a packet has these fields.
IsPacket(p) == DOMAIN p = {"id", "src", "dst", "proto", "port", "at", "in", "asked"}

\* The controllers of the second scenario: the upper one like service_slicing.py, the lower one floods.
LEMMA SecondOut ==
  ASSUME NEW p, IsPacket(p), NEW d, d \in SecondDecision(p)
  PROVE  LET s == SecondSlice(p.at, p.in) IN
         /\ s = "upper" => d \in ServiceDecision("second", p, SecondEnds, FALSE)
         /\ s # "upper" => d.out = SlicePorts("second", p)
         /\ SlicePorts("second", p) = {q \in Ports("second", p.at) : SecondSlice(p.at, q) = s}
<1>1. Slice("second", p) = SecondSlice(p.at, p.in)
  BY DEF Slice
<1>2. SecondSlice(p.at, p.in) = "upper" => d \in ServiceDecision("second", p, SecondEnds, FALSE)
  BY <1>1 DEF SecondDecision, SecondUpperSlice
<1>3. ASSUME SecondSlice(p.at, p.in) # "upper"
      PROVE  d.out = SlicePorts("second", p)
  <2>1. d \in SecondLowerSlice(p)
    BY <1>1, <1>3 DEF SecondDecision
  <2>2. PICK e \in AddAndSend(p, {}, 1, SlicePorts("second", p), FALSE) : d = [e EXCEPT !.sends = BOOLEAN]
    BY <2>1 DEF SecondLowerSlice
  <2>3. e.out = SlicePorts("second", p)
    BY ZenonT(60), <2>2, Add
  <2>4. d.out = e.out
    BY <2>2 DEF AddAndSend
  <2>5. QED
    BY <2>3, <2>4
<1>4. SlicePorts("second", p) = {q \in Ports("second", p.at) : SecondSlice(p.at, q) =
          SecondSlice(p.at, p.in)}
  <2>1. \A q : Slice("second", [p EXCEPT !.in = q]) = SecondSlice(p.at, q)
    BY DEF Slice, IsPacket
  <2>2. QED
    BY <1>1, <2>1 DEF SlicePorts
<1>5. QED
  BY <1>2, <1>3, <1>4

\* In the second scenario packets are sent on along their way; two ports of s4 are in no slice.
LEMMA SecondStep ==
  ASSUME NEW p, IsPacket(p), Named("second", p), NEW i \in 1 .. 3, Hop("second", p, i, p.at, p.in),
         NEW macs, NEW d, d \in Decision("second", p, macs), NEW q, q \in d.out, q # p.in
  PROVE  Onward("second", p, i, q)
<1>1. /\ p.src \in {"h1", "h2", "h3", "h4", "h5", "h6", "h7", "h8"}
      /\ p.dst \in {"h1", "h2", "h3", "h4", "h5", "h6", "h7", "h8"}
  BY SecondLinks DEF Named, Learning
<1>2. \A j, w, k : Hop("second", p, j, w, k) <=> SecondHop(p, j, w, k)
  BY DEF Hop
<1>3. /\ p.src \in {"h1", "h2", "h5", "h6"} =>
           /\ Area("second", p) = {"s1", "s6", IF Fast(p) THEN "s3" ELSE "s4"}
           /\ Group("second", p.src) = {"h1", "h2", "h5", "h6"}
      /\ p.src \in {"h3", "h4", "h7", "h8"} =>
           /\ Area("second", p) = {"s2", "s4", "s5", "s7"}
           /\ Group("second", p.src) = {"h3", "h4", "h7", "h8"}
  BY DEF Area, Group, Fast
<1>4. LET s == SecondSlice(p.at, p.in) IN
         /\ s = "upper" => d \in ServiceDecision("second", p, SecondEnds, FALSE)
         /\ s # "upper" => d.out = SlicePorts("second", p)
         /\ SlicePorts("second", p) = {r \in Ports("second", p.at) : SecondSlice(p.at, r) = s}
  <2>1. d \in SecondDecision(p)
    BY DEF Decision
  <2>2. QED
    BY <2>1, SecondOut
<1>5. \A w, k : w \in {"s1", "s2", "s3", "s4", "s5", "s6", "s7"} /\ w \in Area("second", p)
         /\ SecondHop(p, i + 1, w, k) /\ (Link("second", p.at, q, w, k) \/ Link("second", w, k, p.at, q))
         => Onward("second", p, i, q)
  BY <1>2, ToSwitch DEF AllHosts
<1>6. \A h \in {"h1", "h2", "h3", "h4", "h5", "h6", "h7", "h8"} :
         Link("second", h, 1, p.at, q) /\ h \in Group("second", p.src) => Onward("second", p, i, q)
  BY <1>1, ToHost DEF AllHosts
<1>7. CASE p.src \in {"h1", "h2", "h5", "h6"}
  <2>0. SecondSlice(p.at, p.in) = "upper"
    BY <1>2, <1>7 DEF SecondHop, SecondSlice
  <2>1. SecondSlice(p.at, p.in) = "upper" /\ d \in ServiceDecision("second", p, SecondEnds, FALSE)
    BY <1>4, <2>0
  <2>2. /\ p.at \notin DOMAIN SecondEnds => d.out = SlicePorts("second", p)
        /\ p.at \in DOMAIN SecondEnds =>
             /\ p.dst \in DOMAIN SecondEnds[p.at] => d.out = {SecondEnds[p.at][p.dst]}
             /\ p.dst \notin DOMAIN SecondEnds[p.at] => d.out = {IF Fast(p) THEN 1 ELSE 2}
    BY ZenonT(60), <2>1, ServiceOut
  <2>3. DOMAIN SecondEnds = {"s1", "s6"}
    BY DEF SecondEnds
  <2>4. CASE i = 2
    <3>1. p.at = (IF Fast(p) THEN "s3" ELSE "s4") /\ p.in \in {1, 2, 3}
      BY <1>2, <1>7, <2>4 DEF SecondHop
    <3>2. q \in Ports("second", p.at) /\ SecondSlice(p.at, q) = "upper"
      BY <1>4, <2>1, <2>2, <2>3, <3>1
    <3>3. CASE p.at = "s3"
      <4>1. q \in 1 .. 2
        BY <3>2, <3>3, SecondLinks
      <4>2. QED
        BY <1>2, <1>3, <1>5, <1>7, <2>4, <3>1, <3>3, <4>1, SecondLinks DEF SecondHop
    <3>4. CASE p.at = "s4"
      <4>1. q \in {1, 3}
        BY <3>2, <3>4, SecondLinks DEF SecondSlice
      <4>2. QED
        BY <1>2, <1>3, <1>5, <1>7, <2>4, <3>1, <3>4, <4>1, SecondLinks DEF SecondHop
    <3>5. QED
      BY <3>1, <3>3, <3>4
  <2>5. CASE i # 2
    <3>1. p.at \in {"s1", "s6"}
      BY <1>2, <1>7, <2>5 DEF SecondHop
    <3>2. /\ p.dst \in DOMAIN SecondEnds[p.at] => q = SecondEnds[p.at][p.dst]
          /\ p.dst \notin DOMAIN SecondEnds[p.at] => q = IF Fast(p) THEN 1 ELSE 2
      BY <2>2, <2>3, <3>1
    <3>3. CASE p.at = "s1"
      BY <1>1, <1>2, <1>3, <1>5, <1>6, <1>7, <2>5, <3>2, <3>3, SecondLinks DEF SecondHop, SecondEnds
    <3>4. CASE p.at = "s6"
      BY <1>1, <1>2, <1>3, <1>5, <1>6, <1>7, <2>5, <3>2, <3>4, SecondLinks DEF SecondHop, SecondEnds
    <3>5. QED
      BY <3>1, <3>3, <3>4
  <2>6. QED
    BY <2>4, <2>5
<1>8. CASE p.src \in {"h3", "h4", "h7", "h8"}
  <2>1. p.at \in {"s2", "s5", "s7"} /\ SecondSlice(p.at, p.in) = "lower"
    BY <1>2, <1>8 DEF SecondHop, SecondSlice
  <2>2. q \in Ports("second", p.at)
    BY <1>4, <2>1
  <2>3. \A w, k : w = "s4" /\ k \in {2, 4} /\ (Link("second", p.at, q, w, k) \/ Link("second", w, k,
            p.at, q))
           => Onward("second", p, i, q)
    <3>1. SUFFICES ASSUME NEW k, k \in {2, 4},
                          Link("second", p.at, q, "s4", k) \/ Link("second", "s4", k, p.at, q)
                   PROVE  Onward("second", p, i, q)
      OBVIOUS
    <3>2. q \in Ports("second", p.at) /\ Peers["second"][p.at][q] = [node |-> "s4", port |-> k]
      BY <3>1 DEF Link
    <3>3. Slice("second", [p EXCEPT !.at = "s4", !.in = k, !.asked = FALSE]) = "none"
      BY <3>1 DEF Slice, SecondSlice, IsPacket
    <3>4. QED
      BY <1>3, <1>8, <3>2, <3>3 DEF Onward, AllHosts
  <2>4. CASE p.at = "s2"
    <3>1. q \in 1 .. 4
      BY <2>2, <2>4, SecondLinks
    <3>2. QED
      BY <1>2, <1>3, <1>5, <1>6, <1>8, <2>3, <2>4, <3>1, SecondLinks DEF SecondHop
  <2>5. CASE p.at = "s5"
    <3>1. q \in 1 .. 2
      BY <2>2, <2>5, SecondLinks
    <3>2. QED
      BY <1>2, <1>3, <1>5, <1>8, <2>5, <3>1, SecondLinks DEF SecondHop
  <2>6. CASE p.at = "s7"
    <3>1. q \in 1 .. 4
      BY <2>2, <2>6, SecondLinks
    <3>2. QED
      BY <1>2, <1>3, <1>5, <1>6, <1>8, <2>3, <2>6, <3>1, SecondLinks DEF SecondHop
  <2>7. QED
    BY <2>1, <2>4, <2>5, <2>6
<1>9. QED
  BY <1>1, <1>7, <1>8

\* The controllers of the third scenario differ in the port to the other side.
LEMMA ThirdOut ==
  ASSUME NEW p, IsPacket(p), NEW d, d \in ThirdDecision(p)
  PROVE  LET s == Slice("third", p)
             port == IF s = "upper" THEN 1 ELSE IF s = "middle" THEN 2 ELSE 3 IN
         /\ p.at \notin {"s1", "s5"} => d.out \subseteq Ports("third", p.at)
         /\ p.at \in {"s1", "s5"} => d.out = {ThirdEnds(port)[p.at][p.dst]}
<1>1. ASSUME NEW port, NEW refused, NEW fields, d \in ThirdEnd(p, port, refused, fields)
      PROVE  /\ p.at \notin {"s1", "s5"} => d.out \subseteq Ports("third", p.at)
             /\ p.at \in {"s1", "s5"} => d.out = {ThirdEnds(port)[p.at][p.dst]}
  <2>1. CASE p.at \notin {"s1", "s5"}
    <3>1. d \in AddAndSend(p, {"in"}, 1, SlicePorts("third", p), FALSE)
      BY <1>1, <2>1 DEF ThirdEnd
    <3>2. d.out = SlicePorts("third", p)
      BY ZenonT(60), <3>1, Add
    <3>3. QED
      BY <2>1, <3>2 DEF SlicePorts
  <2>2. CASE p.at \in {"s1", "s5"}
    <3>1. d \in AddAndSend(p, fields, 1, {ThirdEnds(port)[p.at][p.dst]}, FALSE)
      BY <1>1, <2>2 DEF ThirdEnd
    <3>2. d.out = {ThirdEnds(port)[p.at][p.dst]}
      BY <3>1 DEF AddAndSend
    <3>3. QED
      BY <2>2, <3>2
  <2>3. QED
    BY <2>1, <2>2
<1>2. CASE Slice("third", p) = "upper"
  <2>1. d \in ThirdEnd(p, 1, {"udp", "icmp"}, {"dst"})
    BY <1>2 DEF ThirdDecision, ThirdUpperSlice
  <2>2. QED
    BY <1>1, <1>2, <2>1
<1>3. CASE Slice("third", p) = "middle"
  <2>1. d \in ThirdEnd(p, 2, {"tcp", "icmp"}, {"dst"})
    BY <1>3 DEF ThirdDecision, ThirdMiddleSlice
  <2>2. QED
    BY <1>1, <1>3, <2>1
<1>4. CASE Slice("third", p) \notin {"upper", "middle"}
  <2>1. d \in ThirdEnd(p, 3, {}, {"in", "dst", "src", "proto"})
    BY <1>4 DEF ThirdDecision, ThirdLowerSlice
  <2>2. QED
    BY <1>1, <1>4, <2>1
<1>5. QED
  BY <1>2, <1>3, <1>4

\* The slice of a packet on its course is that of its kind.
LEMMA ThirdCourse ==
  ASSUME NEW p, IsPacket(p), p.src \in {"h1", "h2", "h3", "h4"}, NEW i \in 1 .. 3,
         ThirdHop(p, i, p.at, p.in), Slice("third", p) # "none"
  PROVE  Slice("third", p) = IF Video(p) THEN "upper" ELSE IF Voip(p) THEN "middle" ELSE "lower"
<1>1. Slice("third", p) = ThirdSlice(p.at, p.in, p)
  BY DEF Slice
<1>2. CASE i = 2
  BY <1>1, <1>2 DEF ThirdHop, ThirdSlice, Video, Voip
<1>3. CASE i = 1
  BY <1>1, <1>3 DEF ThirdHop, ThirdSlice, Own, Video, Voip
<1>4. CASE i = 3
  BY <1>1, <1>4 DEF ThirdHop, ThirdSlice, Video, Voip
<1>5. QED
  BY <1>2, <1>3, <1>4

\* In the third scenario packets are sent on along their way.
LEMMA ThirdStep ==
  ASSUME NEW p, IsPacket(p), Named("third", p), NEW i \in 1 .. 3, Hop("third", p, i, p.at, p.in),
         Slice("third", p) # "none",
         NEW macs, NEW d, d \in Decision("third", p, macs), NEW q, q \in d.out, q # p.in
  PROVE  Onward("third", p, i, q)
<1>1. /\ p.src \in {"h1", "h2", "h3", "h4"} /\ p.dst \in {"h1", "h2", "h3", "h4"}
      /\ Group("third", p.src) = {"h1", "h2", "h3", "h4"}
  BY ThirdLinks, AllTogether DEF Named, Learning
<1>2. \A j, w, k : Hop("third", p, j, w, k) <=> ThirdHop(p, j, w, k)
  BY DEF Hop
<1>3. Area("third", p) = {"s1", "s5", IF Video(p) THEN "s2" ELSE IF Voip(p) THEN "s3" ELSE "s4"}
  BY DEF Area
<1>4. Slice("third", p) = IF Video(p) THEN "upper" ELSE IF Voip(p) THEN "middle" ELSE "lower"
  BY <1>1, <1>2, ThirdCourse
<1> DEFINE port == IF Video(p) THEN 1 ELSE IF Voip(p) THEN 2 ELSE 3
<1>5. /\ p.at \notin {"s1", "s5"} => q \in Ports("third", p.at)
      /\ p.at \in {"s1", "s5"} => q = ThirdEnds(port)[p.at][p.dst]
  <2>1. d \in ThirdDecision(p)
    BY DEF Decision
  <2>2. port = IF Slice("third", p) = "upper" THEN 1 ELSE IF Slice("third", p) = "middle" THEN 2 ELSE 3
    BY <1>4
  <2>3. /\ p.at \notin {"s1", "s5"} => d.out \subseteq Ports("third", p.at)
        /\ p.at \in {"s1", "s5"} => d.out = {ThirdEnds(port)[p.at][p.dst]}
    BY <2>1, <2>2, ThirdOut
  <2>4. QED
    BY <2>3
<1>6. \A w, k : w \in {"s1", "s2", "s3", "s4", "s5"} /\ w \in Area("third", p) /\ ThirdHop(p, i + 1, w, k)
         /\ (Link("third", p.at, q, w, k) \/ Link("third", w, k, p.at, q)) => Onward("third", p, i, q)
  BY <1>2, ToSwitch DEF AllHosts
<1>7. \A h \in {"h1", "h2", "h3", "h4"} : Link("third", h, 1, p.at, q) => Onward("third", p, i, q)
  BY <1>1, ToHost DEF AllHosts
<1>8. CASE i = 2
  <2>1. p.at = (IF Video(p) THEN "s2" ELSE IF Voip(p) THEN "s3" ELSE "s4")
    BY <1>1, <1>2, <1>8 DEF ThirdHop
  <2>2. q \in 1 .. 2
    BY <1>5, <2>1, ThirdLinks
  <2>3. QED
    BY <1>1, <1>2, <1>3, <1>8, <2>1, <2>2, ThirdLinks, <1>6 DEF ThirdHop
<1>9. CASE i # 2
  <2>1. p.at \in {"s1", "s5"}
    BY <1>1, <1>2, <1>9 DEF ThirdHop
  <2>2. CASE p.at = "s1"
    <3>1. /\ p.dst = "h1" => q = 4
          /\ p.dst = "h2" => q = 5
          /\ p.dst \in {"h3", "h4"} => q = port
      BY <1>5, <2>2 DEF ThirdEnds
    <3>2. QED
      BY <1>1, <1>2, <1>3, <1>6, <1>7, <1>9, <2>2, <3>1, ThirdLinks DEF ThirdHop
  <2>3. CASE p.at = "s5"
    <3>1. /\ p.dst = "h3" => q = 4
          /\ p.dst = "h4" => q = 5
          /\ p.dst \in {"h1", "h2"} => q = port
      BY <1>5, <2>3 DEF ThirdEnds
    <3>2. QED
      BY <1>1, <1>2, <1>3, <1>6, <1>7, <1>9, <2>3, <3>1, ThirdLinks DEF ThirdHop
  <2>4. QED
    BY <2>1, <2>2, <2>3
<1>10. QED
  BY <1>8, <1>9

AllNets == {"service", "topology", "first", "second", "third", "dynamic", "hub", "switch", "sdn_switch"}

\* The way of a packet in each network.
LEMMA HopOf ==
  ASSUME NEW p
  PROVE  \A i, w, k :
           /\ Hop("service", p, i, w, k) <=> ServiceHop(p, i, w, k)
           /\ Hop("topology", p, i, w, k) <=> TopologyHop(p, i, w, k)
           /\ Hop("first", p, i, w, k) <=> FirstHop(p, i, w, k)
           /\ Hop("second", p, i, w, k) <=> SecondHop(p, i, w, k)
           /\ Hop("third", p, i, w, k) <=> ThirdHop(p, i, w, k)
           /\ Hop("dynamic", p, i, w, k) <=> DynamicHop(p, i, w, k)
           /\ \A n \in Learning : Hop(n, p, i, w, k) <=> LineHop(p, i, w, k)
BY DEF Hop, Learning

\* A way has at most three hops, one switch at each, and passes no switch twice.
LEMMA CourseIsSimple ==
  ASSUME NEW n \in AllNets, NEW p, p.src \in Hosts(n),
         NEW i, NEW w, NEW k, Hop(n, p, i, w, k),
         NEW j, NEW v, NEW m, Hop(n, p, j, v, m)
  PROVE  /\ i \in 1 .. 3 /\ k \in 1 .. 5
         /\ i = j => w = v /\ k = m
         /\ w = v => i = j
<1>1. CASE n = "service"
  <2>1. p.src \in {"h1", "h2", "h3", "h4"} /\ ServiceHop(p, i, w, k) /\ ServiceHop(p, j, v, m)
    BY <1>1, HopOf, SquareLinks
  <2>2. QED
    BY <2>1 DEF ServiceHop, Own
<1>2. CASE n = "topology"
  <2>1. p.src \in {"h1", "h2", "h3", "h4"} /\ TopologyHop(p, i, w, k) /\ TopologyHop(p, j, v, m)
    BY <1>2, HopOf, SquareLinks
  <2>2. QED
    BY <2>1 DEF TopologyHop
<1>3. CASE n = "first"
  <2>1. p.src \in {"h1", "h2", "h3", "h4", "h5", "h6"} /\ FirstHop(p, i, w, k) /\ FirstHop(p, j, v, m)
    BY <1>3, HopOf, FirstLinks
  <2>2. QED
    BY <2>1 DEF FirstHop
<1>4. CASE n = "second"
  <2>1. p.src \in {"h1", "h2", "h3", "h4", "h5", "h6", "h7", "h8"} /\ SecondHop(p, i, w, k)
            /\ SecondHop(p, j, v, m)
    BY <1>4, HopOf, SecondLinks
  <2>2. QED
    BY <2>1 DEF SecondHop, Own
<1>5. CASE n = "third"
  <2>1. p.src \in {"h1", "h2", "h3", "h4"} /\ ThirdHop(p, i, w, k) /\ ThirdHop(p, j, v, m)
    BY <1>5, HopOf, ThirdLinks
  <2>2. QED
    BY <2>1 DEF ThirdHop, Own
<1>6. CASE n = "dynamic"
  <2>1. p.src \in {"h1", "h2", "h3", "h4", "h5", "h6"} /\ DynamicHop(p, i, w, k) /\ DynamicHop(p, j, v, m)
    BY <1>6, HopOf, DynamicLinks
  <2>2. QED
    BY <2>1 DEF DynamicHop
<1>7. CASE n \in Learning
  <2>1. p.src \in {"h1", "h2", "h3"} /\ LineHop(p, i, w, k) /\ LineHop(p, j, v, m)
    BY <1>7, HopOf, LineLinks
  <2>2. QED
    BY <2>1 DEF LineHop
<1>8. QED
  BY <1>1, <1>2, <1>3, <1>4, <1>5, <1>6, <1>7 DEF AllNets, Learning

\* A host is attached where the way of its packets begins.
LEMMA CourseBegins ==
  ASSUME NEW n \in AllNets, NEW p, NEW h, h \in Hosts(n), p.src = h
  PROVE  LET e == Peers[n][h][1] IN
         Hop(n, p, 1, e.node, e.port) /\ e.node \in Area(n, p) /\ e.node \notin AllHosts
<1> DEFINE e == Peers[n][h][1]
<1>0. ASSUME NEW w, NEW k, Link(n, h, 1, w, k) PROVE e.node = w /\ e.port = k
  BY <1>0 DEF Link
<1>1. CASE n = "service"
  <2>1. h \in {"h1", "h2", "h3", "h4"}
    BY <1>1, SquareLinks
  <2>2. ServiceHop(p, 1, e.node, e.port)
    BY <1>0, <1>1, <2>1, SquareLinks DEF ServiceHop, Own
  <2>3. e.node \in Area(n, p) /\ e.node \notin AllHosts
    BY <1>0, <1>1, <2>1, SquareLinks DEF Area, AllHosts
  <2>4. QED
    BY <1>1, <2>2, <2>3, HopOf
<1>2. CASE n = "topology"
  <2>1. h \in {"h1", "h2", "h3", "h4"}
    BY <1>2, SquareLinks
  <2>2. TopologyHop(p, 1, e.node, e.port)
    BY <1>0, <1>2, <2>1, SquareLinks DEF TopologyHop
  <2>3. e.node \in Area(n, p) /\ e.node \notin AllHosts
    BY <1>0, <1>2, <2>1, SquareLinks DEF Area, AllHosts
  <2>4. QED
    BY <1>2, <2>2, <2>3, HopOf
<1>3. CASE n = "first"
  <2>1. h \in {"h1", "h2", "h3", "h4", "h5", "h6"}
    BY <1>3, FirstLinks
  <2>2. FirstHop(p, 1, e.node, e.port)
    BY <1>0, <1>3, <2>1, FirstLinks DEF FirstHop
  <2>3. e.node \in Area(n, p) /\ e.node \notin AllHosts
    BY <1>0, <1>3, <2>1, FirstLinks DEF Area, AllHosts
  <2>4. QED
    BY <1>3, <2>2, <2>3, HopOf
<1>4. CASE n = "second"
  <2>1. h \in {"h1", "h2", "h3", "h4", "h5", "h6", "h7", "h8"}
    BY <1>4, SecondLinks
  <2>2. SecondHop(p, 1, e.node, e.port)
    BY <1>0, <1>4, <2>1, SecondLinks DEF SecondHop, Own
  <2>3. e.node \in Area(n, p) /\ e.node \notin AllHosts
    BY <1>0, <1>4, <2>1, SecondLinks DEF Area, AllHosts
  <2>4. QED
    BY <1>4, <2>2, <2>3, HopOf
<1>5. CASE n = "third"
  <2>1. h \in {"h1", "h2", "h3", "h4"}
    BY <1>5, ThirdLinks
  <2>2. ThirdHop(p, 1, e.node, e.port)
    BY <1>0, <1>5, <2>1, ThirdLinks DEF ThirdHop, Own
  <2>3. e.node \in Area(n, p) /\ e.node \notin AllHosts
    BY <1>0, <1>5, <2>1, ThirdLinks DEF Area, AllHosts
  <2>4. QED
    BY <1>5, <2>2, <2>3, HopOf
<1>6. CASE n = "dynamic"
  <2>1. h \in {"h1", "h2", "h3", "h4", "h5", "h6"}
    BY <1>6, DynamicLinks
  <2>2. DynamicHop(p, 1, e.node, e.port)
    BY <1>0, <1>6, <2>1, DynamicLinks DEF DynamicHop
  <2>3. e.node \in Area(n, p) /\ e.node \notin AllHosts
    BY <1>0, <1>6, <2>1, DynamicLinks DEF Area, AllHosts
  <2>4. QED
    BY <1>6, <2>2, <2>3, HopOf
<1>7. CASE n \in Learning
  <2>1. h \in {"h1", "h2", "h3"} /\ Area(n, p) = {"s1", "s2"}
    BY <1>7, LineLinks DEF Area, Learning
  <2>2. LineHop(p, 1, e.node, e.port) /\ e.node \in {"s1", "s2"}
    BY <1>0, <1>7, <2>1, LineLinks DEF LineHop
  <2>3. QED
    BY <1>7, <2>1, <2>2, HopOf DEF AllHosts
<1>8. QED
  BY <1>1, <1>2, <1>3, <1>4, <1>5, <1>6, <1>7 DEF AllNets, Learning

\* The fields of a packet, read as a record and as a function.
LEMMA Field ==
  ASSUME NEW p, NEW q
  PROVE  /\ p["src"] = q["src"] <=> p.src = q.src
         /\ p["dst"] = q["dst"] <=> p.dst = q.dst
         /\ p["in"] = q["in"] <=> p.in = q.in
         /\ p["proto"] = q["proto"] <=> p.proto = q.proto
         /\ p["port"] = q["port"] <=> p.port = q.port
OBVIOUS

\* add_flow always gives a decision.
LEMMA SomeDecision ==
  ASSUME NEW p, NEW fields, NEW prio, NEW out, NEW lasting \in BOOLEAN
  PROVE  \E d \in AddAndSend(p, fields, prio, out, lasting) : d.out = out
BY DEF AddAndSend

\* The packet p is caught by the rule for the decision d on packet p0.
Caught(d, p) == \A f \in DOMAIN d.match : d.match[f] = p[f]

\* A packet that a rule catches agrees with the first one in the fields of the match.
LEMMA CaughtFits ==
  ASSUME NEW p0, NEW fields, NEW prio, NEW out, NEW lasting \in BOOLEAN,
         NEW d, d \in AddAndSend(p0, fields, prio, out, lasting), NEW p, Caught(d, p)
  PROVE  d.out = out /\ \A f \in fields : p0[f] = p[f]
<1>1. d.out = out /\ d.match = [f \in fields |-> p0[f]]
  BY Add DEF Match
<1>2. QED
  BY <1>1 DEF Caught

\* A rule of service_slicing.py sends a packet as the controller would.
LEMMA ServiceAgrees ==
  ASSUME NEW n, NEW ends, NEW lasting \in BOOLEAN, NEW p0,
         NEW d0, d0 \in ServiceDecision(n, p0, ends, lasting),
         NEW p, p.at = p0.at, SlicePorts(n, p) = SlicePorts(n, p0), Caught(d0, p)
  PROVE  \E d \in ServiceDecision(n, p, ends, lasting) : d.out = d0.out
<1>1. CASE p0.at \notin DOMAIN ends
  <2>1. d0 \in AddAndSend(p0, {"in"}, 1, SlicePorts(n, p0), lasting)
    BY <1>1 DEF ServiceDecision
  <2>2. d0.out = SlicePorts(n, p0)
    BY <2>1, Add
  <2>3. ServiceDecision(n, p, ends, lasting) = AddAndSend(p, {"in"}, 1, SlicePorts(n, p), lasting)
    BY <1>1 DEF ServiceDecision
  <2>4. QED
    BY <2>2, <2>3, SomeDecision
<1>2. CASE p0.at \in DOMAIN ends /\ p0.dst \in DOMAIN ends[p0.at]
  <2>1. d0 \in AddAndSend(p0, {"dst"}, 1, {ends[p0.at][p0.dst]}, lasting)
    BY <1>2 DEF ServiceDecision
  <2>2. d0.out = {ends[p0.at][p0.dst]} /\ p0["dst"] = p["dst"]
    BY ONLY <2>1, CaughtFits, Caught(d0, p), lasting \in BOOLEAN
  <2>3. p.dst = p0.dst
    BY <2>2, Field
  <2>4. ServiceDecision(n, p, ends, lasting) = AddAndSend(p, {"dst"}, 1, {ends[p.at][p.dst]}, lasting)
    BY <1>2, <2>3 DEF ServiceDecision
  <2>5. QED
    BY <2>2, <2>3, <2>4 DEF AddAndSend
<1>3. CASE p0.at \in DOMAIN ends /\ p0.dst \notin DOMAIN ends[p0.at] /\ p0.proto = "udp" /\ p0.port = 9999
  <2>1. d0 \in AddAndSend(p0, {"in", "dst", "proto", "port"}, 2, {1}, lasting)
    BY <1>3 DEF ServiceDecision
  <2>2. d0.out = {1} /\ p0["dst"] = p["dst"] /\ p0["proto"] = p["proto"] /\ p0["port"] = p["port"]
    BY ONLY <2>1, CaughtFits, Caught(d0, p), lasting \in BOOLEAN
  <2>3. p.dst = p0.dst /\ p.proto = p0.proto /\ p.port = p0.port
    BY <2>2, Field
  <2>4. ServiceDecision(n, p, ends, lasting) = AddAndSend(p, {"in", "dst", "proto", "port"}, 2, {1},
            lasting)
    BY <1>3, <2>3 DEF ServiceDecision
  <2>5. QED
    BY <2>2, <2>4, SomeDecision
<1>4. CASE /\ p0.at \in DOMAIN ends /\ p0.dst \notin DOMAIN ends[p0.at]
           /\ p0.proto = "udp" /\ p0.port # 9999
  <2>1. d0 \in AddAndSend(p0, {"in", "dst", "src", "proto", "port"}, 1, {2}, lasting)
    BY <1>4 DEF ServiceDecision
  <2>2. d0.out = {2} /\ p0["dst"] = p["dst"] /\ p0["proto"] = p["proto"] /\ p0["port"] = p["port"]
    BY ONLY <2>1, CaughtFits, Caught(d0, p), lasting \in BOOLEAN
  <2>3. p.dst = p0.dst /\ p.proto = p0.proto /\ p.port = p0.port
    BY <2>2, Field
  <2>4. ServiceDecision(n, p, ends, lasting) = AddAndSend(p, {"in", "dst", "src", "proto", "port"}, 1,
            {2}, lasting)
    BY <1>4, <2>3 DEF ServiceDecision
  <2>5. QED
    BY <2>2, <2>4, SomeDecision
<1>5. CASE p0.at \in DOMAIN ends /\ p0.dst \notin DOMAIN ends[p0.at] /\ p0.proto # "udp"
  <2>1. d0 \in AddAndSend(p0, {"in", "dst", "src", "proto"}, 1, {2}, lasting)
    BY <1>5 DEF ServiceDecision
  <2>2. d0.out = {2} /\ p0["dst"] = p["dst"] /\ p0["proto"] = p["proto"]
    BY ONLY <2>1, CaughtFits, Caught(d0, p), lasting \in BOOLEAN
  <2>3. p.dst = p0.dst /\ p.proto = p0.proto
    BY <2>2, Field
  <2>4. ServiceDecision(n, p, ends, lasting) = AddAndSend(p, {"in", "dst", "src", "proto"}, 1, {2},
            lasting)
    BY <1>5, <2>3 DEF ServiceDecision
  <2>5. QED
    BY <2>2, <2>4, SomeDecision
<1>6. QED
  BY <1>1, <1>2, <1>3, <1>4, <1>5

\* So does a rule made from a table of ports.
LEMMA TableAgrees ==
  ASSUME NEW table, NEW prio, NEW lasting \in BOOLEAN, NEW p0,
         NEW d0, d0 \in TableDecision(table, p0, prio, lasting),
         NEW p, p.at = p0.at, Caught(d0, p)
  PROVE  \E d \in TableDecision(table, p, prio, lasting) : d.out = d0.out
<1>1. table[p0.at][p0.in] # 0 /\ d0 \in AddAndSend(p0, {"in"}, prio, {table[p0.at][p0.in]}, lasting)
  BY DEF TableDecision
<1>2. d0.out = {table[p0.at][p0.in]} /\ p0["in"] = p["in"]
  BY ONLY <1>1, CaughtFits, Caught(d0, p), lasting \in BOOLEAN
<1>3. p.in = p0.in
  BY <1>2, Field
<1>4. TableDecision(table, p, prio, lasting) = AddAndSend(p, {"in"}, prio, {table[p.at][p.in]}, lasting)
  BY <1>1, <1>3 DEF TableDecision
<1>5. QED
  BY <1>2, <1>3, <1>4 DEF AddAndSend

\* The rule for the decision d0 on packet p0 catches p.
SameRule(n, p0, d0, p) == p.at = p0.at /\ Slice(n, p) = Slice(n, p0) /\ Caught(d0, p)

\* The same network by network: service_slicing.py, ...
LEMMA ServiceNetAgrees ==
  ASSUME NEW p0, NEW m0, NEW d0, d0 \in Decision("service", p0, m0),
         NEW p, SameRule("service", p0, d0, p), NEW m
  PROVE  \E d \in Decision("service", p, m) : d.out = d0.out
<1>1. /\ Decision("service", p0, m0) = ServiceDecision("service", p0, ServiceEnds, TRUE)
      /\ Decision("service", p, m) = ServiceDecision("service", p, ServiceEnds, TRUE)
  BY DEF Decision
<1>2. \A x : Slice("service", x) = "all"
  BY DEF Slice
<1>3. SlicePorts("service", p) = Ports("service", p.at) /\ SlicePorts("service", p0) =
          Ports("service", p0.at)
  BY <1>2 DEF SlicePorts
<1>4. /\ d0 \in ServiceDecision("service", p0, ServiceEnds, TRUE)
      /\ p.at = p0.at /\ SlicePorts("service", p) = SlicePorts("service", p0) /\ Caught(d0, p)
  BY <1>1, <1>3 DEF SameRule
<1>5. \E d \in ServiceDecision("service", p, ServiceEnds, TRUE) : d.out = d0.out
  <2> DEFINE lasting == TRUE
  <2>1. lasting \in BOOLEAN /\ d0 \in ServiceDecision("service", p0, ServiceEnds, lasting)
    BY <1>4
  <2> HIDE DEF lasting
  <2>2. \E d \in ServiceDecision("service", p, ServiceEnds, lasting) : d.out = d0.out
    BY <1>4, <2>1, ServiceAgrees
  <2>3. QED
    BY <2>2 DEF lasting
<1>6. QED
  BY <1>1, <1>5

\* ... topology_slicing.py, ...
LEMMA TopologyAgrees ==
  ASSUME NEW p0, NEW m0, NEW d0, d0 \in Decision("topology", p0, m0),
         NEW p, SameRule("topology", p0, d0, p), NEW m
  PROVE  \E d \in Decision("topology", p, m) : d.out = d0.out
<1>1. /\ Decision("topology", p0, m0) = TableDecision(TopologyTable, p0, 1, TRUE)
      /\ Decision("topology", p, m) = TableDecision(TopologyTable, p, 1, TRUE)
  BY DEF Decision
<1>2. d0 \in TableDecision(TopologyTable, p0, 1, TRUE) /\ p.at = p0.at /\ Caught(d0, p)
  BY <1>1 DEF SameRule
<1>3. \E d \in TableDecision(TopologyTable, p, 1, TRUE) : d.out = d0.out
  <2> DEFINE lasting == TRUE
  <2>1. lasting \in BOOLEAN /\ d0 \in TableDecision(TopologyTable, p0, 1, lasting)
    BY <1>2
  <2> HIDE DEF lasting
  <2>2. \E d \in TableDecision(TopologyTable, p, 1, lasting) : d.out = d0.out
    BY <1>2, <2>1, TableAgrees
  <2>3. QED
    BY <2>2 DEF lasting
<1>4. QED
  BY <1>1, <1>3

\* ... the first scenario, ...
LEMMA FirstAgrees ==
  ASSUME NEW p0, NEW m0, NEW d0, d0 \in Decision("first", p0, m0),
         NEW p, SameRule("first", p0, d0, p), NEW m
  PROVE  \E d \in Decision("first", p, m) : d.out = d0.out
<1>1. Decision("first", p0, m0) = FirstDecision(p0) /\ Decision("first", p, m) = FirstDecision(p)
  BY DEF Decision
<1>2. CASE Slice("first", p0) = "upper"
  <2>1. /\ FirstDecision(p0) = TableDecision(FirstUpper, p0, 2, FALSE)
        /\ FirstDecision(p) = TableDecision(FirstUpper, p, 2, FALSE)
    BY <1>2 DEF FirstDecision, FirstUpperSlice, SameRule
  <2>2. d0 \in TableDecision(FirstUpper, p0, 2, FALSE) /\ p.at = p0.at /\ Caught(d0, p)
    BY <1>1, <2>1 DEF SameRule
  <2>3. \E d \in TableDecision(FirstUpper, p, 2, FALSE) : d.out = d0.out
    <3> DEFINE lasting == FALSE
    <3>1. lasting \in BOOLEAN /\ d0 \in TableDecision(FirstUpper, p0, 2, lasting)
      BY <2>2
    <3> HIDE DEF lasting
    <3>2. \E d \in TableDecision(FirstUpper, p, 2, lasting) : d.out = d0.out
      BY <2>2, <3>1, TableAgrees
    <3>3. QED
      BY <3>2 DEF lasting
  <2>4. QED
    BY <1>1, <2>1, <2>3
<1>3. CASE Slice("first", p0) = "middle"
  <2>1. /\ FirstDecision(p0) = TableDecision(FirstMiddle, p0, 2, TRUE)
        /\ FirstDecision(p) = TableDecision(FirstMiddle, p, 2, TRUE)
    BY <1>3 DEF FirstDecision, FirstMiddleSlice, SameRule
  <2>2. d0 \in TableDecision(FirstMiddle, p0, 2, TRUE) /\ p.at = p0.at /\ Caught(d0, p)
    BY <1>1, <2>1 DEF SameRule
  <2>3. \E d \in TableDecision(FirstMiddle, p, 2, TRUE) : d.out = d0.out
    <3> DEFINE lasting == TRUE
    <3>1. lasting \in BOOLEAN /\ d0 \in TableDecision(FirstMiddle, p0, 2, lasting)
      BY <2>2
    <3> HIDE DEF lasting
    <3>2. \E d \in TableDecision(FirstMiddle, p, 2, lasting) : d.out = d0.out
      BY <2>2, <3>1, TableAgrees
    <3>3. QED
      BY <3>2 DEF lasting
  <2>4. QED
    BY <1>1, <2>1, <2>3
<1>4. CASE Slice("first", p0) \notin {"upper", "middle"}
  <2>1. FirstDecision(p0) = FirstLowerSlice(p0) /\ FirstDecision(p) = FirstLowerSlice(p)
    BY <1>4 DEF FirstDecision, SameRule
  <2>2. PICK e0 \in TableDecision(FirstLower, p0, 2, TRUE) : d0 = [e0 EXCEPT !.sends = {FALSE}]
    BY <1>1, <2>1 DEF FirstLowerSlice
  <2>3. d0.out = e0.out /\ d0.match = e0.match
    BY <2>2 DEF TableDecision, AddAndSend
  <2>4. e0 \in TableDecision(FirstLower, p0, 2, TRUE) /\ p.at = p0.at /\ Caught(e0, p)
    BY <2>2, <2>3 DEF Caught, SameRule
  <2>5. PICK e \in TableDecision(FirstLower, p, 2, TRUE) : e.out = e0.out
    <3> DEFINE lasting == TRUE
    <3>1. lasting \in BOOLEAN /\ e0 \in TableDecision(FirstLower, p0, 2, lasting)
      BY <2>4
    <3> HIDE DEF lasting
    <3>2. \E d \in TableDecision(FirstLower, p, 2, lasting) : d.out = e0.out
      BY <2>4, <3>1, TableAgrees
    <3>3. QED
      BY <3>2 DEF lasting
  <2>6. [e EXCEPT !.sends = {FALSE}] \in FirstDecision(p)
    BY <2>1 DEF FirstLowerSlice
  <2>7. [e EXCEPT !.sends = {FALSE}].out = e.out
    BY DEF TableDecision, AddAndSend
  <2>8. QED
    BY <1>1, <2>3, <2>5, <2>6, <2>7
<1>5. QED
  BY <1>2, <1>3, <1>4

\* ... the second, ...
LEMMA SecondAgrees ==
  ASSUME NEW p0, IsPacket(p0), NEW m0, NEW d0, d0 \in Decision("second", p0, m0),
         NEW p, IsPacket(p), SameRule("second", p0, d0, p), NEW m
  PROVE  \E d \in Decision("second", p, m) : d.out = d0.out
<1>1. Decision("second", p0, m0) = SecondDecision(p0) /\ Decision("second", p, m) = SecondDecision(p)
  BY DEF Decision
<1>2. SlicePorts("second", p) = SlicePorts("second", p0)
  <2>1. \A x, q : IsPacket(x) => Slice("second", [x EXCEPT !.in = q]) = SecondSlice(x.at, q)
    BY DEF Slice, IsPacket
  <2>2. QED
    BY <2>1 DEF SlicePorts, SameRule
<1>3. CASE Slice("second", p0) = "upper"
  <2>1. /\ SecondDecision(p0) = ServiceDecision("second", p0, SecondEnds, FALSE)
        /\ SecondDecision(p) = ServiceDecision("second", p, SecondEnds, FALSE)
    BY <1>3 DEF SecondDecision, SecondUpperSlice, SameRule
  <2>2. /\ d0 \in ServiceDecision("second", p0, SecondEnds, FALSE)
        /\ p.at = p0.at /\ SlicePorts("second", p) = SlicePorts("second", p0) /\ Caught(d0, p)
    BY <1>1, <1>2, <2>1 DEF SameRule
  <2>3. \E d \in ServiceDecision("second", p, SecondEnds, FALSE) : d.out = d0.out
    <3> DEFINE lasting == FALSE
    <3>1. lasting \in BOOLEAN /\ d0 \in ServiceDecision("second", p0, SecondEnds, lasting)
      BY <2>2
    <3> HIDE DEF lasting
    <3>2. \E d \in ServiceDecision("second", p, SecondEnds, lasting) : d.out = d0.out
      BY <2>2, <3>1, ServiceAgrees
    <3>3. QED
      BY <3>2 DEF lasting
  <2>4. QED
    BY <1>1, <2>1, <2>3
<1>4. CASE Slice("second", p0) # "upper"
  <2>1. SecondDecision(p0) = SecondLowerSlice(p0) /\ SecondDecision(p) = SecondLowerSlice(p)
    BY <1>4 DEF SecondDecision, SameRule
  <2>2. \A x, e : e \in AddAndSend(x, {}, 1, SlicePorts("second", x), FALSE) =>
          /\ e.out = SlicePorts("second", x)
          /\ [e EXCEPT !.sends = BOOLEAN].out = e.out
    BY DEF AddAndSend
  <2>3. d0.out = SlicePorts("second", p0)
    <3>1. PICK e0 \in AddAndSend(p0, {}, 1, SlicePorts("second", p0), FALSE) :
              d0 = [e0 EXCEPT !.sends = BOOLEAN]
      BY <1>1, <2>1 DEF SecondLowerSlice
    <3>2. QED
      BY <2>2, <3>1
  <2>4. PICK e \in AddAndSend(p, {}, 1, SlicePorts("second", p), FALSE) : TRUE
    BY SomeDecision
  <2>5. [e EXCEPT !.sends = BOOLEAN] \in SecondDecision(p)
            /\ [e EXCEPT !.sends = BOOLEAN].out = SlicePorts("second", p)
    BY <2>1, <2>2, <2>4 DEF SecondLowerSlice
  <2>6. QED
    BY <1>1, <1>2, <2>3, <2>5
<1>5. QED
  BY <1>3, <1>4

\* ... an end switch of the third, ...
LEMMA ThirdEndAgrees ==
  ASSUME NEW p0, NEW port, NEW refused, NEW fields, "dst" \in fields,
         NEW d0, d0 \in ThirdEnd(p0, port, refused, fields),
         NEW p, p.at = p0.at, Caught(d0, p), p.proto \notin refused, SlicePorts("third", p) =
             SlicePorts("third", p0)
  PROVE  \E d \in ThirdEnd(p, port, refused, fields) : d.out = d0.out
<1>1. CASE p0.at \notin {"s1", "s5"}
  <2>1. d0 \in AddAndSend(p0, {"in"}, 1, SlicePorts("third", p0), FALSE)
    BY <1>1 DEF ThirdEnd
  <2>2. d0.out = SlicePorts("third", p0)
    BY <2>1 DEF AddAndSend
  <2>3. ThirdEnd(p, port, refused, fields) = AddAndSend(p, {"in"}, 1, SlicePorts("third", p), FALSE)
    BY <1>1 DEF ThirdEnd
  <2>4. QED
    BY <2>2, <2>3 DEF AddAndSend
<1>2. CASE p0.at \in {"s1", "s5"}
  <2>1. /\ p0.dst \in DOMAIN ThirdEnds(port)[p0.at]
        /\ d0 \in AddAndSend(p0, fields, 1, {ThirdEnds(port)[p0.at][p0.dst]}, FALSE)
    BY <1>2 DEF ThirdEnd
  <2>2. d0.out = {ThirdEnds(port)[p0.at][p0.dst]} /\ p0["dst"] = p["dst"]
    <3>1. d0.out = {ThirdEnds(port)[p0.at][p0.dst]} /\ d0.match = [f \in fields |-> p0[f]]
      BY <2>1 DEF AddAndSend, Match
    <3>2. QED
      BY <3>1 DEF Caught
  <2>3. p.dst = p0.dst
    BY <2>2, Field
  <2>4. ThirdEnd(p, port, refused, fields) = AddAndSend(p, fields, 1, {ThirdEnds(port)[p.at][p.dst]},
            FALSE)
    BY <1>2, <2>1, <2>3 DEF ThirdEnd
  <2>5. QED
    BY <2>2, <2>3, <2>4 DEF AddAndSend
<1>3. QED
  BY <1>1, <1>2

\* ... the third, where the slice of the rule decides on the kind of packet, ...
LEMMA ThirdAgrees ==
  ASSUME NEW p0, IsPacket(p0), NEW m0, NEW d0, d0 \in Decision("third", p0, m0),
         NEW p, IsPacket(p), Named("third", p), NEW i, Hop("third", p, i, p.at, p.in),
         Slice("third", p) # "none", SameRule("third", p0, d0, p), NEW m
  PROVE  \E d \in Decision("third", p, m) : d.out = d0.out
<1>1. Decision("third", p0, m0) = ThirdDecision(p0) /\ Decision("third", p, m) = ThirdDecision(p)
  BY DEF Decision
<1>2. p.src \in {"h1", "h2", "h3", "h4"} /\ ThirdHop(p, i, p.at, p.in) /\ p.src \in Hosts("third")
  BY ThirdLinks, HopOf DEF Named
<1>3. i \in 1 .. 3
  BY <1>2, CourseIsSimple DEF AllNets
<1>4. Slice("third", p) = IF Video(p) THEN "upper" ELSE IF Voip(p) THEN "middle" ELSE "lower"
  BY <1>2, <1>3, ThirdCourse
<1>5. SlicePorts("third", p) = SlicePorts("third", p0)
  <2>1. CASE p.at \in {"s1", "s5"}
    BY <2>1 DEF SlicePorts, SameRule
  <2>2. CASE p.at \notin {"s1", "s5"}
    <3>1. p.at \in {"s2", "s3", "s4"}
      BY <1>2, <2>2 DEF ThirdHop
    <3>2. \A x, q : IsPacket(x) /\ x.at = p.at => Slice("third", [x EXCEPT !.in = q]) = Slice("third", x)
      BY <3>1 DEF Slice, ThirdSlice, IsPacket
    <3>3. QED
      BY <2>2, <3>2 DEF SlicePorts, SameRule
  <2>3. QED
    BY <2>1, <2>2
<1>6. CASE Slice("third", p) = "upper"
  <2>1. /\ ThirdDecision(p0) = ThirdEnd(p0, 1, {"udp", "icmp"}, {"dst"})
        /\ ThirdDecision(p) = ThirdEnd(p, 1, {"udp", "icmp"}, {"dst"})
    BY <1>6 DEF ThirdDecision, ThirdUpperSlice, SameRule
  <2>2. p.proto \notin {"udp", "icmp"}
    BY <1>4, <1>6 DEF Video
  <2>3. QED
    BY <1>1, <1>5, <2>1, <2>2, ThirdEndAgrees DEF SameRule
<1>7. CASE Slice("third", p) = "middle"
  <2>1. /\ ThirdDecision(p0) = ThirdEnd(p0, 2, {"tcp", "icmp"}, {"dst"})
        /\ ThirdDecision(p) = ThirdEnd(p, 2, {"tcp", "icmp"}, {"dst"})
    BY <1>7 DEF ThirdDecision, ThirdMiddleSlice, SameRule
  <2>2. p.proto \notin {"tcp", "icmp"}
    BY <1>4, <1>7 DEF Voip
  <2>3. QED
    BY <1>1, <1>5, <2>1, <2>2, ThirdEndAgrees DEF SameRule
<1>8. CASE Slice("third", p) \notin {"upper", "middle"}
  <2>1. /\ ThirdDecision(p0) = ThirdEnd(p0, 3, {}, {"in", "dst", "src", "proto"})
        /\ ThirdDecision(p) = ThirdEnd(p, 3, {}, {"in", "dst", "src", "proto"})
    BY <1>8 DEF ThirdDecision, ThirdLowerSlice, SameRule
  <2>2. p.proto \notin {}
    OBVIOUS
  <2>3. QED
    BY <1>1, <1>5, <2>1, <2>2, ThirdEndAgrees DEF SameRule
<1>9. QED
  BY <1>6, <1>7, <1>8

\* ... and the dynamic scenario.
LEMMA DynamicAgrees ==
  ASSUME NEW p0, NEW m0, NEW d0, d0 \in Decision("dynamic", p0, m0),
         NEW p, SameRule("dynamic", p0, d0, p), NEW m
  PROVE  \E d \in Decision("dynamic", p, m) : d.out = d0.out
<1>1. d0 \in AddAndSend(p0, {"dst"}, 1, {DynamicEnds[p0.at][p0.dst]}, TRUE)
  BY DEF Decision, DynamicDecision
<1>2. d0.out = {DynamicEnds[p0.at][p0.dst]} /\ p0["dst"] = p["dst"]
  <2>1. d0.out = {DynamicEnds[p0.at][p0.dst]} /\ d0.match = [f \in {"dst"} |-> p0[f]]
    BY <1>1 DEF AddAndSend, Match
  <2>2. QED
    BY <2>1 DEF Caught, SameRule
<1>3. p.dst = p0.dst
  BY <1>2, Field
<1>4. Decision("dynamic", p, m) = AddAndSend(p, {"dst"}, 1, {DynamicEnds[p.at][p.dst]}, TRUE)
  BY DEF Decision, DynamicDecision
<1>5. {DynamicEnds[p.at][p.dst]} = d0.out
  BY <1>2, <1>3 DEF SameRule
<1>6. PICK d \in AddAndSend(p, {"dst"}, 1, {DynamicEnds[p.at][p.dst]}, TRUE) : TRUE
  BY DEF AddAndSend
<1>7. d.out = {DynamicEnds[p.at][p.dst]}
  BY DEF AddAndSend
<1>8. QED
  BY <1>4, <1>5, <1>7

\* Where a rule made for one packet sends another one is where the controller would send it.
LEMMA RuleAgrees ==
  ASSUME NEW n \in AllNets, n \notin Learning,
         NEW p0, IsPacket(p0), NEW m0, NEW d0, d0 \in Decision(n, p0, m0),
         NEW p, IsPacket(p), Named(n, p), NEW i, Hop(n, p, i, p.at, p.in),
         Slice(n, p) # "none", SameRule(n, p0, d0, p), NEW m
  PROVE  \E d \in Decision(n, p, m) : d.out = d0.out
<1>1. CASE n = "service"
  BY <1>1, ServiceNetAgrees
<1>2. CASE n = "topology"
  BY <1>2, TopologyAgrees
<1>3. CASE n = "first"
  BY <1>3, FirstAgrees
<1>4. CASE n = "second"
  BY <1>4, SecondAgrees
<1>5. CASE n = "third"
  BY <1>5, ThirdAgrees
<1>6. CASE n = "dynamic"
  BY <1>6, DynamicAgrees
<1>7. QED
  BY <1>1, <1>2, <1>3, <1>4, <1>5, <1>6 DEF AllNets, Learning

\* What the learning switches know is true.
LearnedRight(n, macs) ==
  n \in Learning =>
    /\ macs \in [Switches(n) -> [Hosts(n) \cup {"all"} -> 0 .. 3]]
    /\ \A s \in Switches(n) :
         macs[s]["all"] = 0 /\ \A h \in Hosts(n) : macs[s][h] \in {0, Toward(s, h)}

\* A learning switch floods, or sends to the port of a known host and then adds a rule for it.
LEMMA LearnedOut ==
  ASSUME NEW n, n \in Learning, NEW p, Named(n, p), p.at \in Switches(n),
         NEW macs, LearnedRight(n, macs), NEW d, d \in Decision(n, p, macs)
  PROVE  /\ d.out \subseteq Ports(n, p.at)
         /\ d.installs => /\ n = "sdn_switch" /\ p.dst \in Hosts(n) /\ macs[p.at][p.dst] # 0
                          /\ d.match = Match(p, {"in", "dst"}) /\ d.prio = 1
                          /\ d.out = {Toward(p.at, p.dst)}
<1>1. p.dst \in Hosts(n) \cup {"all"} /\ macs[p.at][p.dst] \in 0 .. 3
  BY DEF Named, LearnedRight
<1>2. macs[p.at][p.dst] # 0 => p.dst \in Hosts(n) /\ macs[p.at][p.dst] = Toward(p.at, p.dst)
  BY <1>1 DEF LearnedRight
<1>3. \A h \in Hosts(n) : Toward(p.at, h) \in Ports(n, p.at)
  BY LineLinks DEF Toward
<1>4. \A e : e \in HubDecision(n, p) => e.out = Ports(n, p.at) /\ ~e.installs
  <2>1. ASSUME NEW e, e \in HubDecision(n, p)
        PROVE  e.out = Ports(n, p.at) /\ ~e.installs
    <3>1. PICK c \in AddAndSend(p, {}, 1, Ports(n, p.at), TRUE) : e = [c EXCEPT !.installs = FALSE]
      BY <2>1 DEF HubDecision
    <3>2. QED
      BY <3>1 DEF AddAndSend
  <2>2. QED
    BY <2>1
<1>5. CASE n = "hub"
  BY <1>4, <1>5 DEF Decision
<1>6. CASE n = "switch"
  <2>1. d \in SwitchDecision(n, p, macs)
    BY <1>6 DEF Decision
  <2>2. CASE macs[p.at][p.dst] = 0
    BY <1>4, <2>1, <2>2 DEF SwitchDecision
  <2>3. CASE macs[p.at][p.dst] # 0
    <3>1. PICK c \in AddAndSend(p, {}, 1, {macs[p.at][p.dst]}, TRUE) : d = [c EXCEPT !.installs = FALSE]
      BY <2>1, <2>3 DEF SwitchDecision
    <3>2. d.out = {macs[p.at][p.dst]} /\ ~d.installs
      BY <3>1 DEF AddAndSend
    <3>3. QED
      BY <1>2, <1>3, <2>3, <3>2
  <2>4. QED
    BY <2>2, <2>3
<1>7. CASE n = "sdn_switch"
  <2>1. d \in SdnSwitchDecision(n, p, macs)
    BY <1>7 DEF Decision
  <2>2. CASE macs[p.at][p.dst] = 0
    BY <1>4, <2>1, <2>2 DEF SdnSwitchDecision
  <2>3. CASE macs[p.at][p.dst] # 0
    <3>1. d \in AddAndSend(p, {"in", "dst"}, 1, {macs[p.at][p.dst]}, TRUE)
      BY <2>1, <2>3 DEF SdnSwitchDecision
    <3>2. d.out = {macs[p.at][p.dst]} /\ d.match = Match(p, {"in", "dst"}) /\ d.prio = 1
      BY <3>1 DEF AddAndSend
    <3>3. QED
      BY <1>2, <1>3, <1>7, <2>3, <3>2
  <2>4. QED
    BY <2>2, <2>3
<1>8. QED
  BY <1>5, <1>6, <1>7 DEF Learning

\* Wherever the controller sends a packet on its course, it goes on along it.
LEMMA DecisionLeadsOn ==
  ASSUME NEW n \in AllNets, NEW p, IsPacket(p), Named(n, p), NEW i, Hop(n, p, i, p.at, p.in),
         Slice(n, p) # "none", p.at \in Area(n, p), NEW macs, LearnedRight(n, macs),
         NEW d, d \in Decision(n, p, macs), NEW q, q \in d.out, q # p.in
  PROVE  Onward(n, p, i, q)
<1>0. i \in 1 .. 3
  BY CourseIsSimple DEF Named
<1>1. CASE n = "service"
  BY <1>0, <1>1, ServiceStep
<1>2. CASE n = "topology"
  BY <1>0, <1>2, TopologyStep
<1>3. CASE n = "first"
  BY <1>0, <1>3, FirstStep
<1>4. CASE n = "second"
  BY <1>0, <1>4, SecondStep
<1>5. CASE n = "third"
  BY <1>0, <1>5, ThirdStep
<1>6. CASE n = "dynamic"
  <2>1. d \in AddAndSend(p, {"dst"}, 1, {DynamicEnds[p.at][p.dst]}, TRUE)
    BY <1>6 DEF Decision, DynamicDecision
  <2>2. q = DynamicEnds[p.at][p.dst]
    BY <2>1 DEF AddAndSend
  <2>3. p.at \in {"r1", "r2"} /\ p.dst \in {"h1", "h2", "h3", "h4", "h5", "h6"}
    BY <1>6, DynamicLinks DEF Named, Area, Learning
  <2>4. q \in Ports("dynamic", p.at)
    BY <2>2, <2>3, DynamicLinks DEF DynamicEnds
  <2>5. QED
    BY <1>0, <1>6, <2>4, DynamicStep
<1>7. CASE n \in Learning
  <2>1. p.at \in Switches(n)
    BY <1>7 DEF Area, Learning
  <2>2. q \in Ports(n, p.at)
    BY <1>7, <2>1, LearnedOut
  <2>3. QED
    BY <1>0, <1>7, <2>2, LineStep
<1>8. QED
  BY <1>1, <1>2, <1>3, <1>4, <1>5, <1>6, <1>7 DEF AllNets, Learning

\* What of a packet its course, its slice and the decisions depend on.
LEMMA SameCourse ==
  ASSUME NEW n \in AllNets, NEW p, NEW c, c.src = p.src, c.dst = p.dst, c.proto = p.proto, c.port = p.port
  PROVE  /\ \A i, w, k : Hop(n, c, i, w, k) <=> Hop(n, p, i, w, k)
         /\ Area(n, c) = Area(n, p)
         /\ Named(n, c) <=> Named(n, p)
         /\ c.at = p.at /\ c.in = p.in => Slice(n, c) = Slice(n, p)
<1>1. Fast(c) = Fast(p) /\ Video(c) = Video(p) /\ Voip(c) = Voip(p)
  BY DEF Fast, Video, Voip
<1>2. ASSUME NEW i, NEW w, NEW k
      PROVE  /\ ServiceHop(c, i, w, k) <=> ServiceHop(p, i, w, k)
             /\ TopologyHop(c, i, w, k) <=> TopologyHop(p, i, w, k)
             /\ FirstHop(c, i, w, k) <=> FirstHop(p, i, w, k)
             /\ SecondHop(c, i, w, k) <=> SecondHop(p, i, w, k)
             /\ ThirdHop(c, i, w, k) <=> ThirdHop(p, i, w, k)
             /\ DynamicHop(c, i, w, k) <=> DynamicHop(p, i, w, k)
             /\ LineHop(c, i, w, k) <=> LineHop(p, i, w, k)
  <2>1. ServiceHop(c, i, w, k) <=> ServiceHop(p, i, w, k)
    BY <1>1 DEF ServiceHop, Own
  <2>2. TopologyHop(c, i, w, k) <=> TopologyHop(p, i, w, k)
    BY DEF TopologyHop
  <2>3. FirstHop(c, i, w, k) <=> FirstHop(p, i, w, k)
    BY DEF FirstHop
  <2>4. SecondHop(c, i, w, k) <=> SecondHop(p, i, w, k)
    BY <1>1 DEF SecondHop, Own
  <2>5. ThirdHop(c, i, w, k) <=> ThirdHop(p, i, w, k)
    BY <1>1 DEF ThirdHop, Own
  <2>6. DynamicHop(c, i, w, k) <=> DynamicHop(p, i, w, k)
    BY DEF DynamicHop
  <2>7. LineHop(c, i, w, k) <=> LineHop(p, i, w, k)
    BY DEF LineHop
  <2>8. QED
    BY <2>1, <2>2, <2>3, <2>4, <2>5, <2>6, <2>7
<1>3. ASSUME NEW i, NEW w, NEW k
      PROVE  Hop(n, c, i, w, k) <=> Hop(n, p, i, w, k)
  BY <1>2, HopOf DEF AllNets, Learning
<1>4. Area(n, c) = Area(n, p)
  BY <1>1 DEF Area
<1>5. Named(n, c) <=> Named(n, p)
  BY DEF Named
<1>6. ASSUME c.at = p.at, c.in = p.in PROVE Slice(n, c) = Slice(n, p)
  <2>1. ThirdSlice(c.at, c.in, c) = ThirdSlice(p.at, p.in, p)
    BY <1>1, <1>6 DEF ThirdSlice
  <2>2. QED
    BY <1>6, <2>1 DEF Slice
<1>7. QED
  BY <1>3, <1>4, <1>5, <1>6

Header == AllHosts \X (AllHosts \cup {"all"}) \X ({"udp", "tcp", "icmp"} \X Nat)
Live(p) == Slice(net, p) # "none"

\* Every copy of a packet is of a packet sent, stays among the switches of its slice, and is on
\* the way its packets are to go, unless FlowVisor has it in no slice.
CopyOK(p) ==
  /\ IsPacket(p) /\ Named(net, p)
  /\ p.id \in DOMAIN sent /\ sent[p.id][1] = p.src
  /\ p.asked => Live(p)
  /\ p.at \in Area(net, p)
  /\ Live(p) => \E i : Hop(net, p, i, p.at, p.in)

CopiesInv == \A p \in packets : CopyOK(p)

\* At most one copy of a packet is not lost.
OneLiveCopy == \A p, q \in packets : p.id = q.id /\ Live(p) /\ Live(q) => p = q

\* A host that took a packet is at a switch which the packet has passed.
TakersInv ==
  /\ \A t \in got : t[1] \in DOMAIN sent /\ t[2] \in Group(net, sent[t[1]][1])
  /\ \A p \in packets, t \in got : \A i : Live(p) /\ t[1] = p.id /\ Hop(net, p, i, p.at, p.in) =>
       \E j, k : j < i /\ Hop(net, p, j, Router(net, t[2]), k)

TrafficInv ==
  /\ net \in AllNets /\ sent \in Seq(Header)
  /\ CopiesInv /\ OneLiveCopy /\ TakersInv /\ TakenOnce

\* Sending a packet out where its way leads on keeps all this.
LEMMA OutputKeeps ==
  ASSUME TrafficInv, NEW p \in packets, Live(p), NEW i, Hop(net, p, i, p.at, p.in),
         NEW out, \A q \in out \ {p.in} : Onward(net, p, i, q),
         Output(p, out), net' = net, sent' = sent
  PROVE  TrafficInv'
<1> DEFINE ends == {Peers[net][p.at][q] : q \in out \ {p.in}}
           taken == {<<p.id, e.node>> : e \in {e \in ends : e.node \in AllHosts /\ p.dst \in {e.node,
               "all"}}}
           copy(e) == [p EXCEPT !.at = e.node, !.in = e.port, !.asked = FALSE]
           copies == {copy(e) : e \in {e \in ends : e.node \notin AllHosts}}
<1>1. /\ packets' = (packets \ {p}) \cup copies
      /\ got' = got \cup taken
      /\ twice' = (twice \/ taken \cap got # {})
  BY DEF Output
<1>2. CopyOK(p) /\ net \in AllNets /\ p.src \in Hosts(net)
  BY DEF TrafficInv, CopiesInv, CopyOK, Named
<1>3. ASSUME NEW j, NEW w, NEW k, Hop(net, p, j, w, k)
      PROVE  /\ i \in 1 .. 3 /\ j \in 1 .. 3
             /\ i = j => w = p.at /\ k = p.in
             /\ w = p.at => i = j
  BY <1>2, <1>3, CourseIsSimple
<1>4. ASSUME NEW c \in copies
      PROVE  /\ IsPacket(c) /\ c.id = p.id /\ c.src = p.src /\ c.dst = p.dst /\ c.proto = p.proto
             /\ c.port = p.port /\ c.asked = FALSE
             /\ c.at \in Area(net, p)
             /\ Live(c) => Hop(net, p, i + 1, c.at, c.in)
             /\ c = [p EXCEPT !.at = c.at, !.in = c.in, !.asked = FALSE]
  <2>0. PICK e \in ends : e.node \notin AllHosts /\ c = copy(e)
    OBVIOUS
  <2>1. PICK q \in out \ {p.in} : e = Peers[net][p.at][q]
    OBVIOUS
  <2>2. /\ c.id = p.id /\ c.src = p.src /\ c.dst = p.dst /\ c.proto = p.proto
        /\ c.port = p.port /\ c.asked = FALSE /\ c.at = e.node /\ c.in = e.port
    BY <1>2, <2>0 DEF CopyOK, IsPacket
  <2>3. IsPacket(c)
    BY <1>2, <2>0 DEF CopyOK, IsPacket
  <2>4. Onward(net, p, i, q) /\ e.node \notin AllHosts
    BY <2>0, <2>1
  <2>5. /\ e.node \in Area(net, p)
        /\ \/ Hop(net, p, i + 1, e.node, e.port)
           \/ Slice(net, c) = "none"
    BY <2>0, <2>1, <2>4 DEF Onward
  <2>6. QED
    BY <2>0, <2>2, <2>3, <2>5 DEF Live
<1>5. \A c \in copies : \A j, w, k : Hop(net, c, j, w, k) <=> Hop(net, p, j, w, k)
  BY <1>2, <1>4, SameCourse
<1>6. ASSUME NEW t \in taken
      PROVE  /\ t[1] = p.id /\ t[2] \in Group(net, p.src) /\ Router(net, t[2]) = p.at
  <2>1. PICK q \in out \ {p.in} : LET e == Peers[net][p.at][q] IN
               e.node \in AllHosts /\ p.dst \in {e.node, "all"} /\ t = <<p.id, e.node>>
    OBVIOUS
  <2>2. Onward(net, p, i, q)
    BY <2>1
  <2>3. QED
    BY <2>1, <2>2 DEF Onward
<1>7. CopiesInv'
  <2>1. SUFFICES ASSUME NEW c \in packets' PROVE CopyOK(c)'
    BY DEF CopiesInv
  <2>2. CASE c \in packets
    BY <2>2 DEF TrafficInv, CopiesInv, CopyOK, Live
  <2>3. CASE c \in copies
    <3>1. Named(net, c) /\ Area(net, c) = Area(net, p)
      BY <1>2, <1>4, <2>3, SameCourse DEF CopyOK
    <3>2. Live(c) => Hop(net, c, i + 1, c.at, c.in)
      BY <1>4, <1>5, <2>3
    <3>3. c.id \in DOMAIN sent /\ sent[c.id][1] = c.src /\ ~c.asked /\ IsPacket(c)
              /\ c.at \in Area(net, p)
      BY <1>2, <1>4, <2>3 DEF CopyOK
    <3>4. QED
      BY <3>1, <3>2, <3>3 DEF CopyOK, Live
  <2>4. QED
    BY <1>1, <2>1, <2>2, <2>3
<1>8. OneLiveCopy'
  <2>1. SUFFICES ASSUME NEW c \in packets', NEW d \in packets', c.id = d.id, Live(c), Live(d)
                 PROVE  c = d
    BY DEF OneLiveCopy, Live
  <2>2. CASE c \in packets \ {p} /\ d \in packets \ {p}
    BY <2>1, <2>2 DEF TrafficInv, OneLiveCopy
  <2>3. ASSUME NEW x \in copies, NEW y \in packets \ {p}, Live(y) PROVE x.id # y.id
    BY <1>4, <2>3 DEF TrafficInv, OneLiveCopy
  <2>4. CASE c \in copies /\ d \in copies
    <3>1. Hop(net, p, i + 1, c.at, c.in) /\ Hop(net, p, i + 1, d.at, d.in)
      BY <1>4, <2>1, <2>4
    <3>2. c.at = d.at /\ c.in = d.in
      BY <1>2, <3>1, CourseIsSimple
    <3>3. QED
      BY <1>4, <2>4, <3>2
  <2>5. QED
    BY <1>1, <2>1, <2>2, <2>3, <2>4
<1>9. TakersInv'
  <2>1. ASSUME NEW t \in got' PROVE t[1] \in DOMAIN sent' /\ t[2] \in Group(net, sent[t[1]][1])'
    BY <1>1, <1>2, <1>6, <2>1 DEF TrafficInv, TakersInv, CopyOK
  <2>2. ASSUME NEW c \in packets', NEW t \in got', NEW m, Live(c), t[1] = c.id, Hop(net, c, m, c.at, c.in)
        PROVE  \E j, k : j < m /\ Hop(net, c, j, Router(net, t[2]), k)
    <3>1. CASE c \in copies
      <4>1. Hop(net, p, m, c.at, c.in) /\ Hop(net, p, i + 1, c.at, c.in) /\ t[1] = p.id
        BY <1>4, <1>5, <2>2, <3>1
      <4>2. m = i + 1 /\ i \in 1 .. 3
        BY <1>2, <1>3, <4>1, CourseIsSimple
      <4>3. CASE t \in taken
        <5>1. Hop(net, c, i, Router(net, t[2]), p.in)
          BY <1>5, <1>6, <3>1, <4>3
        <5>2. i < m
          BY <4>2
        <5>3. QED
          BY <5>1, <5>2
      <4>4. CASE t \in got
        <5>1. PICK j, k : j < i /\ Hop(net, p, j, Router(net, t[2]), k)
          BY <4>1, <4>4 DEF TrafficInv, TakersInv
        <5>2. j \in 1 .. 3
          BY <1>3, <5>1
        <5>3. Hop(net, c, j, Router(net, t[2]), k)
          BY <1>5, <3>1, <5>1
        <5>4. j < m
          BY <4>2, <5>1, <5>2
        <5>5. QED
          BY <5>3, <5>4
      <4>5. QED
        BY <1>1, <4>3, <4>4
    <3>2. CASE c \in packets \ {p}
      <4>1. t \notin taken
        BY <1>6, <2>2, <3>2 DEF TrafficInv, OneLiveCopy
      <4>2. QED
        BY <1>1, <2>2, <3>2, <4>1 DEF TrafficInv, TakersInv
    <3>3. QED
      BY <1>1, <3>1, <3>2
  <2>3. QED
    BY <2>1, <2>2 DEF TakersInv, Live
<1>10. TakenOnce'
  <2>1. ASSUME NEW t, t \in taken, t \in got PROVE FALSE
    <3>1. t[1] = p.id /\ Router(net, t[2]) = p.at
      BY <1>6, <2>1
    <3>2. PICK j, k : j < i /\ Hop(net, p, j, p.at, k)
      BY <2>1, <3>1 DEF TrafficInv, TakersInv
    <3>3. QED
      BY <1>3, <3>2
  <2>2. QED
    BY <1>1, <2>1 DEF TrafficInv, TakenOnce
<1>11. QED
  BY <1>2, <1>7, <1>8, <1>9, <1>10 DEF TrafficInv

\* Losing copies harms nothing.
LEMMA DropKeeps ==
  ASSUME TrafficInv, packets' \subseteq packets, net' = net, sent' = sent, got' = got, twice' = twice
  PROVE  TrafficInv'
<1>1. CopiesInv'
  BY DEF TrafficInv, CopiesInv, CopyOK, Live
<1>2. OneLiveCopy'
  BY DEF TrafficInv, OneLiveCopy, Live
<1>3. TakersInv'
  BY DEF TrafficInv, TakersInv, Live
<1>4. QED
  BY <1>1, <1>2, <1>3 DEF TrafficInv, TakenOnce

\* Nor does a packet that goes to its controller, ...
LEMMA AskKeeps ==
  ASSUME TrafficInv, NEW p \in packets, SwitchAsks(p)
  PROVE  TrafficInv'
<1>1. net' = net /\ sent' = sent /\ got' = got /\ twice' = twice
  BY DEF SwitchAsks
<1>2. CASE ~Live(p)
  <2>1. packets' \subseteq packets
    BY <1>2 DEF SwitchAsks, Live
  <2>2. QED
    BY <1>1, <2>1, DropKeeps
<1>3. CASE Live(p)
  <2> DEFINE c == [p EXCEPT !.asked = TRUE]
  <2>1. packets' = (packets \ {p}) \cup {c}
    BY <1>3 DEF SwitchAsks, Live
  <2>2. CopyOK(p) /\ net \in AllNets
    BY DEF TrafficInv, CopiesInv
  <2>3. /\ IsPacket(c) /\ c.id = p.id /\ c.src = p.src /\ c.dst = p.dst /\ c.proto = p.proto
        /\ c.port = p.port /\ c.at = p.at /\ c.in = p.in
    <3>1. DOMAIN p = {"id", "src", "dst", "proto", "port", "at", "in", "asked"}
      BY <2>2 DEF CopyOK, IsPacket
    <3>2. /\ c.id = p.id /\ c.src = p.src /\ c.dst = p.dst /\ c.proto = p.proto
          /\ c.port = p.port /\ c.at = p.at /\ c.in = p.in
      BY <3>1
    <3>3. IsPacket(c)
      BY <3>1 DEF IsPacket
    <3>4. QED
      BY <3>2, <3>3
  <2>4. /\ \A i, w, k : Hop(net, c, i, w, k) <=> Hop(net, p, i, w, k)
        /\ Area(net, c) = Area(net, p)
        /\ Named(net, c) <=> Named(net, p)
        /\ Slice(net, c) = Slice(net, p)
    BY <2>2, <2>3, SameCourse
  <2> HIDE DEF c
  <2>5. CopyOK(c)
    BY <1>3, <2>2, <2>3, <2>4 DEF CopyOK, Live
  <2>6. CopiesInv'
    BY <1>1, <2>1, <2>5 DEF TrafficInv, CopiesInv, CopyOK, Live
  <2>7. OneLiveCopy'
    BY <1>1, <1>3, <2>1, <2>3, <2>4 DEF TrafficInv, OneLiveCopy, Live
  <2>8. TakersInv'
    <3>1. ASSUME NEW x \in packets', NEW t \in got, NEW i, Live(x), t[1] = x.id, Hop(net, x, i, x.at,
              x.in)
          PROVE  \E j, k : j < i /\ Hop(net, x, j, Router(net, t[2]), k)
      <4>1. CASE x = c
        <5>1. t[1] = p.id /\ Hop(net, p, i, p.at, p.in)
          BY <2>3, <2>4, <3>1, <4>1
        <5>2. PICK j, k : j < i /\ Hop(net, p, j, Router(net, t[2]), k)
          BY <1>3, <5>1 DEF TrafficInv, TakersInv
        <5>3. QED
          BY <2>4, <4>1, <5>2
      <4>2. CASE x \in packets
        BY <3>1, <4>2 DEF TrafficInv, TakersInv
      <4>3. QED
        BY <2>1, <4>1, <4>2
    <3>2. QED
      BY <1>1, <3>1 DEF TrafficInv, TakersInv, Live
  <2>9. QED
    BY <1>1, <2>6, <2>7, <2>8 DEF TrafficInv, TakenOnce
<1>4. QED
  BY <1>2, <1>3

\* ... or one that a host sends.
LEMMA SendKeeps ==
  ASSUME TrafficInv, HostSends
  PROVE  TrafficInv'
<1>1. net' = net /\ twice' = twice
  BY DEF HostSends
<1>2. PICK h \in Hosts(net) : \E k \in Kinds(net, h),
        d \in (Hosts(net) \cup (IF net \in Learning THEN {"all"} ELSE {})) \ {h} :
        LET to == Peers[net][h][1]
            before == IF packets = {} THEN <<>> ELSE sent IN
        /\ packets' = packets \cup
             {[id |-> Len(before) + 1, src |-> h, dst |-> d, proto |-> k[1], port |-> k[2],
               at |-> to.node, in |-> to.port, asked |-> FALSE]}
        /\ sent' = Append(before, <<h, d, k>>)
        /\ got' = IF packets = {} THEN {} ELSE got
  BY DEF HostSends
<1>3. PICK k \in Kinds(net, h), d \in (Hosts(net) \cup (IF net \in Learning THEN {"all"} ELSE {})) \ {h} :
        LET to == Peers[net][h][1]
            before == IF packets = {} THEN <<>> ELSE sent IN
        /\ packets' = packets \cup
             {[id |-> Len(before) + 1, src |-> h, dst |-> d, proto |-> k[1], port |-> k[2],
               at |-> to.node, in |-> to.port, asked |-> FALSE]}
        /\ sent' = Append(before, <<h, d, k>>)
        /\ got' = IF packets = {} THEN {} ELSE got
  BY <1>2
<1> DEFINE to == Peers[net][h][1]
           before == IF packets = {} THEN <<>> ELSE sent
<1>0. PICK c : c = [id |-> Len(before) + 1, src |-> h, dst |-> d, proto |-> k[1], port |-> k[2],
                    at |-> to.node, in |-> to.port, asked |-> FALSE]
  OBVIOUS
<1>4. /\ packets' = packets \cup {c}
      /\ sent' = Append(before, <<h, d, k>>)
      /\ got' = IF packets = {} THEN {} ELSE got
  BY <1>0, <1>3
<1>5. net \in AllNets /\ before \in Seq(Header)
  BY DEF TrafficInv
<1>6. k \in {"udp", "tcp", "icmp"} \X Nat /\ k = <<k[1], k[2]>>
  <2>1. k \in {<<"udp", 9999>>, <<"udp", 9998>>, <<"udp", 0>>, <<"tcp", 9999>>, <<"tcp", 0>>,
            <<"icmp", 0>>}
    BY <1>3 DEF Kinds
  <2>2. k[1] \in {"udp", "tcp", "icmp"} /\ k[2] \in {0, 9998, 9999} /\ k = <<k[1], k[2]>>
    BY <2>1
  <2>3. QED
    BY <2>2
<1>7. <<h, d, k>> \in Header
  BY <1>3, <1>6 DEF Header, Hosts
<1>8. /\ sent' \in Seq(Header) /\ Len(before) \in Nat
      /\ DOMAIN sent' = 1 .. Len(before) + 1 /\ DOMAIN before = 1 .. Len(before)
      /\ sent'[Len(before) + 1] = <<h, d, k>>
      /\ \A x \in 1 .. Len(before) : sent'[x] = before[x]
  <2> DEFINE s == <<h, d, k>>
  <2> HIDE DEF s, before
  <2>1. sent' = Append(before, s)
    BY <1>4 DEF s, before
  <2>2. s \in Header /\ before \in Seq(Header)
    BY <1>5, <1>7 DEF s, before
  <2>3. QED
    BY <2>1, <2>2 DEF s, before
<1>9. /\ IsPacket(c) /\ c.id = Len(before) + 1 /\ c.src = h /\ c.dst = d
      /\ c.proto = k[1] /\ c.port = k[2] /\ c.at = to.node /\ c.in = to.port /\ ~c.asked
  BY <1>0 DEF IsPacket
<1>10. Named(net, c)
  BY <1>3, <1>6, <1>9 DEF Named
<1>11. Hop(net, c, 1, c.at, c.in) /\ c.at \in Area(net, c)
  BY <1>5, <1>9, CourseBegins
<1>12. \A x \in packets : x.id \in DOMAIN before /\ before = sent /\ got' = got
  BY <1>4 DEF TrafficInv, CopiesInv, CopyOK
<1> HIDE DEF before, to
<1>13. CopiesInv'
  <2>1. CopyOK(c)'
    BY <1>1, <1>8, <1>9, <1>10, <1>11 DEF CopyOK, Live
  <2>2. ASSUME NEW x \in packets PROVE CopyOK(x)'
    <3>1. x.id \in DOMAIN sent' /\ sent'[x.id] = sent[x.id]
      BY <1>8, <1>12, <2>2
    <3>2. QED
      BY <1>1, <3>1 DEF TrafficInv, CopiesInv, CopyOK, Live
  <2>3. QED
    BY <1>4, <2>1, <2>2 DEF CopiesInv
<1>14. \A x \in packets : x.id # c.id
  BY <1>8, <1>9, <1>12
<1>15. OneLiveCopy'
  BY <1>1, <1>4, <1>14 DEF TrafficInv, OneLiveCopy, Live
<1>16. \A t \in got' : t[1] \in DOMAIN before /\ before = sent /\ got' = got /\ t[1] # c.id
  <2>1. ASSUME NEW t \in got' PROVE packets # {} /\ got' = got
    BY <1>4
  <2>2. ASSUME NEW t \in got' PROVE before = sent /\ t[1] \in DOMAIN sent
    BY <2>1 DEF TrafficInv, TakersInv, before
  <2>3. QED
    BY <1>8, <1>9, <2>1, <2>2
<1>17. TakersInv'
  <2>1. ASSUME NEW t \in got' PROVE t[1] \in DOMAIN sent' /\ t[2] \in Group(net, sent'[t[1]][1])
    <3>1. t[1] \in DOMAIN sent' /\ sent'[t[1]] = sent[t[1]] /\ t \in got
      BY <1>8, <1>16, <2>1
    <3>2. QED
      BY <3>1 DEF TrafficInv, TakersInv
  <2>2. ASSUME NEW x \in packets', NEW t \in got', NEW i, Live(x), t[1] = x.id, Hop(net, x, i, x.at, x.in)
        PROVE  \E j, m : j < i /\ Hop(net, x, j, Router(net, t[2]), m)
    BY <1>4, <1>16, <2>2 DEF TrafficInv, TakersInv
  <2>3. QED
    BY <1>1, <2>1, <2>2 DEF TakersInv, Live
<1>18. QED
  BY <1>1, <1>8, <1>13, <1>15, <1>17 DEF TrafficInv, TakenOnce

KnownInv == LearnedRight(net, learned)

\* A rule is one that the controller decided on for some packet, ...
DecidedRule(r) ==
  \E p, macs, d : IsPacket(p) /\ d \in Decision(net, p, macs) /\ r = Installed(p, d)

\* ... one of sdn_switch_13.py, to a host whose port it knows, ...
LearnedRule(r) ==
  /\ net = "sdn_switch" /\ r.at \in Switches(net)
  /\ r.match.dst \in Hosts(net) /\ DOMAIN r.match = {"in", "dst"}
  /\ learned[r.at][r.match.dst] # 0 /\ r.out = {Toward(r.at, r.match.dst)}

\* ... or one of a line of a script.
HighRule(r) == net = "dynamic" /\ r \in HighRules

RuleOK(r) ==
  /\ r.slice # "none"
  /\ IF net \in Learning THEN LearnedRule(r) ELSE DecidedRule(r) \/ HighRule(r)

RulesInv == \A r \in rules : RuleOK(r)

\* The port that a learning switch notes is right.
LEMMA LearnsRight ==
  ASSUME TrafficInv, KnownInv, NEW p \in packets, Live(p)
  PROVE  /\ LearnedRight(net, Learned(p))
         /\ net \in Learning => \A s \in Switches(net), h \in Hosts(net) :
                                  learned[s][h] # 0 => Learned(p)[s][h] # 0
<1>1. /\ net \in AllNets /\ Named(net, p) /\ p.at \in Area(net, p) /\ \E i : Hop(net, p, i, p.at, p.in)
  BY DEF TrafficInv, CopiesInv, CopyOK
<1>2. CASE net \in {"switch", "sdn_switch"}
  <2>1. net \in Learning /\ net # "hub"
    BY <1>2 DEF Learning
  <2>2. PICK i : LineHop(p, i, p.at, p.in)
    BY <1>1, <2>1, HopOf
  <2>3. p.src \in Hosts(net) /\ p.at \in Switches(net)
    BY <1>1, <2>1 DEF Named, Area, Learning
  <2>4. p.in = Toward(p.at, p.src) /\ p.in \in 1 .. 3
    BY <2>1, <2>2, <2>3, LineLinks DEF LineHop, Toward
  <2>5. /\ learned \in [Switches(net) -> [Hosts(net) \cup {"all"} -> 0 .. 3]]
        /\ \A s \in Switches(net) :
             learned[s]["all"] = 0 /\ \A h \in Hosts(net) : learned[s][h] \in {0, Toward(s, h)}
    BY <2>1 DEF KnownInv, LearnedRight
  <2>6. Learned(p) = [learned EXCEPT ![p.at][p.src] = p.in]
    BY <1>2 DEF Learned
  <2>7. "all" \notin Hosts(net)
    BY DEF Hosts, AllHosts
  <2>8. Learned(p) \in [Switches(net) -> [Hosts(net) \cup {"all"} -> 0 .. 3]]
    <3> DEFINE H == Hosts(net) \cup {"all"}
               row == [learned[p.at] EXCEPT ![p.src] = p.in]
    <3>0. learned[p.at] \in [H -> 0 .. 3]
      BY <2>3, <2>5
    <3>1. learned[p.at] \in [H -> 0 .. 3] /\ p.src \in H /\ p.in \in 0 .. 3
      BY <2>3, <2>4, <3>0
    <3>2. row \in [H -> 0 .. 3]
      BY <3>1
    <3>3. Learned(p) = [learned EXCEPT ![p.at] = row]
      BY <2>6
    <3> HIDE DEF H, row
    <3>4. [learned EXCEPT ![p.at] = row] \in [Switches(net) -> [H -> 0 .. 3]]
      BY <2>5, <3>2 DEF H
    <3>5. QED
      BY <3>3, <3>4 DEF H
  <2>9. \A s \in Switches(net), h \in Hosts(net) \cup {"all"} :
          Learned(p)[s][h] = IF s = p.at /\ h = p.src THEN p.in ELSE learned[s][h]
    BY <2>3, <2>5, <2>6
  <2>10. \A s \in Switches(net) : Learned(p)[s]["all"] = 0
    BY <2>3, <2>5, <2>7, <2>9
  <2>11. \A s \in Switches(net), h \in Hosts(net) : Learned(p)[s][h] \in {0, Toward(s, h)}
    BY <2>4, <2>5, <2>9
  <2>12. \A s \in Switches(net), h \in Hosts(net) : learned[s][h] # 0 => Learned(p)[s][h] # 0
    BY <2>4, <2>5, <2>9
  <2>13. QED
    BY <2>8, <2>10, <2>11, <2>12 DEF LearnedRight
<1>3. CASE net \notin {"switch", "sdn_switch"}
  BY <1>3 DEF Learned, KnownInv
<1>4. QED
  BY <1>2, <1>3

\* A rule that is not from a script sends each packet it catches where the controller would.
LEMMA CaughtAsDecided ==
  ASSUME TrafficInv, KnownInv, NEW p \in packets, NEW r, RuleOK(r), ~HighRule(r), Catches(r, p)
  PROVE  Live(p) /\ \E d \in Decision(net, p, Learned(p)) : d.out = r.out
<1>1. Live(p) /\ r.at = p.at /\ \A f \in DOMAIN r.match : r.match[f] = p[f]
  BY DEF Catches, RuleOK, Live
<1>2. /\ net \in AllNets /\ IsPacket(p) /\ Named(net, p) /\ p.at \in Area(net, p)
      /\ \E i : Hop(net, p, i, p.at, p.in)
  BY <1>1 DEF TrafficInv, CopiesInv, CopyOK
<1>3. CASE net \notin Learning
  <2>1. PICK p0, macs, d0 : IsPacket(p0) /\ d0 \in Decision(net, p0, macs) /\ r = Installed(p0, d0)
    BY <1>3 DEF RuleOK, DecidedRule
  <2>2. /\ r.at = p0.at /\ r.slice = Slice(net, p0) /\ r.match = d0.match /\ r.out = d0.out
    BY <2>1 DEF Installed
  <2>3. SameRule(net, p0, d0, p)
    BY <1>1, <2>2 DEF SameRule, Caught, Catches
  <2>4. PICK i : Hop(net, p, i, p.at, p.in)
    BY <1>2
  <2>5. \E d \in Decision(net, p, Learned(p)) : d.out = d0.out
    BY <1>1, <1>2, <1>3, <2>1, <2>3, <2>4, RuleAgrees DEF Live
  <2>6. QED
    BY <1>1, <2>2, <2>5
<1>4. CASE net \in Learning
  <2>1. /\ net = "sdn_switch" /\ r.at \in Switches(net) /\ r.match.dst \in Hosts(net)
               /\ DOMAIN r.match = {"in", "dst"}
        /\ learned[r.at][r.match.dst] # 0 /\ r.out = {Toward(r.at, r.match.dst)}
    BY <1>4 DEF RuleOK, LearnedRule
  <2>2. r.match["dst"] = p["dst"]
    BY <1>1, <2>1
  <2>3. r.match.dst = p.dst
    BY <2>2
  <2>4. /\ p.at \in Switches(net) /\ p.dst \in Hosts(net) /\ Learned(p)[p.at][p.dst] # 0
    BY <1>1, <1>4, <2>1, <2>3, LearnsRight
  <2>5. Learned(p)[p.at][p.dst] = Toward(p.at, p.dst)
    BY <1>1, <1>4, <2>4, LearnsRight DEF LearnedRight
  <2>6. Decision(net, p, Learned(p)) = AddAndSend(p, {"in", "dst"}, 1, {Toward(p.at, p.dst)}, TRUE)
    BY <2>1, <2>4, <2>5 DEF Decision, SdnSwitchDecision
  <2>7. r.out = {Toward(p.at, p.dst)}
    BY <1>1, <2>1, <2>3
  <2>8. PICK d \in AddAndSend(p, {"in", "dst"}, 1, {Toward(p.at, p.dst)}, TRUE) : TRUE
    BY DEF AddAndSend
  <2>9. d.out = {Toward(p.at, p.dst)}
    BY DEF AddAndSend
  <2>10. QED
    BY <1>1, <2>6, <2>7, <2>8, <2>9
<1>5. QED
  BY <1>3, <1>4

Pair == AllHosts \X AllHosts
ScriptLine == [at : {"r1", "r2"}, src : AllHosts, dst : AllHosts, out : SUBSET Nat]

\* The line of a script that lets packets of a host to another pass, and the one that drops them.
RouterOf(h) == IF h \in {"h1", "h2", "h3"} THEN "r1" ELSE "r2"
OpenLine(a, b) == [at |-> RouterOf(a), src |-> a, dst |-> b, out |-> Ports("dynamic", RouterOf(a))]
ShutLine(a, b) == [at |-> RouterOf(a), src |-> a, dst |-> b, out |-> {}]

Partners == {<<"h1", "h4">>, <<"h2", "h5">>, <<"h4", "h1">>, <<"h5", "h2">>}
Third == {<<"h3", "h6">>, <<"h6", "h3">>}
Strangers == {t \in {"h1", "h2", "h4", "h5"} \X Hosts("dynamic") : t[1] # t[2] /\ t \notin Partners}

\* The lines of a list of pairs at a switch.
RowOf(s, r, ts, out) ==
  s \in Seq(ScriptLine) /\ ToSet(s) = {[at |-> r, src |-> t[1], dst |-> t[2], out |-> out] : t \in ts}

\* What lines a row of a script has.
LEMMA LinesAre ==
  ASSUME NEW r, r \in {"r1", "r2"}, NEW pairs, pairs \in Seq(Pair), NEW out, out \in SUBSET Nat
  PROVE  RowOf(Lines(r, pairs, out), r, ToSet(pairs), out)
<1> DEFINE s == Lines(r, pairs, out)
<1>1. Len(pairs) \in Nat /\ DOMAIN pairs = 1 .. Len(pairs) /\ \A i \in DOMAIN pairs : pairs[i] \in Pair
  BY LenProperties
<1>2. /\ DOMAIN s = DOMAIN pairs
      /\ \A i \in DOMAIN pairs : s[i] = [at |-> r, src |-> pairs[i][1], dst |-> pairs[i][2], out |-> out]
  BY DEF Lines
<1>3. \A i \in DOMAIN pairs : s[i] \in ScriptLine
  <2>1. ASSUME NEW i \in DOMAIN pairs PROVE s[i] \in ScriptLine
    <3>1. pairs[i][1] \in AllHosts /\ pairs[i][2] \in AllHosts
      BY <1>1, <2>1 DEF Pair
    <3>2. [at |-> r, src |-> pairs[i][1], dst |-> pairs[i][2], out |-> out] \in ScriptLine
      BY <3>1 DEF ScriptLine
    <3>3. QED
      BY <1>2, <2>1, <3>2
  <2>2. QED
    BY <2>1
<1>4. s \in [1 .. Len(pairs) -> ScriptLine]
  <2>1. s = [i \in 1 .. Len(pairs) |-> s[i]]
    BY <1>1 DEF Lines
  <2>2. QED
    BY <1>1, <1>3, <2>1
<1>5. s \in Seq(ScriptLine)
  BY <1>1, <1>4, SeqDef
<1>6. ToSet(s) = {[at |-> r, src |-> t[1], dst |-> t[2], out |-> out] : t \in ToSet(pairs)}
  BY <1>2 DEF ToSet
<1>7. QED
  BY <1>5, <1>6 DEF RowOf

\* The pairs whose packets the scripts drop.
LEMMA PairLists ==
  /\ R1Drops \in Seq(Pair) /\ R2Drops \in Seq(Pair)
  /\ ToSet(R1Drops) = {t \in Strangers : t[1] \in {"h1", "h2"}}
  /\ ToSet(R2Drops) = {t \in Strangers : t[1] \in {"h4", "h5"}}
<1>1. Hosts("dynamic") = {"h1", "h2", "h3", "h4", "h5", "h6"}
  BY DynamicLinks
<1>2. R1Drops \in Seq(Pair) /\ R2Drops \in Seq(Pair)
  BY DEF R1Drops, R2Drops, Pair, AllHosts
<1>3. /\ DOMAIN R1Drops = 1 .. 8 /\ R1Drops[1] = <<"h1", "h2">> /\ R1Drops[2] = <<"h1", "h3">>
      /\ R1Drops[3] = <<"h1", "h5">> /\ R1Drops[4] = <<"h1", "h6">> /\ R1Drops[5] = <<"h2", "h1">>
      /\ R1Drops[6] = <<"h2", "h3">> /\ R1Drops[7] = <<"h2", "h4">> /\ R1Drops[8] = <<"h2", "h6">>
  BY DEF R1Drops
<1>4. /\ DOMAIN R2Drops = 1 .. 8 /\ R2Drops[1] = <<"h4", "h5">> /\ R2Drops[2] = <<"h4", "h6">>
      /\ R2Drops[3] = <<"h4", "h2">> /\ R2Drops[4] = <<"h4", "h3">> /\ R2Drops[5] = <<"h5", "h4">>
      /\ R2Drops[6] = <<"h5", "h6">> /\ R2Drops[7] = <<"h5", "h1">> /\ R2Drops[8] = <<"h5", "h3">>
  BY DEF R2Drops
<1>5. ToSet(R1Drops) = {<<"h1", "h2">>, <<"h1", "h3">>, <<"h1", "h5">>, <<"h1", "h6">>,
                        <<"h2", "h1">>, <<"h2", "h3">>, <<"h2", "h4">>, <<"h2", "h6">>}
  BY <1>3 DEF ToSet
<1>6. ToSet(R2Drops) = {<<"h4", "h5">>, <<"h4", "h6">>, <<"h4", "h2">>, <<"h4", "h3">>,
                        <<"h5", "h4">>, <<"h5", "h6">>, <<"h5", "h1">>, <<"h5", "h3">>}
  BY <1>4, SMTT(60) DEF ToSet
<1>7. {t \in Strangers : t[1] \in {"h1", "h2"}} =
        {<<"h1", "h2">>, <<"h1", "h3">>, <<"h1", "h5">>, <<"h1", "h6">>,
         <<"h2", "h1">>, <<"h2", "h3">>, <<"h2", "h4">>, <<"h2", "h6">>}
  BY <1>1 DEF Strangers, Partners
<1>8. {t \in Strangers : t[1] \in {"h4", "h5"}} =
        {<<"h4", "h5">>, <<"h4", "h6">>, <<"h4", "h2">>, <<"h4", "h3">>,
         <<"h5", "h4">>, <<"h5", "h6">>, <<"h5", "h1">>, <<"h5", "h3">>}
  BY <1>1 DEF Strangers, Partners
<1>9. QED
  BY <1>2, <1>5, <1>6, <1>7, <1>8

\* The lines both scripts have, and those of the third pair, which tell them apart.
Shared(l) ==
  \/ \E t \in Partners : l = OpenLine(t[1], t[2])
  \/ \E t \in Strangers : l = ShutLine(t[1], t[2])
ThirdOpen(l) == \E t \in Third : l = OpenLine(t[1], t[2])
ThirdShut(l) == \E t \in Third : l = ShutLine(t[1], t[2])

\* The rows that the two scripts are made of.
LEMMA Rows ==
  /\ RowOf(Opens("r1", << <<"h1", "h4">>, <<"h2", "h5">>, <<"h3", "h6">> >>), "r1",
           {<<"h1", "h4">>, <<"h2", "h5">>, <<"h3", "h6">>}, Ports("dynamic", "r1"))
  /\ RowOf(Opens("r1", << <<"h1", "h4">>, <<"h2", "h5">> >>), "r1",
           {<<"h1", "h4">>, <<"h2", "h5">>}, Ports("dynamic", "r1"))
  /\ RowOf(Drops("r1", R1Drops), "r1", {t \in Strangers : t[1] \in {"h1", "h2"}}, {})
  /\ RowOf(Drops("r1", << <<"h3", "h6">> >>), "r1", {<<"h3", "h6">>}, {})
  /\ RowOf(Opens("r2", << <<"h4", "h1">>, <<"h5", "h2">>, <<"h6", "h3">> >>), "r2",
           {<<"h4", "h1">>, <<"h5", "h2">>, <<"h6", "h3">>}, Ports("dynamic", "r2"))
  /\ RowOf(Opens("r2", << <<"h4", "h1">>, <<"h5", "h2">> >>), "r2",
           {<<"h4", "h1">>, <<"h5", "h2">>}, Ports("dynamic", "r2"))
  /\ RowOf(Drops("r2", R2Drops), "r2", {t \in Strangers : t[1] \in {"h4", "h5"}}, {})
  /\ RowOf(Drops("r2", << <<"h6", "h3">> >>), "r2", {<<"h6", "h3">>}, {})
<1>1. Ports("dynamic", "r1") \in SUBSET Nat /\ Ports("dynamic", "r2") \in SUBSET Nat
  <2>1. Ports("dynamic", "r1") = 1 .. 4 /\ Ports("dynamic", "r2") = 1 .. 4
    BY DynamicLinks
  <2>2. QED
    BY <2>1
<1>2. ASSUME NEW s \in Seq(Pair), NEW r \in {"r1", "r2"}
      PROVE  /\ RowOf(Opens(r, s), r, ToSet(s), Ports("dynamic", r))
             /\ RowOf(Drops(r, s), r, ToSet(s), {})
  <2>1. RowOf(Lines(r, s, Ports("dynamic", r)), r, ToSet(s), Ports("dynamic", r))
    BY <1>1, <1>2, LinesAre
  <2>2. RowOf(Lines(r, s, {}), r, ToSet(s), {})
    <3> DEFINE none == {}
    <3>1. none \in SUBSET Nat
      OBVIOUS
    <3> HIDE DEF none
    <3>2. RowOf(Lines(r, s, none), r, ToSet(s), none)
      BY <1>2, <3>1, LinesAre
    <3>3. QED
      BY <3>2 DEF none
  <2>3. QED
    BY <2>1, <2>2 DEF Opens, Drops
<1>4. /\ <<"h1", "h4">> \in Pair /\ <<"h2", "h5">> \in Pair /\ <<"h3", "h6">> \in Pair
      /\ <<"h4", "h1">> \in Pair /\ <<"h5", "h2">> \in Pair /\ <<"h6", "h3">> \in Pair
  BY DEF Pair, AllHosts
<1> DEFINE A == <<"h1", "h4">>
           B == <<"h2", "h5">>
           C == <<"h3", "h6">>
           D == <<"h4", "h1">>
           E == <<"h5", "h2">>
           F == <<"h6", "h3">>
<1>5. /\ A \in Pair /\ B \in Pair /\ C \in Pair /\ D \in Pair /\ E \in Pair /\ F \in Pair
  BY <1>4
<1> HIDE DEF A, B, C, D, E, F
<1>6. RowOf(Opens("r1", <<A, B, C>>), "r1", {A, B, C}, Ports("dynamic", "r1"))
      /\ RowOf(Opens("r1", <<A, B>>), "r1", {A, B}, Ports("dynamic", "r1"))
      /\ RowOf(Drops("r1", <<C>>), "r1", {C}, {})
  <2>1. /\ <<C>> \in Seq(Pair) /\ <<A, B>> \in Seq(Pair) /\ <<A, B, C>> \in Seq(Pair)
        /\ ToSet(<<C>>) = {C} /\ ToSet(<<A, B>>) = {A, B} /\ ToSet(<<A, B, C>>) = {A, B, C}
    BY <1>5 DEF ToSet
  <2>2. /\ RowOf(Opens("r1", <<A, B, C>>), "r1", ToSet(<<A, B, C>>), Ports("dynamic", "r1"))
        /\ RowOf(Opens("r1", <<A, B>>), "r1", ToSet(<<A, B>>), Ports("dynamic", "r1"))
        /\ RowOf(Drops("r1", <<C>>), "r1", ToSet(<<C>>), {})
    BY <1>2, <2>1
  <2>3. QED
    BY <2>1, <2>2
<1>7. RowOf(Opens("r2", <<D, E, F>>), "r2", {D, E, F}, Ports("dynamic", "r2"))
      /\ RowOf(Opens("r2", <<D, E>>), "r2", {D, E}, Ports("dynamic", "r2"))
      /\ RowOf(Drops("r2", <<F>>), "r2", {F}, {})
  <2>1. /\ <<F>> \in Seq(Pair) /\ <<D, E>> \in Seq(Pair) /\ <<D, E, F>> \in Seq(Pair)
        /\ ToSet(<<F>>) = {F} /\ ToSet(<<D, E>>) = {D, E} /\ ToSet(<<D, E, F>>) = {D, E, F}
    BY <1>5 DEF ToSet
  <2>2. /\ RowOf(Opens("r2", <<D, E, F>>), "r2", ToSet(<<D, E, F>>), Ports("dynamic", "r2"))
        /\ RowOf(Opens("r2", <<D, E>>), "r2", ToSet(<<D, E>>), Ports("dynamic", "r2"))
        /\ RowOf(Drops("r2", <<F>>), "r2", ToSet(<<F>>), {})
    BY <1>2, <2>1
  <2>3. QED
    BY <2>1, <2>2
<1>8. /\ RowOf(Drops("r1", R1Drops), "r1", {t \in Strangers : t[1] \in {"h1", "h2"}}, {})
      /\ RowOf(Drops("r2", R2Drops), "r2", {t \in Strangers : t[1] \in {"h4", "h5"}}, {})
  BY <1>2, PairLists
<1>9. QED
  BY <1>6, <1>7, <1>8 DEF A, B, C, D, E, F

\* The lines of the two scripts.
LEMMA ScenarioLines ==
  /\ SosScenario \in Seq(ScriptLine) /\ \A l : l \in ToSet(SosScenario) <=> Shared(l) \/ ThirdOpen(l)
  /\ CommonScenario \in Seq(ScriptLine) /\ \A l : l \in ToSet(CommonScenario) <=> Shared(l)
         \/ ThirdShut(l)
<1>0. PICK a1, a2, a3, a4, c1, c2, c3, c4 :
         /\ a1 = Opens("r1", << <<"h1", "h4">>, <<"h2", "h5">>, <<"h3", "h6">> >>)
         /\ a2 = Drops("r1", R1Drops)
         /\ a3 = Opens("r2", << <<"h4", "h1">>, <<"h5", "h2">>, <<"h6", "h3">> >>)
         /\ a4 = Drops("r2", R2Drops)
         /\ c1 = Opens("r1", << <<"h1", "h4">>, <<"h2", "h5">> >>)
         /\ c2 = Drops("r1", << <<"h3", "h6">> >>)
         /\ c3 = Opens("r2", << <<"h4", "h1">>, <<"h5", "h2">> >>)
         /\ c4 = Drops("r2", << <<"h6", "h3">> >>)
  OBVIOUS
<1>1. /\ RowOf(a1, "r1", {<<"h1", "h4">>, <<"h2", "h5">>, <<"h3", "h6">>}, Ports("dynamic", "r1"))
      /\ RowOf(c1, "r1", {<<"h1", "h4">>, <<"h2", "h5">>}, Ports("dynamic", "r1"))
      /\ RowOf(a2, "r1", {t \in Strangers : t[1] \in {"h1", "h2"}}, {})
      /\ RowOf(c2, "r1", {<<"h3", "h6">>}, {})
      /\ RowOf(a3, "r2", {<<"h4", "h1">>, <<"h5", "h2">>, <<"h6", "h3">>}, Ports("dynamic", "r2"))
      /\ RowOf(c3, "r2", {<<"h4", "h1">>, <<"h5", "h2">>}, Ports("dynamic", "r2"))
      /\ RowOf(a4, "r2", {t \in Strangers : t[1] \in {"h4", "h5"}}, {})
      /\ RowOf(c4, "r2", {<<"h6", "h3">>}, {})
  BY <1>0, Rows
<1>2. /\ a1 \in Seq(ScriptLine) /\ a2 \in Seq(ScriptLine) /\ a3 \in Seq(ScriptLine)
             /\ a4 \in Seq(ScriptLine)
      /\ c1 \in Seq(ScriptLine) /\ c2 \in Seq(ScriptLine) /\ c3 \in Seq(ScriptLine)
             /\ c4 \in Seq(ScriptLine)
  BY <1>1 DEF RowOf
<1>3. SosScenario = ((a1 \o a2) \o a3) \o a4
  BY <1>0 DEF SosScenario
<1>4. CommonScenario = ((((c1 \o a2) \o c2) \o c3) \o a4) \o c4
  BY <1>0 DEF CommonScenario
<1>5. \A s, t \in Seq(ScriptLine) : s \o t \in Seq(ScriptLine) /\ ToSet(s \o t) = ToSet(s) \cup ToSet(t)
  BY ConcatProperties, ToSetConcat
<1>6. SosScenario \in Seq(ScriptLine)
          /\ ToSet(SosScenario) = ToSet(a1) \cup ToSet(a2) \cup ToSet(a3) \cup ToSet(a4)
  <2>1. PICK x : x = a1 \o a2
    OBVIOUS
  <2>2. x \in Seq(ScriptLine) /\ ToSet(x) = ToSet(a1) \cup ToSet(a2)
    BY <1>2, <1>5, <2>1
  <2>3. PICK y : y = x \o a3
    OBVIOUS
  <2>4. y \in Seq(ScriptLine) /\ ToSet(y) = ToSet(x) \cup ToSet(a3)
    BY <1>2, <1>5, <2>2, <2>3
  <2>5. SosScenario = y \o a4
    BY <1>3, <2>1, <2>3
  <2>6. SosScenario \in Seq(ScriptLine) /\ ToSet(SosScenario) = ToSet(y) \cup ToSet(a4)
    BY <1>2, <1>5, <2>4, <2>5
  <2>7. QED
    BY <2>2, <2>4, <2>6
<1>7. CommonScenario \in Seq(ScriptLine) /\ ToSet(CommonScenario) =
        ToSet(c1) \cup ToSet(a2) \cup ToSet(c2) \cup ToSet(c3) \cup ToSet(a4) \cup ToSet(c4)
  <2>1. PICK x : x = c1 \o a2
    OBVIOUS
  <2>2. x \in Seq(ScriptLine) /\ ToSet(x) = ToSet(c1) \cup ToSet(a2)
    BY <1>2, <1>5, <2>1
  <2>3. PICK y : y = x \o c2
    OBVIOUS
  <2>4. y \in Seq(ScriptLine) /\ ToSet(y) = ToSet(x) \cup ToSet(c2)
    BY <1>2, <1>5, <2>2, <2>3
  <2>5. PICK z : z = y \o c3
    OBVIOUS
  <2>6. z \in Seq(ScriptLine) /\ ToSet(z) = ToSet(y) \cup ToSet(c3)
    BY <1>2, <1>5, <2>4, <2>5
  <2>7. PICK w : w = z \o a4
    OBVIOUS
  <2>8. w \in Seq(ScriptLine) /\ ToSet(w) = ToSet(z) \cup ToSet(a4)
    BY <1>2, <1>5, <2>6, <2>7
  <2>9. CommonScenario = w \o c4
    BY <1>4, <2>1, <2>3, <2>5, <2>7
  <2>10. CommonScenario \in Seq(ScriptLine) /\ ToSet(CommonScenario) = ToSet(w) \cup ToSet(c4)
    BY <1>2, <1>5, <2>8, <2>9
  <2>11. QED
    BY <2>2, <2>4, <2>6, <2>8, <2>10
<1>8. ASSUME NEW l
      PROVE  /\ (\E t \in Partners : l = OpenLine(t[1], t[2])) <=> l \in ToSet(c1) \/ l \in ToSet(c3)
             /\ (\E t \in Strangers : l = ShutLine(t[1], t[2])) <=> l \in ToSet(a2) \/ l \in ToSet(a4)
             /\ (\E t \in Third : l = ShutLine(t[1], t[2])) <=> l \in ToSet(c2) \/ l \in ToSet(c4)
             /\ (\E t \in Partners : l = OpenLine(t[1], t[2])) \/ (\E t \in Third : l = OpenLine(t[1],
                    t[2]))
                <=> l \in ToSet(a1) \/ l \in ToSet(a3)
  <2>1. \A t : t[1] \in {"h1", "h2", "h3"} =>
               /\ OpenLine(t[1], t[2]) = [at |-> "r1", src |-> t[1], dst |-> t[2],
                      out |-> Ports("dynamic", "r1")]
               /\ ShutLine(t[1], t[2]) = [at |-> "r1", src |-> t[1], dst |-> t[2], out |-> {}]
    BY DEF OpenLine, ShutLine, RouterOf
  <2>2. \A t : t[1] \in {"h4", "h5", "h6"} =>
               /\ OpenLine(t[1], t[2]) = [at |-> "r2", src |-> t[1], dst |-> t[2],
                      out |-> Ports("dynamic", "r2")]
               /\ ShutLine(t[1], t[2]) = [at |-> "r2", src |-> t[1], dst |-> t[2], out |-> {}]
    BY DEF OpenLine, ShutLine, RouterOf
  <2>3. (\E t \in Strangers : l = ShutLine(t[1], t[2])) <=> l \in ToSet(a2) \/ l \in ToSet(a4)
    <3>1. \A t \in Strangers : t[1] \in {"h1", "h2"} \/ t[1] \in {"h4", "h5"}
      BY DEF Strangers
    <3>2. \A t \in Strangers : t[1] \in {"h1", "h2"} =>
            ShutLine(t[1], t[2]) = [at |-> "r1", src |-> t[1], dst |-> t[2], out |-> {}]
      BY DEF ShutLine, RouterOf
    <3>3. \A t \in Strangers : t[1] \in {"h4", "h5"} =>
            ShutLine(t[1], t[2]) = [at |-> "r2", src |-> t[1], dst |-> t[2], out |-> {}]
      BY DEF ShutLine, RouterOf
    <3>4. l \in ToSet(a2) <=> \E t \in Strangers : t[1] \in {"h1", "h2"} /\ l = ShutLine(t[1], t[2])
      BY <1>1, <3>2 DEF RowOf
    <3>5. l \in ToSet(a4) <=> \E t \in Strangers : t[1] \in {"h4", "h5"} /\ l = ShutLine(t[1], t[2])
      BY <1>1, <3>3 DEF RowOf
    <3>6. QED
      BY <3>1, <3>4, <3>5
  <2>4. PICK A, B, C, D, E, F :
          /\ A = <<"h1", "h4">> /\ B = <<"h2", "h5">> /\ C = <<"h3", "h6">>
          /\ D = <<"h4", "h1">> /\ E = <<"h5", "h2">> /\ F = <<"h6", "h3">>
    OBVIOUS
  <2>5. Partners = {A, B, D, E} /\ Third = {C, F}
    BY <2>4 DEF Partners, Third
  <2>6. /\ A[1] \in {"h1", "h2", "h3"} /\ B[1] \in {"h1", "h2", "h3"} /\ C[1] \in {"h1", "h2", "h3"}
        /\ D[1] \in {"h4", "h5", "h6"} /\ E[1] \in {"h4", "h5", "h6"} /\ F[1] \in {"h4", "h5", "h6"}
    BY <2>4
  <2>7. /\ l \in ToSet(a1) <=> \E t \in {A, B, C} : l = [at |-> "r1", src |-> t[1], dst |-> t[2],
               out |-> Ports("dynamic", "r1")]
        /\ l \in ToSet(c1) <=> \E t \in {A, B} : l = [at |-> "r1", src |-> t[1], dst |-> t[2],
               out |-> Ports("dynamic", "r1")]
        /\ l \in ToSet(c2) <=> \E t \in {C} : l = [at |-> "r1", src |-> t[1], dst |-> t[2], out |-> {}]
        /\ l \in ToSet(a3) <=> \E t \in {D, E, F} : l = [at |-> "r2", src |-> t[1], dst |-> t[2],
               out |-> Ports("dynamic", "r2")]
        /\ l \in ToSet(c3) <=> \E t \in {D, E} : l = [at |-> "r2", src |-> t[1], dst |-> t[2],
               out |-> Ports("dynamic", "r2")]
        /\ l \in ToSet(c4) <=> \E t \in {F} : l = [at |-> "r2", src |-> t[1], dst |-> t[2], out |-> {}]
    <3>1. l \in ToSet(a1) <=> \E t \in {A, B, C} : l = [at |-> "r1", src |-> t[1], dst |-> t[2],
              out |-> Ports("dynamic", "r1")]
      BY <1>1, <2>4 DEF RowOf
    <3>2. l \in ToSet(c1) <=> \E t \in {A, B} : l = [at |-> "r1", src |-> t[1], dst |-> t[2],
              out |-> Ports("dynamic", "r1")]
      BY <1>1, <2>4 DEF RowOf
    <3>3. l \in ToSet(c2) <=> \E t \in {C} : l = [at |-> "r1", src |-> t[1], dst |-> t[2], out |-> {}]
      BY <1>1, <2>4 DEF RowOf
    <3>4. l \in ToSet(a3) <=> \E t \in {D, E, F} : l = [at |-> "r2", src |-> t[1], dst |-> t[2],
              out |-> Ports("dynamic", "r2")]
      BY <1>1, <2>4 DEF RowOf
    <3>5. l \in ToSet(c3) <=> \E t \in {D, E} : l = [at |-> "r2", src |-> t[1], dst |-> t[2],
              out |-> Ports("dynamic", "r2")]
      BY <1>1, <2>4 DEF RowOf
    <3>6. l \in ToSet(c4) <=> \E t \in {F} : l = [at |-> "r2", src |-> t[1], dst |-> t[2], out |-> {}]
      BY <1>1, <2>4 DEF RowOf
    <3>7. QED
      BY <3>1, <3>2, <3>3, <3>4, <3>5, <3>6
  <2>8. /\ l \in ToSet(a1) <=> \E t \in {A, B, C} : l = OpenLine(t[1], t[2])
        /\ l \in ToSet(c1) <=> \E t \in {A, B} : l = OpenLine(t[1], t[2])
        /\ l \in ToSet(c2) <=> \E t \in {C} : l = ShutLine(t[1], t[2])
        /\ l \in ToSet(a3) <=> \E t \in {D, E, F} : l = OpenLine(t[1], t[2])
        /\ l \in ToSet(c3) <=> \E t \in {D, E} : l = OpenLine(t[1], t[2])
        /\ l \in ToSet(c4) <=> \E t \in {F} : l = ShutLine(t[1], t[2])
    <3>1. /\ \A t \in {A, B, C} : OpenLine(t[1], t[2]) = [at |-> "r1", src |-> t[1], dst |-> t[2],
                 out |-> Ports("dynamic", "r1")]
          /\ \A t \in {D, E, F} : OpenLine(t[1], t[2]) = [at |-> "r2", src |-> t[1], dst |-> t[2],
                 out |-> Ports("dynamic", "r2")]
          /\ ShutLine(C[1], C[2]) = [at |-> "r1", src |-> C[1], dst |-> C[2], out |-> {}]
          /\ ShutLine(F[1], F[2]) = [at |-> "r2", src |-> F[1], dst |-> F[2], out |-> {}]
      BY <2>6 DEF OpenLine, ShutLine, RouterOf
    <3>2. QED
      BY <2>7, <3>1
  <2>9. QED
    BY <2>3, <2>5, <2>8
<1>9. QED
  BY <1>6, <1>7, <1>8 DEF Shared, ThirdOpen, ThirdShut

\* A line is for hosts of the network, at the switch of the sender; common_scenario.sh has
\* one line for each pair, and sos_scenario.sh the same one, but for the third pair.
LEMMA LineFacts ==
  ASSUME NEW l, l \in ScriptLines
  PROVE  /\ l.src \in Hosts("dynamic") /\ l.dst \in Hosts("dynamic")
         /\ l.at = RouterOf(l.src) /\ l.out \subseteq Ports("dynamic", l.at)
         /\ l \in ToSet(CommonScenario) => l = IF <<l.src, l.dst>> \in Partners THEN OpenLine(l.src,
                l.dst)
                                               ELSE ShutLine(l.src, l.dst)
         /\ ~ThirdPair(l) => l \in ToSet(CommonScenario)
<1>1. Hosts("dynamic") = {"h1", "h2", "h3", "h4", "h5", "h6"}
  BY DynamicLinks
<1>2. PICK t : /\ t = <<t[1], t[2]>> /\ t[1] \in Hosts("dynamic") /\ t[2] \in Hosts("dynamic")
               /\ t \in Third \/ t \in Partners \/ t \in Strangers
               /\ t \in Partners => l = OpenLine(t[1], t[2])
               /\ t \in Strangers => l = ShutLine(t[1], t[2])
               /\ t \in Third => l = OpenLine(t[1], t[2]) \/ l = ShutLine(t[1], t[2])
               /\ l \in ToSet(CommonScenario) /\ t \in Third => l = ShutLine(t[1], t[2])
  <2>1. \A t \in Partners : t = <<t[1], t[2]>> /\ t[1] \in Hosts("dynamic") /\ t[2] \in Hosts("dynamic")
                            /\ t \notin Strangers /\ t \notin Third
    BY <1>1 DEF Partners, Strangers, Third
  <2>2. \A t \in Third : t = <<t[1], t[2]>> /\ t[1] \in Hosts("dynamic") /\ t[2] \in Hosts("dynamic")
                            /\ t \notin Strangers /\ t \notin Partners
    BY <1>1 DEF Partners, Strangers, Third
  <2>3. \A t \in Strangers : t = <<t[1], t[2]>> /\ t[1] \in Hosts("dynamic") /\ t[2] \in Hosts("dynamic")
                            /\ t \notin Third /\ t \notin Partners
    BY <1>1 DEF Partners, Strangers, Third
  <2>4. CASE Shared(l)
    <3>1. CASE \E t \in Partners : l = OpenLine(t[1], t[2])
      BY <2>1, <3>1
    <3>2. CASE \E t \in Strangers : l = ShutLine(t[1], t[2])
      BY <2>3, <3>2
    <3>3. QED
      BY <2>4, <3>1, <3>2 DEF Shared
  <2>5. CASE l \in ToSet(CommonScenario) /\ ~Shared(l)
    <3>1. ThirdShut(l)
      BY <2>5, ScenarioLines
    <3>2. PICK t \in Third : l = ShutLine(t[1], t[2])
      BY <3>1 DEF ThirdShut
    <3>3. QED
      BY <2>2, <3>2
  <2>6. CASE l \notin ToSet(CommonScenario) /\ ~Shared(l)
    <3>1. ThirdOpen(l)
      BY <2>6, ScenarioLines DEF ScriptLines
    <3>2. PICK t \in Third : l = OpenLine(t[1], t[2])
      BY <3>1 DEF ThirdOpen
    <3>3. QED
      BY <2>2, <2>6, <3>2
  <2>7. QED
    BY <2>4, <2>5, <2>6
<1>3. /\ l.src = t[1] /\ l.dst = t[2] /\ l.at = RouterOf(t[1]) /\ l.out \in {{}, Ports("dynamic",
             RouterOf(t[1]))}
      /\ t = <<l.src, l.dst>>
  BY <1>2 DEF OpenLine, ShutLine
<1>4. t \notin Partners \/ t \notin Third
  BY DEF Partners, Third
<1>5. l \in ToSet(CommonScenario) => l = IF <<l.src, l.dst>> \in Partners THEN OpenLine(l.src, l.dst)
                                         ELSE ShutLine(l.src, l.dst)
  <2>1. t \in Strangers => t \notin Partners
    BY DEF Strangers
  <2>2. QED
    BY <1>2, <1>3, <1>4, <2>1
<1>6. ~ThirdPair(l) => l \in ToSet(CommonScenario)
  <2>1. ASSUME ~ThirdPair(l) PROVE t \notin Third
    BY <1>3, <2>1 DEF ThirdPair, Third
  <2>2. ASSUME t \notin Third PROVE Shared(l)
    BY <1>2, <2>2 DEF Shared
  <2>3. QED
    BY <2>1, <2>2, ScenarioLines
<1>7. QED
  BY <1>2, <1>3, <1>5, <1>6

\* A rule of a line, and that two such rules for the same packets are of the same line, unless
\* it is for the third pair.
LEMMA HighRuleFacts ==
  ASSUME NEW l, l \in ScriptLines, NEW m, m \in ScriptLines
  PROVE  /\ LineRule(l).at = l.at /\ LineRule(l).slice = "all" /\ LineRule(l).prio = 65500
         /\ LineRule(l).lasting /\ LineRule(l).out = l.out
         /\ DOMAIN LineRule(l).match = {"src", "dst"}
         /\ LineRule(l).match["src"] = l.src /\ LineRule(l).match["dst"] = l.dst
         /\ LineRule(l).match = LineRule(m).match =>
              /\ l.src = m.src /\ l.dst = m.dst
              /\ ~ThirdPair(l) \/ (l \in ToSet(CommonScenario) /\ m \in ToSet(CommonScenario)) => l = m
<1>1. \A k \in {l, m} : /\ LineRule(k).at = k.at /\ LineRule(k).slice = "all" /\ LineRule(k).prio = 65500
                        /\ LineRule(k).lasting /\ LineRule(k).out = k.out
                        /\ LineRule(k).match = [f \in {"src", "dst"} |-> k[f]]
  BY DEF LineRule, Match
<1>2. \A k \in {l, m} : /\ DOMAIN LineRule(k).match = {"src", "dst"}
                        /\ LineRule(k).match["src"] = k.src /\ LineRule(k).match["dst"] = k.dst
  BY <1>1
<1>3. ASSUME LineRule(l).match = LineRule(m).match PROVE l.src = m.src /\ l.dst = m.dst
  BY <1>2, <1>3
<1>4. ASSUME LineRule(l).match = LineRule(m).match,
             ~ThirdPair(l) \/ (l \in ToSet(CommonScenario) /\ m \in ToSet(CommonScenario))
      PROVE  l = m
  <2>1. l \in ToSet(CommonScenario) /\ m \in ToSet(CommonScenario)
    BY <1>3, <1>4, LineFacts DEF ThirdPair
  <2>2. QED
    BY <1>3, <1>4, <2>1, LineFacts
<1>5. QED
  BY <1>1, <1>2, <1>3, <1>4

----------------------------------------------------------------------------
\* Where the scripts are.
ScriptInv ==
  /\ setup \in 0 .. SetUp
  /\ timer \in {<<"sleep", 1>>, <<"sleep", 2>>} \cup {<<"sos", i>> : i \in DOMAIN SosScenario}
                 \cup {<<"common", i>> : i \in 1 .. SetUp}
  /\ net # "dynamic" => timer = <<"sleep", 1>> /\ setup = SetUp
  /\ timer # <<"sleep", 1>> => emergency

\* What the first run of common_scenario.sh, or for the third pair the one after the latest
\* emergency, has written is in force.
WrittenInv ==
  net = "dynamic" =>
    /\ \A q, r \in rules : q.prio = 65500 /\ r.prio = 65500 /\ q.at = r.at /\ q.match = r.match => q = r
    /\ \A i \in DOMAIN CommonScenario :
         /\ i < setup
         /\ ThirdPair(CommonScenario[i]) =>
              timer = <<"sleep", 1>> \/ (timer[1] = "common" /\ i < timer[2])
         => LineRule(CommonScenario[i]) \in rules

SlicesInv == TrafficInv /\ KnownInv /\ RulesInv /\ ScriptInv /\ WrittenInv

\* A rule stays right while nothing learned is forgotten.
LEMMA RuleStays ==
  ASSUME net' = net, NEW r, RuleOK(r),
         net \in Learning => \A s \in Switches(net), h \in Hosts(net) :
                               learned[s][h] # 0 => learned'[s][h] # 0
  PROVE  RuleOK(r)'
<1>1. DecidedRule(r) => DecidedRule(r)'
  BY DEF DecidedRule, Installed
<1>2. LearnedRule(r) /\ net \in Learning => LearnedRule(r)'
  BY DEF LearnedRule
<1>3. QED
  BY <1>1, <1>2 DEF RuleOK, HighRule

\* A line of a script replaces the rule of the same pair, and no other.
LEMMA Writing ==
  ASSUME RulesInv, WrittenInv, net = "dynamic", net' = net, setup # 0,
         NEW l, l \in ScriptLines, rules' = Added(rules, LineRule(l))
  PROVE  /\ RulesInv'
         /\ LineRule(l) \in rules'
         /\ \A q, r \in rules' : q.prio = 65500 /\ r.prio = 65500 /\ q.at = r.at
                /\ q.match = r.match => q = r
         /\ \A m \in ScriptLines : LineRule(m) \in rules /\ (LineRule(m).match = LineRule(l).match
                => m = l)
                                    => LineRule(m) \in rules'
<1>1. /\ rules' = {q \in rules : ~(q.at = LineRule(l).at /\ q.prio = LineRule(l).prio
                                   /\ q.slice = LineRule(l).slice
                                          /\ q.match = LineRule(l).match)} \cup {LineRule(l)}
  BY DEF Added
<1>2. LineRule(l).slice = "all" /\ LineRule(l).prio = 65500
  BY HighRuleFacts
<1>3. RulesInv'
  <2>1. LineRule(l) \in HighRules
    BY DEF HighRules
  <2>2. RuleOK(LineRule(l))'
    BY <1>2, <2>1 DEF RuleOK, HighRule, Learning
  <2>3. \A q \in rules : RuleOK(q)'
    <3>1. ASSUME NEW q \in rules PROVE RuleOK(q)'
      <4>1. RuleOK(q) /\ net \notin Learning
        BY DEF RulesInv, Learning
      <4>2. QED
        BY <4>1, RuleStays
    <3>2. QED
      BY <3>1
  <2>4. QED
    BY <1>1, <2>2, <2>3 DEF RulesInv
<1>4. ASSUME NEW q \in rules, q.prio = 65500 PROVE q.slice = "all"
  <2>2. \A p : Slice(net, p) = "all"
    BY DEF Slice
  <2>3. RuleOK(q) /\ net \notin Learning
    BY <1>4 DEF RulesInv, Learning
  <2>4. CASE DecidedRule(q)
    BY <2>2, <2>4 DEF DecidedRule, Installed
  <2>5. CASE HighRule(q)
    BY <2>5, HighRuleFacts DEF HighRule, HighRules
  <2>6. QED
    BY <2>3, <2>4, <2>5 DEF RuleOK
<1>5. ASSUME NEW q \in rules', NEW r \in rules', q.prio = 65500, r.prio = 65500, q.at = r.at,
          q.match = r.match
      PROVE  q = r
  <2>1. CASE q \in rules /\ r \in rules
    BY <1>5, <2>1 DEF WrittenInv
  <2>2. CASE q = LineRule(l) /\ r # q
    BY <1>1, <1>2, <1>4, <1>5, <2>2
  <2>3. CASE r = LineRule(l) /\ r # q
    BY <1>1, <1>2, <1>4, <1>5, <2>3
  <2>4. QED
    BY <1>1, <2>1, <2>2, <2>3
<1>6. QED
  BY <1>1, <1>3, <1>5

\* The scripts have lines, and SetUp is behind the last one.
LEMMA ScriptLengths ==
  /\ Len(SosScenario) \in Nat \ {0} /\ DOMAIN SosScenario = 1 .. Len(SosScenario)
  /\ Len(CommonScenario) \in Nat /\ DOMAIN CommonScenario = 1 .. Len(CommonScenario)
  /\ SetUp \in Nat \ {0} /\ DOMAIN CommonScenario = 1 .. SetUp - 1
  /\ \A i \in DOMAIN SosScenario : SosScenario[i] \in ScriptLines
  /\ \A i \in DOMAIN CommonScenario : CommonScenario[i] \in ScriptLines
         /\ CommonScenario[i] \in ToSet(CommonScenario)
<1>1. SosScenario \in Seq(ScriptLine) /\ CommonScenario \in Seq(ScriptLine)
  BY ScenarioLines
<1>2. PICK x : x = OpenLine("h1", "h4")
  OBVIOUS
<1>3. Shared(x)
  <2>1. PICK t : t = <<"h1", "h4">>
    OBVIOUS
  <2>2. t \in Partners /\ x = OpenLine(t[1], t[2])
    BY <1>2, <2>1 DEF Partners
  <2>3. QED
    BY <2>2 DEF Shared
<1>4. x \in ToSet(SosScenario)
  BY <1>3, ScenarioLines
<1>5. /\ Len(SosScenario) \in Nat /\ DOMAIN SosScenario = 1 .. Len(SosScenario)
      /\ Len(CommonScenario) \in Nat /\ DOMAIN CommonScenario = 1 .. Len(CommonScenario)
  BY <1>1, LenProperties
<1>6. DOMAIN SosScenario # {}
  BY <1>4 DEF ToSet
<1>7. Len(SosScenario) # 0
  BY <1>5, <1>6
<1>8. SetUp \in Nat \ {0} /\ DOMAIN CommonScenario = 1 .. SetUp - 1
  BY <1>5 DEF SetUp
<1>9. QED
  BY <1>5, <1>7, <1>8 DEF ScriptLines, ToSet

\* The networks start in the inductive invariant.
LEMMA SlicesBegin ==
  SliceInit => SlicesInv
<1> SUFFICES ASSUME SliceInit PROVE SlicesInv
  OBVIOUS
<1>1. net \in AllNets
  BY SlicedNetworkAssumption DEF SliceInit, AllNets
<1>2. TrafficInv
  <2>1. sent \in Seq(Header) /\ packets = {} /\ got = {} /\ twice = FALSE
    BY DEF SliceInit
  <2>2. QED
    BY <1>1, <2>1 DEF TrafficInv, CopiesInv, OneLiveCopy, TakersInv, TakenOnce
<1>3. KnownInv
  <2>1. ASSUME net \in Learning
        PROVE  learned = [s \in Switches(net) |-> [h \in Hosts(net) \cup {"all"} |-> 0]]
    BY <2>1 DEF SliceInit
  <2>2. QED
    BY <2>1 DEF KnownInv, LearnedRight
<1>4. RulesInv
  <2>1. CASE net # "first"
    BY <2>1 DEF SliceInit, InitialRules, RulesInv
  <2>2. CASE net = "first"
    <3>1. ASSUME NEW r \in rules PROVE RuleOK(r)
      <4>1. PICK t \in (DOMAIN FirstMiddle) \X (1 .. 4) :
              /\ FirstMiddle[t[1]][t[2]] # 0
              /\ r = [at |-> t[1], slice |-> "middle", match |-> Match([in |-> t[2]], {"in"}), prio |-> 2,
                      out |-> {FirstMiddle[t[1]][t[2]]}, lasting |-> TRUE]
        BY <2>2 DEF SliceInit, InitialRules
      <4>2. PICK s, k : s = t[1] /\ k = t[2]
        OBVIOUS
      <4>3. PICK p : p = [id |-> 1, src |-> "h2", dst |-> "h5", proto |-> "udp", port |-> 0,
                          at |-> s, in |-> k, asked |-> TRUE]
        OBVIOUS
      <4>4. IsPacket(p) /\ p.at = s /\ p.in = k
        BY <4>3 DEF IsPacket
      <4>5. s \in {"s2", "s4", "s7"} /\ k \in 1 .. 4 /\ FirstMiddle[s][k] # 0
        BY <4>1, <4>2 DEF FirstMiddle
      <4>6. FirstSlice(s, k) = "middle"
        BY <4>5 DEF FirstSlice, FirstMiddle
      <4>7. Slice("first", p) = "middle"
        BY <4>4, <4>6 DEF Slice
      <4>8. Match([in |-> k], {"in"}) = Match(p, {"in"})
        BY <4>4 DEF Match
      <4>9. PICK d : d = [match |-> Match(p, {"in"}), prio |-> 2, out |-> {FirstMiddle[s][k]},
                lasting |-> TRUE,
                          installs |-> TRUE, sends |-> {TRUE}]
        OBVIOUS
      <4>10. d \in FirstMiddleSlice(p)
        BY <4>4, <4>5, <4>9 DEF FirstMiddleSlice, TableDecision, AddAndSend
      <4>11. \A macs : d \in Decision("first", p, macs)
        BY <4>7, <4>10 DEF Decision, FirstDecision
      <4>12. r = Installed(p, d)
        BY <2>2, <4>1, <4>2, <4>4, <4>7, <4>8, <4>9 DEF Installed
      <4>13. DecidedRule(r)
        BY <2>2, <4>4, <4>11, <4>12 DEF DecidedRule
      <4>14. r.slice # "none"
        BY <4>1
      <4>15. QED
        BY <2>2, <4>13, <4>14 DEF RuleOK, Learning
    <3>2. QED
      BY <3>1 DEF RulesInv
  <2>3. QED
    BY <2>1, <2>2
<1>5. ScriptInv
  BY ScriptLengths DEF SliceInit, ScriptInv
<1>6. WrittenInv
  BY ScriptLengths DEF SliceInit, WrittenInv, InitialRules
<1>7. QED
  BY <1>2, <1>3, <1>4, <1>5, <1>6 DEF SlicesInv

\* A step that neither learns nor writes, and at most lets rules expire.
LEMMA QuietKeeps ==
  ASSUME SlicesInv, net' = net, learned' = learned, UNCHANGED scripts,
         rules' \subseteq rules, \A r \in rules : r.lasting => r \in rules'
  PROVE  KnownInv' /\ RulesInv' /\ ScriptInv' /\ WrittenInv'
<1>1. KnownInv'
  BY DEF SlicesInv, KnownInv, LearnedRight
<1>2. RulesInv'
  <2>1. ASSUME NEW r \in rules' PROVE RuleOK(r)'
    <3>1. RuleOK(r)
      BY <2>1 DEF SlicesInv, RulesInv
    <3>2. QED
      BY <3>1, RuleStays
  <2>2. QED
    BY <2>1 DEF RulesInv
<1>3. ScriptInv'
  BY DEF SlicesInv, ScriptInv, scripts
<1>4. WrittenInv'
  <2>1. \A i \in DOMAIN CommonScenario : LineRule(CommonScenario[i]).lasting
    BY ScriptLengths, HighRuleFacts
  <2>2. timer' = timer /\ setup' = setup
    BY DEF scripts
  <2>3. QED
    BY <2>1, <2>2 DEF SlicesInv, WrittenInv
<1>5. QED
  BY <1>1, <1>2, <1>3, <1>4

\* A switch that follows a rule keeps it, ...
LEMMA ForwardKeeps ==
  ASSUME SlicesInv, NEW p \in packets, SwitchForwards(p)
  PROVE  SlicesInv'
<1>1. PICK r \in Best(p) : Output(p, r.out)
  BY DEF SwitchForwards
<1>2. net' = net /\ sent' = sent /\ learned' = learned /\ rules' = rules /\ UNCHANGED scripts
  BY DEF SwitchForwards
<1>3. r \in rules /\ Catches(r, p) /\ RuleOK(r)
  BY DEF Best, SlicesInv, RulesInv
<1>4. CopyOK(p) /\ net \in AllNets /\ Live(p) /\ TrafficInv /\ KnownInv
  BY <1>3 DEF SlicesInv, TrafficInv, CopiesInv, Catches, RuleOK, Live
<1>5. PICK i : Hop(net, p, i, p.at, p.in)
  BY <1>4 DEF CopyOK
<1>6. i \in 1 .. 3
  BY <1>4, <1>5, CourseIsSimple DEF CopyOK, Named
<1>7. ASSUME NEW q \in r.out \ {p.in} PROVE Onward(net, p, i, q)
  <2>1. CASE HighRule(r)
    <3>1. PICK l \in ScriptLines : r = LineRule(l)
      BY <2>1 DEF HighRule, HighRules
    <3>2. r.out = l.out /\ r.at = l.at /\ l.out \subseteq Ports("dynamic", l.at) /\ net = "dynamic"
      <4>1. r.out = l.out /\ r.at = l.at
        BY <3>1 DEF LineRule
      <4>2. l.out \subseteq Ports("dynamic", l.at)
        BY <3>1, LineFacts
      <4>3. QED
        BY <2>1, <4>1, <4>2 DEF HighRule
    <3>3. r.at = p.at
      BY <1>3 DEF Catches
    <3>4. q \in Ports("dynamic", p.at) /\ q # p.in
      BY <1>7, <3>2, <3>3
    <3>5. QED
      BY <1>4, <1>5, <1>6, <3>2, <3>4, DynamicStep DEF CopyOK
  <2>2. CASE ~HighRule(r)
    <3>1. PICK d \in Decision(net, p, Learned(p)) : d.out = r.out
      BY <1>3, <1>4, <2>2, CaughtAsDecided
    <3>2. LearnedRight(net, Learned(p))
      BY <1>4, LearnsRight
    <3>3. QED
      BY <1>4, <1>5, <1>7, <3>1, <3>2, DecisionLeadsOn DEF CopyOK, Live
  <2>3. QED
    BY <2>1, <2>2
<1>8. TrafficInv'
  BY <1>1, <1>2, <1>4, <1>5, <1>7, OutputKeeps
<1>9. QED
  BY <1>2, <1>8, QuietKeeps DEF SlicesInv

\* ... and so does a controller that answers.
LEMMA PacketInKeeps ==
  ASSUME SlicesInv, NEW p \in packets, PacketInHandler(p)
  PROVE  SlicesInv'
<1>1. net' = net /\ sent' = sent /\ learned' = Learned(p) /\ UNCHANGED scripts
  BY DEF PacketInHandler
<1>2. CopyOK(p) /\ net \in AllNets /\ Live(p) /\ TrafficInv /\ KnownInv
  BY DEF SlicesInv, TrafficInv, CopiesInv, CopyOK, PacketInHandler
<1>3. /\ LearnedRight(net, Learned(p))
      /\ net \in Learning => \A s \in Switches(net), h \in Hosts(net) :
                               learned[s][h] # 0 => learned'[s][h] # 0
  BY <1>1, <1>2, LearnsRight
<1>4. KnownInv'
  BY <1>1, <1>3 DEF KnownInv
<1>5. ScriptInv'
  BY <1>1 DEF SlicesInv, ScriptInv, scripts
<1>6. PICK i : Hop(net, p, i, p.at, p.in)
  BY <1>2 DEF CopyOK
<1>7. ASSUME NEW r \in rules PROVE RuleOK(r)'
  BY <1>1, <1>3, RuleStays DEF SlicesInv, RulesInv
<1>8. timer' = timer /\ setup' = setup
  BY <1>1 DEF scripts
<1>9. CASE /\ Decision(net, p, Learned(p)) = {}
           /\ packets' = packets \ {p} /\ UNCHANGED <<rules, got, twice>>
  <2>1. TrafficInv'
    BY <1>1, <1>2, <1>9, DropKeeps
  <2>2. RulesInv'
    BY <1>7, <1>9 DEF RulesInv
  <2>3. WrittenInv'
    BY <1>1, <1>8, <1>9 DEF SlicesInv, WrittenInv
  <2>4. QED
    BY <1>4, <1>5, <2>1, <2>2, <2>3 DEF SlicesInv
<1>10. ASSUME NEW d \in Decision(net, p, Learned(p)),
              rules' = IF d.installs THEN Added(rules, Installed(p, d)) ELSE rules,
              \/ Output(p, d.out)
              \/ packets' = packets \ {p} /\ UNCHANGED <<got, twice>>
       PROVE  SlicesInv'
  <2>1. \A q \in d.out \ {p.in} : Onward(net, p, i, q)
    <3>1. ASSUME NEW q \in d.out \ {p.in} PROVE Onward(net, p, i, q)
      BY <1>2, <1>3, <1>6, <1>10, DecisionLeadsOn DEF CopyOK, Live
    <3>2. QED
      BY <3>1
  <2>2. TrafficInv'
    <3>1. CASE Output(p, d.out)
      BY <1>1, <1>2, <1>6, <2>1, <3>1, OutputKeeps
    <3>2. CASE packets' = packets \ {p} /\ UNCHANGED <<got, twice>>
      BY <1>1, <1>2, <3>2, DropKeeps
    <3>3. QED
      BY <1>10, <3>1, <3>2
  <2>3. PICK r : r = Installed(p, d)
    OBVIOUS
  <2>4. /\ r.at = p.at /\ r.slice = Slice(net, p) /\ r.match = d.match /\ r.prio = d.prio /\ r.out = d.out
    BY <2>3 DEF Installed
  <2>5. d.installs => RuleOK(r)'
    <3>1. CASE net \notin Learning
      <4>1. r = Installed(p, d)'
        BY <1>1, <2>3 DEF Installed
      <4>2. DecidedRule(r)'
        BY <1>1, <1>2, <1>10, <4>1 DEF DecidedRule, CopyOK
      <4>3. QED
        BY <1>1, <1>2, <2>4, <3>1, <4>2 DEF RuleOK, Live
    <3>2. CASE net \in Learning /\ d.installs
      <4>1. p.at \in Switches(net) /\ Named(net, p)
        BY <1>2, <3>2 DEF CopyOK, Area, Learning
      <4>2. /\ net = "sdn_switch" /\ p.dst \in Hosts(net) /\ learned'[p.at][p.dst] # 0
            /\ d.match = Match(p, {"in", "dst"}) /\ d.out = {Toward(p.at, p.dst)}
        BY <1>1, <1>3, <1>10, <3>2, <4>1, LearnedOut
      <4>3. DOMAIN d.match = {"in", "dst"} /\ d.match["dst"] = p["dst"]
        BY <4>2 DEF Match
      <4>4. DOMAIN r.match = {"in", "dst"} /\ r.match.dst = p.dst
        BY <2>4, <4>3
      <4>5. LearnedRule(r)'
        BY <1>1, <2>4, <4>1, <4>2, <4>4 DEF LearnedRule
      <4>6. QED
        BY <1>1, <1>2, <2>4, <3>2, <4>5 DEF RuleOK, Live
    <3>3. QED
      BY <3>1, <3>2
  <2>6. RulesInv'
    BY <1>7, <1>10, <2>3, <2>5 DEF RulesInv, Added
  <2>7. WrittenInv'
    <3>1. CASE net = "dynamic"
      <4>1. d \in AddAndSend(p, {"dst"}, 1, {DynamicEnds[p.at][p.dst]}, TRUE)
        BY <1>10, <3>1 DEF Decision, DynamicDecision
      <4>2. r.prio = 1
        BY <2>4, <4>1 DEF AddAndSend
      <4>3. \A q : q.prio = 65500 => (q \in rules' <=> q \in rules)
        BY <1>10, <2>3, <4>2 DEF Added
      <4>4. \A k \in DOMAIN CommonScenario : LineRule(CommonScenario[k]).prio = 65500
        BY ScriptLengths, HighRuleFacts
      <4>5. QED
        BY <1>1, <1>8, <3>1, <4>3, <4>4 DEF SlicesInv, WrittenInv
    <3>2. QED
      BY <1>1, <3>1 DEF WrittenInv
  <2>8. QED
    BY <1>4, <1>5, <2>2, <2>6, <2>7 DEF SlicesInv
<1>11. QED
  BY <1>9, <1>10 DEF PacketInHandler

\* The steps of the scripts.
LEMMA ScriptsKeep ==
  ASSUME SlicesInv, NetworkStarts \/ SetupLine \/ Alarm \/ SosLine \/ AllClear \/ CommonLine
      \/ EmergencyEnds
  PROVE  SlicesInv'
<1> DEFINE C == CommonScenario
           S == SosScenario
           kept(i) == ThirdPair(C[i]) => timer = <<"sleep", 1>> \/ (timer[1] = "common" /\ i < timer[2])
           there(i) == LineRule(C[i]) \in rules
           apart == \A q, r \in rules : q.prio = 65500 /\ r.prio = 65500 /\ q.at = r.at
               /\ q.match = r.match => q = r
<1>1. /\ setup \in 0 .. SetUp
      /\ timer \in {<<"sleep", 1>>, <<"sleep", 2>>} \cup {<<"sos", i>> : i \in DOMAIN S}
                     \cup {<<"common", i>> : i \in 1 .. SetUp}
      /\ net # "dynamic" => timer = <<"sleep", 1>> /\ setup = SetUp
      /\ timer # <<"sleep", 1>> => emergency
  BY DEF SlicesInv, ScriptInv
<1>2. /\ SetUp \in Nat \ {0} /\ DOMAIN C = 1 .. SetUp - 1
      /\ Len(S) \in Nat \ {0} /\ DOMAIN S = 1 .. Len(S)
      /\ \A i \in DOMAIN S : S[i] \in ScriptLines
      /\ \A i \in DOMAIN C : C[i] \in ScriptLines /\ C[i] \in ToSet(C)
  BY ScriptLengths
<1>3. /\ net = "dynamic" /\ net' = net /\ learned' = learned /\ UNCHANGED traffic
      /\ SetupLine \/ SosLine \/ CommonLine \/ rules' = rules
  <2>1. NetworkStarts \/ SetupLine => setup # SetUp
    BY <1>2 DEF NetworkStarts, SetupLine
  <2>2. SosLine \/ AllClear \/ CommonLine \/ EmergencyEnds => timer # <<"sleep", 1>>
    BY DEF SosLine, AllClear, CommonLine, EmergencyEnds
  <2>3. net = "dynamic"
    BY <1>1, <2>1, <2>2 DEF Alarm
  <2>4. QED
    BY <2>3 DEF NetworkStarts, SetupLine, Alarm, SosLine, AllClear, CommonLine, EmergencyEnds, traffic
<1>4. TrafficInv'
  <2>1. packets' = packets /\ sent' = sent /\ got' = got /\ twice' = twice
    BY <1>3 DEF traffic
  <2>2. QED
    BY <1>3, <2>1, DropKeeps DEF SlicesInv
<1>5. KnownInv'
  BY <1>3 DEF SlicesInv, KnownInv, LearnedRight
<1>6. apart /\ \A i \in DOMAIN C : i < setup /\ kept(i) => there(i)
  BY <1>3 DEF SlicesInv, WrittenInv
<1>7. SUFFICES /\ RulesInv' /\ ScriptInv' /\ apart'
               /\ \A i \in DOMAIN C : i < setup' /\ kept(i)' => there(i)'
  BY <1>4, <1>5 DEF SlicesInv, WrittenInv
<1>8. ASSUME rules' = rules PROVE RulesInv' /\ apart'
  <2>1. ASSUME NEW r \in rules' PROVE RuleOK(r)'
    <3>1. RuleOK(r)
      BY <1>8, <2>1 DEF SlicesInv, RulesInv
    <3>2. QED
      BY <1>3, <3>1, RuleStays
  <2>2. QED
    BY <1>6, <1>8, <2>1 DEF RulesInv
<1>9. ASSUME NEW l \in ScriptLines, setup # 0, Write(l)
      PROVE  /\ RulesInv' /\ apart' /\ LineRule(l) \in rules'
             /\ \A i \in DOMAIN C : there(i) /\ (~ThirdPair(C[i]) \/ l \in ToSet(C)) => there(i)'
  <2>1. rules' = Added(rules, LineRule(l))
    BY <1>9 DEF Write, LineRule
  <2>2. /\ RulesInv' /\ LineRule(l) \in rules' /\ apart'
        /\ \A m \in ScriptLines : LineRule(m) \in rules /\ (LineRule(m).match = LineRule(l).match
               => m = l)
                                    => LineRule(m) \in rules'
    BY <1>3, <1>9, <2>1, Writing DEF SlicesInv
  <2>3. \A i \in DOMAIN C : ~ThirdPair(C[i]) \/ l \in ToSet(C) =>
          (LineRule(C[i]).match = LineRule(l).match => C[i] = l)
    BY <1>2, HighRuleFacts
  <2>4. QED
    BY <1>2, <2>2, <2>3
<1>10. CASE NetworkStarts
  BY <1>1, <1>2, <1>8, <1>10 DEF NetworkStarts, ScriptInv
<1>11. CASE SetupLine
  <2>1. setup \in DOMAIN C /\ setup # 0 /\ Write(C[setup]) /\ setup' = setup + 1
            /\ UNCHANGED <<emergency, timer>>
    BY <1>2, <1>11 DEF SetupLine
  <2>2. ScriptInv'
    BY <1>1, <1>2, <1>3, <2>1 DEF ScriptInv
  <2>3. ASSUME NEW i \in DOMAIN C, i < setup', kept(i)' PROVE there(i)'
    <3>1. CASE i = setup
      BY <1>2, <1>9, <2>1, <3>1
    <3>2. CASE i < setup
      BY <1>2, <1>6, <1>9, <2>1, <2>3, <3>2
    <3>3. QED
      BY <1>1, <1>2, <2>1, <2>3, <3>1, <3>2
  <2>4. QED
    BY <1>2, <1>9, <2>1, <2>2, <2>3
<1>12. CASE Alarm
  <2>1. rules' = rules /\ setup' = setup /\ timer' = <<"sos", 1>> /\ emergency'
    BY <1>12 DEF Alarm
  <2>2. ScriptInv'
    BY <1>1, <1>2, <1>3, <2>1 DEF ScriptInv
  <2>3. \A i \in DOMAIN C : kept(i)' => ~ThirdPair(C[i])
    BY <2>1
  <2>4. QED
    BY <1>6, <1>8, <2>1, <2>2, <2>3
<1>13. CASE SosLine
  <2>1. /\ timer[1] = "sos" /\ Write(S[timer[2]]) /\ setup' = setup /\ emergency' = emergency
        /\ timer' = IF timer[2] = Len(S) THEN <<"sleep", 2>> ELSE <<"sos", timer[2] + 1>>
    BY <1>13 DEF SosLine
  <2>2. PICK k \in DOMAIN S : timer = <<"sos", k>>
    BY <1>1, <2>1
  <2>3. Write(S[k]) /\ timer' = IF k = Len(S) THEN <<"sleep", 2>> ELSE <<"sos", k + 1>>
    BY <2>1, <2>2
  <2>4. ScriptInv'
    <3>1. CASE k = Len(S)
      BY <1>1, <1>2, <1>3, <2>1, <2>2, <2>3, <3>1 DEF ScriptInv
    <3>2. CASE k # Len(S)
      <4>1. k + 1 \in DOMAIN S
        BY <1>2, <3>2
      <4>2. QED
        BY <1>1, <1>2, <1>3, <2>1, <2>2, <2>3, <3>2, <4>1 DEF ScriptInv
    <3>3. QED
      BY <3>1, <3>2
  <2>5. timer' # <<"sleep", 1>> /\ timer'[1] # "common"
    BY <2>3
  <2>6. CASE setup = 0
    <3>1. rules' = rules
      BY <2>3, <2>6 DEF Write
    <3>2. QED
      BY <1>2, <1>8, <2>1, <2>4, <2>6, <3>1
  <2>7. CASE setup # 0
    <3>1. \A i \in DOMAIN C : i < setup' /\ kept(i)' => there(i) /\ ~ThirdPair(C[i])
      BY <1>6, <2>1, <2>5
    <3>2. QED
      BY <1>2, <1>9, <2>2, <2>3, <2>4, <2>7, <3>1
  <2>8. QED
    BY <2>6, <2>7
<1>14. CASE AllClear
  <2>1. rules' = rules /\ setup' = setup /\ timer = <<"sleep", 2>> /\ timer' = <<"common", 1>>
            /\ emergency' = emergency
    BY <1>14 DEF AllClear
  <2>2. ScriptInv'
    BY <1>1, <1>2, <1>3, <2>1 DEF ScriptInv
  <2>3. \A i \in DOMAIN C : kept(i)' => ~ThirdPair(C[i])
    BY <1>2, <2>1
  <2>4. QED
    BY <1>6, <1>8, <2>1, <2>2, <2>3
<1>15. CASE CommonLine
  <2>1. /\ timer[1] = "common" /\ timer[2] \in DOMAIN C /\ Write(C[timer[2]]) /\ setup' = setup
        /\ timer' = <<"common", timer[2] + 1>> /\ emergency' = emergency
    BY <1>15 DEF CommonLine
  <2>2. PICK k \in 1 .. SetUp : timer = <<"common", k>>
    BY <1>1, <2>1
  <2>3. k \in DOMAIN C /\ Write(C[k]) /\ timer' = <<"common", k + 1>>
    BY <2>1, <2>2
  <2>4. ScriptInv'
    <3>1. k + 1 \in 1 .. SetUp
      BY <1>2, <2>3
    <3>2. QED
      BY <1>1, <1>2, <1>3, <2>1, <2>2, <2>3, <3>1 DEF ScriptInv
  <2>5. CASE setup = 0
    <3>1. rules' = rules
      BY <2>3, <2>5 DEF Write
    <3>2. QED
      BY <1>2, <1>8, <2>1, <2>4, <2>5, <3>1
  <2>6. CASE setup # 0
    <3>1. ASSUME NEW i \in DOMAIN C, i < setup', kept(i)' PROVE there(i)'
      <4>1. CASE i = k
        BY <1>2, <1>9, <2>3, <2>6, <4>1
      <4>2. CASE i # k
        <5>1. timer'[1] = "common" /\ timer'[2] = k + 1 /\ timer' # <<"sleep", 1>>
          BY <2>3
        <5>2. ThirdPair(C[i]) => timer[1] = "common" /\ i < timer[2]
          BY <1>2, <2>2, <2>3, <3>1, <4>2, <5>1
        <5>3. there(i)
          BY <1>6, <2>1, <3>1, <5>2
        <5>4. QED
          BY <1>2, <1>9, <2>3, <2>6, <5>3
      <4>3. QED
        BY <4>1, <4>2
    <3>2. QED
      BY <1>2, <1>9, <2>3, <2>4, <2>6, <3>1
  <2>7. QED
    BY <2>5, <2>6
<1>16. CASE EmergencyEnds
  <2>1. rules' = rules /\ setup' = setup /\ timer = <<"common", SetUp>> /\ timer' = <<"sleep", 1>>
    BY <1>16 DEF EmergencyEnds
  <2>2. ScriptInv'
    BY <1>1, <1>2, <1>3, <2>1 DEF ScriptInv
  <2>3. \A i \in DOMAIN C : kept(i)
    BY <1>2, <2>1
  <2>4. QED
    BY <1>6, <1>8, <2>1, <2>2, <2>3
<1>17. QED
  BY <1>10, <1>11, <1>12, <1>13, <1>14, <1>15, <1>16

\* Every step keeps the inductive invariant.
LEMMA SlicesGoOn ==
  SlicesInv /\ [SliceNext]_sliceVars => SlicesInv'
<1> SUFFICES ASSUME SlicesInv, [SliceNext]_sliceVars PROVE SlicesInv'
  OBVIOUS
<1>1. CASE HostSends
  <2>1. TrafficInv'
    BY <1>1, SendKeeps DEF SlicesInv
  <2>2. net' = net /\ learned' = learned /\ UNCHANGED scripts /\ rules' = rules
    BY <1>1 DEF HostSends
  <2>3. QED
    BY <2>1, <2>2, QuietKeeps DEF SlicesInv
<1>2. CASE \E p \in packets : SwitchForwards(p) \/ SwitchAsks(p) \/ PacketInHandler(p)
  <2>1. PICK p \in packets : SwitchForwards(p) \/ SwitchAsks(p) \/ PacketInHandler(p)
    BY <1>2
  <2>2. CASE SwitchAsks(p)
    <3>1. TrafficInv'
      BY <2>2, AskKeeps DEF SlicesInv
    <3>2. net' = net /\ learned' = learned /\ UNCHANGED scripts /\ rules' = rules
      BY <2>2 DEF SwitchAsks
    <3>3. QED
      BY <3>1, <3>2, QuietKeeps DEF SlicesInv
  <2>3. QED
    BY <2>1, <2>2, ForwardKeeps, PacketInKeeps
<1>3. CASE \E r \in rules : RuleExpires(r)
  <2>1. PICK r \in rules : RuleExpires(r)
    BY <1>3
  <2>2. /\ net' = net /\ learned' = learned /\ UNCHANGED scripts /\ rules' = rules \ {r} /\ ~r.lasting
        /\ packets' = packets /\ sent' = sent /\ got' = got /\ twice' = twice
    BY <2>1 DEF RuleExpires, traffic
  <2>3. TrafficInv'
    BY <2>2, DropKeeps DEF SlicesInv
  <2>4. QED
    BY <2>2, <2>3, QuietKeeps DEF SlicesInv
<1>4. CASE NetworkStarts \/ SetupLine \/ Alarm \/ SosLine \/ AllClear \/ CommonLine \/ EmergencyEnds
  BY <1>4, ScriptsKeep
<1>5. CASE UNCHANGED sliceVars
  <2>1. /\ net' = net /\ learned' = learned /\ UNCHANGED scripts /\ rules' = rules
        /\ packets' = packets /\ sent' = sent /\ got' = got /\ twice' = twice
    BY <1>5 DEF sliceVars, scripts
  <2>2. TrafficInv'
    BY <2>1, DropKeeps DEF SlicesInv
  <2>3. QED
    BY <2>1, <2>2, QuietKeeps DEF SlicesInv
<1>6. QED
  BY <1>1, <1>2, <1>3, <1>4, <1>5 DEF SliceNext

\* The inductive invariant: every copy of a packet is on the one way the controllers mean it to
\* go or in no slice, rules send where the controllers would, and the scripts' rules are there.
THEOREM SlicesCorrect ==
  SliceSpec => []SlicesInv
BY SlicesBegin, SlicesGoOn, PTL DEF SliceSpec

\* A packet crosses only switches of its slice and is taken only by a host of that slice
\* (the tables of the controllers and the entries of FlowVisor).
THEOREM SlicesAreApartHolds ==
  SliceSpec => []SlicesAreApart
<1>1. SlicesInv => SlicesAreApart
  BY DEF SlicesInv, TrafficInv, CopiesInv, CopyOK, TakersInv, SlicesAreApart
<1>2. QED
  BY <1>1, SlicesCorrect, PTL

\* A rule sends the packets it catches where the controller would send them now (add_flow).
THEOREM RulesAgreeHolds ==
  SliceSpec => []RulesAgree
<1>1. SlicesInv => RulesAgree
  <2>1. SUFFICES ASSUME SlicesInv, NEW p \in packets, NEW r \in Best(p), r.prio < 65500
                 PROVE  \E d \in Decision(net, p, Learned(p)) : d.out \ {p.in} = r.out \ {p.in}
    BY DEF RulesAgree
  <2>2. r \in rules /\ Catches(r, p) /\ RuleOK(r) /\ TrafficInv /\ KnownInv
    <3>1. r \in rules /\ Catches(r, p)
      BY DEF Best
    <3>2. QED
      BY <2>1, <3>1 DEF SlicesInv, RulesInv
  <2>3. ~HighRule(r)
    <3>1. ASSUME HighRule(r) PROVE FALSE
      <4>1. PICK l \in ScriptLines : r = LineRule(l)
        BY <3>1 DEF HighRule, HighRules
      <4>2. r.prio = 65500
        BY <4>1 DEF LineRule
      <4>3. QED
        BY <2>1, <4>2
    <3>2. QED
      BY <3>1
  <2>4. PICK d \in Decision(net, p, Learned(p)) : d.out = r.out
    BY <2>2, <2>3, CaughtAsDecided
  <2>5. QED
    BY <2>4
<1>2. QED
  BY <1>1, SlicesCorrect, PTL

\* No host takes a packet twice, although switches flood on a topology with cycles.
THEOREM TakenOnceHolds ==
  SliceSpec => []TakenOnce
<1>1. SlicesInv => TakenOnce
  BY DEF SlicesInv, TrafficInv
<1>2. QED
  BY <1>1, SlicesCorrect, PTL

\* A packet that meets the rule of a line meets no other.
LEMMA BestIsTheLine ==
  ASSUME SlicesInv, net = "dynamic", NEW l, l \in ScriptLines, LineRule(l) \in rules,
         NEW x, x.src = l.src, x.dst = l.dst, x.at = l.at
  PROVE  Best(x) = {LineRule(l)}
<1>1. /\ LineRule(l).at = l.at /\ LineRule(l).slice = "all" /\ LineRule(l).prio = 65500
      /\ DOMAIN LineRule(l).match = {"src", "dst"}
      /\ LineRule(l).match["src"] = l.src /\ LineRule(l).match["dst"] = l.dst
  BY HighRuleFacts
<1>2. \A q \in rules : (q.prio = 1 /\ ~HighRule(q)) \/ HighRule(q)
  <2>1. ASSUME NEW q \in rules, ~HighRule(q) PROVE q.prio = 1
    <3>1. DecidedRule(q)
      BY <2>1 DEF SlicesInv, RulesInv, RuleOK, Learning
    <3>2. PICK p, macs, d : d \in Decision(net, p, macs) /\ q = Installed(p, d)
      BY <3>1 DEF DecidedRule
    <3>3. d \in AddAndSend(p, {"dst"}, 1, {DynamicEnds[p.at][p.dst]}, TRUE)
      BY <3>2 DEF Decision, DynamicDecision
    <3>4. QED
      BY <3>2, <3>3 DEF AddAndSend, Installed
  <2>2. QED
    BY <2>1
<1>3. \A q \in rules : HighRule(q) => \E m \in ScriptLines : q = LineRule(m)
  BY DEF HighRule, HighRules
<1>4. \A q \in rules : q.prio <= 65500 /\ (q.prio >= 65500 => HighRule(q) /\ q.prio = 65500)
  <2>1. \A q \in rules : HighRule(q) => q.prio = 65500
    BY <1>3 DEF LineRule
  <2>2. QED
    BY <1>2, <2>1
<1>5. Slice(net, x) = "all"
  BY DEF Slice
<1>6. Catches(LineRule(l), x)
  <2>1. x["src"] = l.src /\ x["dst"] = l.dst
    OBVIOUS
  <2>2. QED
    BY <1>1, <1>5, <2>1 DEF Catches
<1>7. ASSUME NEW r \in rules, Catches(r, x), HighRule(r) PROVE r = LineRule(l)
  <2>1. PICK m \in ScriptLines : r = LineRule(m)
    BY <1>3, <1>7
  <2>2. /\ r.at = m.at /\ r.prio = 65500 /\ r.match = [f \in {"src", "dst"} |-> m[f]]
    BY <2>1 DEF LineRule, Match
  <2>3. r.match["src"] = x["src"] /\ r.match["dst"] = x["dst"] /\ r.at = x.at
    BY <1>7, <2>2 DEF Catches
  <2>4. m["src"] = l["src"] /\ m["dst"] = l["dst"]
    BY <2>2, <2>3
  <2>5. LineRule(l).match = [f \in {"src", "dst"} |-> l[f]]
    BY DEF LineRule, Match
  <2>6. r.match = LineRule(l).match
    BY <2>2, <2>4, <2>5
  <2>7. QED
    BY <1>1, <1>7, <2>2, <2>3, <2>6 DEF SlicesInv, WrittenInv
<1>8. \A r \in Best(x) : r \in rules /\ Catches(r, x) /\ LineRule(l).prio <= r.prio
  BY <1>6 DEF Best
<1>9. LineRule(l) \in Best(x)
  BY <1>1, <1>4, <1>6 DEF Best
<1>10. QED
  BY <1>1, <1>4, <1>7, <1>8, <1>9

\* In the dynamic scenario only partners reach each other while rules are rewritten, and the third
\* pair is cut off outside an emergency (timer, sos_scenario.sh, common_scenario.sh).
THEOREM PairsAreApartHolds ==
  SliceSpec => []PairsAreApart
<1>1. SlicesInv => PairsAreApart
  <2> SUFFICES ASSUME SlicesInv, net = "dynamic", setup = SetUp PROVE PairsAreApart
    BY DEF PairsAreApart
  <2> DEFINE first(a, b) == [src |-> a, dst |-> b, at |-> Router(net, a), in |-> 2, proto |-> "udp"]
             open(a, b) == \E r \in Best(first(a, b)) : r.out # {}
  <2>1. Hosts(net) = {"h1", "h2", "h3", "h4", "h5", "h6"} /\ \A a \in Hosts(net) : Router(net, a) =
            RouterOf(a)
    BY DynamicLinks DEF Link, Router, RouterOf
  <2>2. Ports("dynamic", "r1") # {} /\ Ports("dynamic", "r2") # {}
    BY DynamicLinks
  <2>3. /\ DOMAIN CommonScenario = 1 .. SetUp - 1 /\ SetUp \in Nat \ {0}
        /\ \A i \in DOMAIN CommonScenario : CommonScenario[i] \in ScriptLines
    BY ScriptLengths
  <2>4. ASSUME NEW l \in ToSet(CommonScenario), ThirdPair(l) => ~emergency
        PROVE  l \in ScriptLines /\ LineRule(l) \in rules
    <3>1. PICK i \in DOMAIN CommonScenario : l = CommonScenario[i]
      BY DEF ToSet
    <3>2. i < setup /\ (ThirdPair(l) => timer = <<"sleep", 1>>)
      BY <2>3, <2>4 DEF SlicesInv, ScriptInv
    <3>3. QED
      BY <2>3, <3>1, <3>2 DEF SlicesInv, WrittenInv
  <2>5. ASSUME NEW a \in Hosts(net), NEW b, NEW l \in ToSet(CommonScenario), ThirdPair(l) => ~emergency,
               l.src = a, l.dst = b
        PROVE  open(a, b) <=> l.out # {}
    <3>1. PICK x : x = first(a, b)
      OBVIOUS
    <3>2. l.at = RouterOf(l.src) /\ l \in ScriptLines /\ LineRule(l) \in rules
      BY <2>4, <2>5, LineFacts
    <3>3. x.src = l.src /\ x.dst = l.dst /\ x.at = l.at
      BY <2>1, <2>5, <3>1, <3>2
    <3>4. Best(x) = {LineRule(l)}
      BY <3>2, <3>3, BestIsTheLine
    <3>5. LineRule(l).out = l.out
      BY DEF LineRule
    <3>6. QED
      BY <3>1, <3>4, <3>5
  <2>6. \A t \in Partners : OpenLine(t[1], t[2]) \in ToSet(CommonScenario)
    BY ScenarioLines DEF Shared
  <2>7. \A t \in Strangers : ShutLine(t[1], t[2]) \in ToSet(CommonScenario)
    BY ScenarioLines DEF Shared
  <2>8. \A t \in Third : ShutLine(t[1], t[2]) \in ToSet(CommonScenario)
    BY ScenarioLines DEF ThirdShut
  <2>9. ASSUME NEW a \in {"h1", "h2", "h4", "h5"}, NEW b \in Hosts(net) \ {a}
        PROVE  open(a, b) <=> {a, b} \in {{"h1", "h4"}, {"h2", "h5"}}
    <3>0. PICK t : t = <<a, b>>
      OBVIOUS
    <3>1. t = <<a, b>> /\ t[1] = a /\ t[2] = b
      BY <3>0
    <3>2. {a, b} \in {{"h1", "h4"}, {"h2", "h5"}} <=> t \in Partners
      BY <2>1, <3>1 DEF Partners
    <3>3. CASE t \in Partners
      <4>1. PICK l : l = OpenLine(a, b)
        OBVIOUS
      <4>2. l \in ToSet(CommonScenario)
        BY <2>6, <3>1, <3>3, <4>1
      <4>3. l.src = a /\ l.dst = b /\ l.out = Ports("dynamic", RouterOf(a))
        BY <4>1 DEF OpenLine
      <4>4. l.out # {} /\ ~ThirdPair(l)
        BY <2>2, <4>3 DEF RouterOf, ThirdPair
      <4>5. open(a, b)
        BY <2>1, <2>5, <4>2, <4>3, <4>4
      <4>6. QED
        BY <3>2, <3>3, <4>5
    <3>4. CASE t \notin Partners
      <4>1. t \in Strangers
        BY <3>1, <3>4 DEF Strangers
      <4>2. PICK l : l = ShutLine(a, b)
        OBVIOUS
      <4>3. l \in ToSet(CommonScenario)
        BY <2>7, <3>1, <4>1, <4>2
      <4>4. l.src = a /\ l.dst = b /\ l.out = {} /\ ~ThirdPair(l)
        BY <4>2 DEF ShutLine, ThirdPair
      <4>5. ~open(a, b)
        BY <2>1, <2>5, <4>3, <4>4
      <4>6. QED
        BY <3>2, <3>4, <4>5
    <3>5. QED
      BY <3>3, <3>4
  <2>10. ASSUME ~emergency PROVE ~open("h3", "h6") /\ ~open("h6", "h3")
    <3>1. ASSUME NEW t \in Third PROVE ~open(t[1], t[2])
      <4>1. PICK l : l = ShutLine(t[1], t[2])
        OBVIOUS
      <4>2. l \in ToSet(CommonScenario) /\ l.src = t[1] /\ l.dst = t[2] /\ l.out = {}
        BY <2>8, <4>1 DEF ShutLine
      <4>3. t[1] \in Hosts(net)
        BY <2>1 DEF Third
      <4>4. QED
        BY <2>5, <2>10, <4>2, <4>3
    <3>2. PICK s, t : s = <<"h3", "h6">> /\ t = <<"h6", "h3">>
      OBVIOUS
    <3>3. s \in Third /\ t \in Third /\ s[1] = "h3" /\ s[2] = "h6" /\ t[1] = "h6" /\ t[2] = "h3"
      BY <3>2 DEF Third
    <3>4. QED
      BY <3>1, <3>3
  <2>11. QED
    BY <2>9, <2>10 DEF PairsAreApart
<1>2. QED
  BY <1>1, SlicesCorrect, PTL
=============================================================================
