----------------------- MODULE ServiceMigrationProofs -----------------------
(***************************************************************************)
(* Proofs about ServiceMigration for any number of requests and signals:   *)
(* what the counters promise, and what may go wrong.                       *)
(***************************************************************************)
EXTENDS ServiceMigration, SequenceTheorems, TLAPS

Alive == {"start", "recv", "init", "serve", "reply"}
Settled == {"recv", "serve", "reply"}

\* Every variable holds a value of its type.
TypeOK ==
  /\ script \in {"add", "kill", "switch", "sleep", "end", "done", "aborted"}
  /\ old \in Hosts
  /\ kills \in 0 .. Kills
  /\ phase \in [Hosts -> Alive \cup {"none", "dead"}]
  /\ counter \in [Hosts -> Nat]
  /\ pending \in [Hosts -> BOOLEAN]
  /\ state \in [Hosts -> Seq(Nat)]
  /\ flow \in Hosts
  /\ request \in Hosts \cup {"s1", Nowhere}
  /\ response \in Nat
  /\ client \in {"send", "wait"}
  /\ sent \in Nat /\ received \in Nat /\ atFirst \in Nat

\* Where the two servers are, by where the script is.  The server that is replaced serves in the
\* first migration; in the second one it may still wait for a counter.
Stages ==
  /\ script = "add" => kills = 0 /\ phase[new] = "none"
  /\ script \in {"add", "kill"} /\ old = "h2" => phase["h2"] \in Served
  /\ script \in {"add", "kill"} /\ old = "h3" => phase["h3"] \in Settled \cup {"dead"}
  /\ script \in {"kill", "switch", "sleep", "aborted"} => phase[new] \in Alive
  /\ script \in {"switch", "sleep"} => phase[old] = "none"
  /\ script = "aborted" => old = "h3" /\ phase["h3"] = "dead"
  /\ script \in {"end", "done"} => old = "h2" /\ kills = 0 /\ phase["h3"] = "none"

\* A server has a counter to go on from only after it has received one.
CountersStart ==
  \A h \in Hosts :
    /\ phase[h] \in {"start", "recv", "dead"} => counter[h] = 0
    /\ phase[h] = "reply" => counter[h] > 0

\* Only the old server is signalled, and what it sends goes to the new one and was counted after
\* the first signal of this migration.
SignalsAreOfNow ==
  /\ \A h \in Hosts : pending[h] => h = old /\ script = "kill" /\ kills > 0 /\ phase[h] \in Served
  /\ state[old] = <<>>
  /\ kills = 0 => state[new] = <<>>
  /\ script = "kill" /\ kills > 0 => counter[old] >= atFirst
  /\ \A k \in DOMAIN state[new] : state[new][k] >= atFirst

\* Until the first server is removed every request is on its way to it, or answered.
ClientIsServed ==
  script \in {"add", "kill"} /\ old = "h2" =>
    /\ flow = "h2" /\ request # "h3"
    /\ client = "wait" => request # Nowhere \/ response # 0 \/ phase["h2"] = "reply"

MigrationInv == Stages /\ CountersStart /\ SignalsAreOfNow /\ ClientIsServed

----------------------------------------------------------------------------
\* What is left of a queue of counters when its first one is taken.
LEMMA TailOf ==
  ASSUME NEW s \in Seq(Nat), s # <<>>
  PROVE  /\ Tail(s) \in Seq(Nat) /\ Head(s) \in Nat
         /\ 1 \in DOMAIN s /\ Head(s) = s[1]
         /\ \A k \in DOMAIN Tail(s) : \E j \in DOMAIN s : Tail(s)[k] = s[j]
<1>1. Len(s) \in Nat /\ Len(s) # 0 /\ DOMAIN s = 1 .. Len(s)
  BY LenProperties, EmptySeq
<1>2. /\ Tail(s) \in Seq(Nat) /\ Head(s) \in Nat /\ Len(Tail(s)) = Len(s) - 1
      /\ \A i \in 1 .. Len(Tail(s)) : Tail(s)[i] = s[i + 1]
  BY HeadTailProperties
<1>3. DOMAIN Tail(s) = 1 .. Len(Tail(s))
  BY <1>2, LenProperties
<1>4. Head(s) = s[1]
  BY <1>1
<1>5. QED
  BY <1>1, <1>2, <1>3, <1>4

\* One more counter on the way.
LEMMA AppendOf ==
  ASSUME NEW s \in Seq(Nat), NEW x \in Nat
  PROVE  /\ Append(s, x) \in Seq(Nat)
         /\ \A k \in DOMAIN Append(s, x) : Append(s, x)[k] = x \/ \E j \in DOMAIN s : Append(s, x)[k] = s[j]
<1>1. Len(s) \in Nat /\ DOMAIN s = 1 .. Len(s)
  BY LenProperties
<1>2. /\ Append(s, x) \in Seq(Nat) /\ Len(Append(s, x)) = Len(s) + 1
      /\ \A i \in 1 .. Len(s) : Append(s, x)[i] = s[i]
      /\ Append(s, x)[Len(s) + 1] = x
  BY AppendProperties
<1>3. DOMAIN Append(s, x) = 1 .. (Len(s) + 1)
  BY <1>2, LenProperties
<1>4. QED
  BY <1>1, <1>2, <1>3

\* The variables have their types in every state, for any number of requests and signals.
THEOREM TypeCorrect == Spec => []TypeOK
<1> USE DEF service, traffic, Hosts, Alive, Served
<1>1. Init => TypeOK
  <2> SUFFICES ASSUME Init PROVE TypeOK
    OBVIOUS
  <2>1. state \in [Hosts -> Seq(Nat)] /\ pending \in [Hosts -> BOOLEAN]
    BY EmptySeq DEF Init
  <2>2. QED
    BY <2>1, MigrationAssumption DEF Init, TypeOK, Nowhere
<1>2. TypeOK /\ [Next]_vars => TypeOK'
  <2> SUFFICES ASSUME TypeOK, [Next]_vars PROVE TypeOK'
    OBVIOUS
  <2>0. new \in Hosts
    BY DEF new, Other
  <2>1. CASE AddServer \/ ModFlow \/ KillFails
    <3>1. CASE AddServer
      BY <2>0, <3>1 DEF AddServer, TypeOK
    <3>2. CASE ModFlow
      BY <2>0, <3>2 DEF ModFlow, TypeOK
    <3>3. CASE KillFails
      BY <3>3 DEF KillFails, TypeOK
    <3>4. QED
      BY <2>1, <3>1, <3>2, <3>3
  <2>2. CASE Kill
    <3>1. pending' = pending \/ pending' = [pending EXCEPT ![old] = TRUE]
      BY <2>2 DEF Kill
    <3>2. pending' \in [Hosts -> BOOLEAN]
      BY <3>1 DEF TypeOK
    <3>3. phase' \in [Hosts -> Alive \cup {"none", "dead"}] /\ kills' \in 0 .. Kills /\ atFirst' \in Nat
      BY <2>2, MigrationAssumption DEF Kill, TypeOK
    <3>4. QED
      BY <2>2, <3>2, <3>3 DEF Kill, TypeOK
  <2>3. CASE RemoveOld \/ End
    <3>1. PICK h \in Hosts : RemoveServer(h)
      BY <2>3 DEF RemoveOld, End, TypeOK
    <3>2. pending' \in [Hosts -> BOOLEAN] /\ phase' \in [Hosts -> Alive \cup {"none", "dead"}]
          /\ request' \in Hosts \cup {"s1", Nowhere}
      BY <3>1 DEF RemoveServer, TypeOK
    <3>3. QED
      BY <2>3, <3>2 DEF RemoveOld, End, TypeOK
  <2>4. CASE Sleep
    BY <2>0, <2>4, MigrationAssumption DEF Sleep, TypeOK
  <2>5. CASE SendRequest \/ Show \/ Forward
    <3>1. CASE SendRequest
      BY <3>1 DEF SendRequest, TypeOK
    <3>2. CASE Show
      BY <3>2 DEF Show, TypeOK
    <3>3. CASE Forward
      BY <3>3 DEF Forward, TypeOK
    <3>4. QED
      BY <2>5, <3>1, <3>2, <3>3
  <2>6. ASSUME NEW h \in Hosts, Bind(h) \/ StartService(h) \/ Count(h) \/ Reply(h) \/ DropRequest(h)
        PROVE TypeOK'
    <3>1. CASE Bind(h) \/ StartService(h)
      BY <3>1 DEF Bind, StartService, TypeOK
    <3>2. CASE Count(h)
      BY <3>2 DEF Count, TypeOK
    <3>3. CASE Reply(h)
      BY <3>3 DEF Reply, TypeOK
    <3>4. CASE DropRequest(h)
      BY <3>4 DEF DropRequest, TypeOK
    <3>5. QED
      BY <2>6, <3>1, <3>2, <3>3, <3>4
  <2>7. ASSUME NEW h \in Hosts, RecvState(h) \/ DropState(h) PROVE TypeOK'
    <3>1. Tail(state[h]) \in Seq(Nat) /\ Head(state[h]) \in Nat
      BY <2>7, TailOf DEF RecvState, DropState, TypeOK
    <3>2. /\ state' = [state EXCEPT ![h] = Tail(@)]
          /\ UNCHANGED <<script, old, kills, pending, flow, traffic, atFirst>>
      BY <2>7 DEF RecvState, DropState
    <3>3. state' \in [Hosts -> Seq(Nat)]
      BY <3>1, <3>2 DEF TypeOK
    <3>4. \/ UNCHANGED <<phase, counter>>
          \/ /\ phase' = [phase EXCEPT ![h] = "init"]
             /\ counter' = [counter EXCEPT ![h] = Head(state[h])]
      BY <2>7 DEF RecvState, DropState
    <3>5. phase' \in [Hosts -> Alive \cup {"none", "dead"}] /\ counter' \in [Hosts -> Nat]
      BY <3>1, <3>4 DEF TypeOK
    <3>6. QED
      BY <3>2, <3>3, <3>5 DEF TypeOK
  <2>8. ASSUME NEW h \in Hosts, TermSignalHandler(h) PROVE TypeOK'
    <3>1. Append(state[Other(h)], counter[h]) \in Seq(Nat) /\ Other(h) \in Hosts
      BY AppendOf DEF TypeOK, Other
    <3>2. QED
      BY <2>8, <3>1 DEF TermSignalHandler, TypeOK
  <2>9. CASE UNCHANGED vars
    BY <2>9 DEF vars, TypeOK
  <2>10. QED
    BY <2>1, <2>2, <2>3, <2>4, <2>5, <2>6, <2>7, <2>8, <2>9
    DEF Next, Script, Network, Client, Server, Start, Serve
<1>3. QED
  BY <1>1, <1>2, PTL DEF Spec

\* No request is counted twice: a counter is sent on as it is, and grows with what is received.
THEOREM NeverOvercountsHolds == Spec => []NeverOvercounts
<1> USE DEF service, traffic, Hosts
<1>1. Init => NeverOvercounts
  BY EmptySeq DEF Init, NeverOvercounts
<1>2. TypeOK /\ NeverOvercounts /\ [Next]_vars => NeverOvercounts'
  <2> SUFFICES ASSUME TypeOK, NeverOvercounts, [Next]_vars PROVE NeverOvercounts'
    OBVIOUS
  <2>1. CASE Script \/ Client \/ Forward
    BY <2>1 DEF Script, Client, Forward, AddServer, Kill, KillFails, RemoveOld, RemoveServer, ModFlow,
                Sleep, End, SendRequest, Show, TypeOK, NeverOvercounts
  <2>2. ASSUME NEW h \in Hosts, Start(h) \/ Reply(h) \/ DropRequest(h) PROVE NeverOvercounts'
    BY <2>2 DEF Start, Bind, StartService, Reply, DropRequest, NeverOvercounts
  <2>3. ASSUME NEW h \in Hosts, Count(h) PROVE NeverOvercounts'
    <3>1. \A g \in Hosts : \A k \in DOMAIN state[g] : state[g][k] \in Nat
      BY ElementOfSeq, LenProperties DEF TypeOK
    <3>2. counter' = [counter EXCEPT ![h] = @ + 1] /\ received' = received + 1 /\ state' = state
      BY <2>3 DEF Count
    <3>3. received \in Nat /\ counter \in [Hosts -> Nat]
      BY DEF TypeOK
    <3>4. QED
      BY <3>1, <3>2, <3>3 DEF NeverOvercounts
  <2>4. ASSUME NEW h \in Hosts, RecvState(h) \/ DropState(h) PROVE NeverOvercounts'
    <3>1. /\ 1 \in DOMAIN state[h] /\ Head(state[h]) = state[h][1]
          /\ \A k \in DOMAIN Tail(state[h]) : \E j \in DOMAIN state[h] : Tail(state[h])[k] = state[h][j]
      BY <2>4, TailOf DEF RecvState, DropState, TypeOK
    <3>2. state' = [state EXCEPT ![h] = Tail(@)]
      BY <2>4 DEF RecvState, DropState
    <3>3. received' = received /\ (counter' = counter \/ counter' = [counter EXCEPT ![h] = Head(state[h])])
      BY <2>4 DEF RecvState, DropState
    <3>4. QED
      BY <3>1, <3>2, <3>3 DEF TypeOK, NeverOvercounts
  <2>5. ASSUME NEW h \in Hosts, TermSignalHandler(h) PROVE NeverOvercounts'
    <3> DEFINE g == Other(h)
    <3>1. g \in Hosts
      BY DEF Other
    <3>2. \A k \in DOMAIN Append(state[g], counter[h]) :
            \/ Append(state[g], counter[h])[k] = counter[h]
            \/ \E j \in DOMAIN state[g] : Append(state[g], counter[h])[k] = state[g][j]
      BY <3>1, AppendOf DEF TypeOK
    <3>3. state' = [state EXCEPT ![g] = Append(@, counter[h])] /\ UNCHANGED <<counter, received>>
      BY <2>5 DEF TermSignalHandler
    <3> HIDE DEF g
    <3>4. QED
      BY <3>1, <3>2, <3>3 DEF TypeOK, NeverOvercounts
  <2>6. CASE UNCHANGED vars
    BY <2>6 DEF vars, NeverOvercounts
  <2>7. QED
    BY <2>1, <2>2, <2>3, <2>4, <2>5, <2>6 DEF Next, Network, Server, Serve
<1>3. QED
  BY <1>1, <1>2, TypeCorrect, PTL DEF Spec

\* Every step keeps what is known of the servers, the signals and the client.
THEOREM MigrationCorrect == Spec => []MigrationInv
<1> USE DEF service, traffic, Hosts, Served, Alive, Settled, new, Other, Nowhere
<1>1. Init => MigrationInv
  BY EmptySeq DEF Init, MigrationInv, Stages, CountersStart, SignalsAreOfNow, ClientIsServed
<1>2. TypeOK /\ MigrationInv /\ [Next]_vars => MigrationInv'
  <2> SUFFICES ASSUME TypeOK, Stages, CountersStart, SignalsAreOfNow, ClientIsServed, [Next]_vars
               PROVE  Stages' /\ CountersStart' /\ SignalsAreOfNow' /\ ClientIsServed'
    BY DEF MigrationInv
  <2>1. CASE AddServer
    BY <2>1 DEF AddServer, TypeOK, Stages, CountersStart, SignalsAreOfNow, ClientIsServed
  <2>2. CASE Kill
    BY <2>2, MigrationAssumption DEF Kill, TypeOK, Stages, CountersStart, SignalsAreOfNow, ClientIsServed
  <2>3. CASE KillFails
    BY <2>3 DEF KillFails, TypeOK, Stages, CountersStart, SignalsAreOfNow, ClientIsServed
  <2>4. CASE RemoveOld
    BY <2>4 DEF RemoveOld, RemoveServer, TypeOK, Stages, CountersStart, SignalsAreOfNow, ClientIsServed
  <2>5. CASE ModFlow
    BY <2>5 DEF ModFlow, TypeOK, Stages, CountersStart, SignalsAreOfNow, ClientIsServed
  <2>6. CASE Sleep
    BY <2>6 DEF Sleep, TypeOK, Stages, CountersStart, SignalsAreOfNow, ClientIsServed
  <2>7. CASE End
    BY <2>7 DEF End, RemoveServer, TypeOK, Stages, CountersStart, SignalsAreOfNow, ClientIsServed
  <2>8. CASE Forward
    BY <2>8 DEF Forward, TypeOK, Stages, CountersStart, SignalsAreOfNow, ClientIsServed
  <2>9. CASE SendRequest
    BY <2>9 DEF SendRequest, TypeOK, Stages, CountersStart, SignalsAreOfNow, ClientIsServed
  <2>10. CASE Show
    BY <2>10 DEF Show, TypeOK, Stages, CountersStart, SignalsAreOfNow, ClientIsServed
  <2>11. ASSUME NEW h \in Hosts, Bind(h)
        PROVE  Stages' /\ CountersStart' /\ SignalsAreOfNow' /\ ClientIsServed'
    BY <2>11 DEF Bind, TypeOK, Stages, CountersStart, SignalsAreOfNow, ClientIsServed
  <2>12. ASSUME NEW h \in Hosts, StartService(h)
        PROVE  Stages' /\ CountersStart' /\ SignalsAreOfNow' /\ ClientIsServed'
    BY <2>12 DEF StartService, TypeOK, Stages, CountersStart, SignalsAreOfNow, ClientIsServed
  <2>13. ASSUME NEW h \in Hosts, Count(h)
        PROVE  Stages' /\ CountersStart' /\ SignalsAreOfNow' /\ ClientIsServed'
    <3>1. /\ phase[h] = "serve" /\ request = h /\ request' = Nowhere
          /\ counter' = [counter EXCEPT ![h] = @ + 1] /\ phase' = [phase EXCEPT ![h] = "reply"]
          /\ UNCHANGED <<script, old, kills, pending, state, flow, response, client, atFirst>>
      BY <2>13 DEF Count
    <3>2. Stages' /\ CountersStart'
      BY <3>1 DEF TypeOK, Stages, CountersStart
    <3>3. SignalsAreOfNow'
      BY <3>1 DEF TypeOK, SignalsAreOfNow
    <3>4. ClientIsServed'
      BY <3>1 DEF TypeOK, ClientIsServed
    <3>5. QED
      BY <3>2, <3>3, <3>4
  <2>14. ASSUME NEW h \in Hosts, Reply(h)
        PROVE  Stages' /\ CountersStart' /\ SignalsAreOfNow' /\ ClientIsServed'
    BY <2>14 DEF Reply, TypeOK, Stages, CountersStart, SignalsAreOfNow, ClientIsServed
  <2>15. ASSUME NEW h \in Hosts, DropRequest(h)
        PROVE  Stages' /\ CountersStart' /\ SignalsAreOfNow' /\ ClientIsServed'
    BY <2>15 DEF DropRequest, TypeOK, Stages, CountersStart, SignalsAreOfNow, ClientIsServed
  <2>16. ASSUME NEW h \in Hosts, RecvState(h) \/ DropState(h)
        PROVE  Stages' /\ CountersStart' /\ SignalsAreOfNow' /\ ClientIsServed'
    <3>1. h = new
      BY <2>16 DEF RecvState, DropState, SignalsAreOfNow, TypeOK
    <3>2. \A k \in DOMAIN Tail(state[h]) : \E j \in DOMAIN state[h] : Tail(state[h])[k] = state[h][j]
      BY <2>16, TailOf DEF RecvState, DropState, TypeOK
    <3>3. /\ state' = [state EXCEPT ![h] = Tail(@)] /\ state[h] # <<>>
          /\ UNCHANGED <<script, old, kills, pending, flow, traffic, atFirst>>
      BY <2>16 DEF RecvState, DropState
    <3>4. \/ UNCHANGED <<phase, counter>>
          \/ /\ phase[h] = "recv" /\ phase' = [phase EXCEPT ![h] = "init"]
             /\ \E c : counter' = [counter EXCEPT ![h] = c]
      BY <2>16 DEF RecvState, DropState
    <3>5. SignalsAreOfNow'
      BY <3>1, <3>2, <3>3, <3>4 DEF TypeOK, SignalsAreOfNow
    <3>6. Stages'
      BY <3>1, <3>3, <3>4 DEF TypeOK, Stages
    <3>7. CountersStart'
      BY <3>3, <3>4 DEF TypeOK, CountersStart
    <3>8. ClientIsServed'
      BY <3>3, <3>4 DEF TypeOK, ClientIsServed
    <3>9. QED
      BY <3>5, <3>6, <3>7, <3>8
  <2>17. ASSUME NEW h \in Hosts, TermSignalHandler(h)
        PROVE  Stages' /\ CountersStart' /\ SignalsAreOfNow' /\ ClientIsServed'
    <3>1. h = old /\ script = "kill" /\ kills > 0 /\ Other(h) = new /\ new # old /\ counter[old] >= atFirst
      BY <2>17 DEF TermSignalHandler, SignalsAreOfNow, TypeOK
    <3>2. \A k \in DOMAIN Append(state[new], counter[h]) :
            \/ Append(state[new], counter[h])[k] = counter[h]
            \/ \E j \in DOMAIN state[new] : Append(state[new], counter[h])[k] = state[new][j]
      <4>1. state[new] \in Seq(Nat) /\ counter[h] \in Nat
        BY <3>1 DEF TypeOK
      <4>2. QED
        BY <4>1, AppendOf
    <3>3. /\ state' = [state EXCEPT ![new] = Append(@, counter[h])]
          /\ pending' = [pending EXCEPT ![h] = FALSE]
          /\ UNCHANGED <<script, old, kills, phase, counter, flow, traffic, atFirst>>
      BY <2>17, <3>1 DEF TermSignalHandler
    <3>4. \A k \in DOMAIN state'[new] : state'[new][k] >= atFirst
      <4>1. state'[new] = Append(state[new], counter[h])
        BY <3>3 DEF TypeOK
      <4>2. \A j \in DOMAIN state[new] : state[new][j] >= atFirst
        BY DEF SignalsAreOfNow
      <4>3. QED
        BY <3>1, <3>2, <4>1, <4>2
    <3>5. state'[old] = state[old]
      BY <3>1, <3>3 DEF TypeOK
    <3>6. \A g \in Hosts : pending'[g] => pending[g]
      BY <3>3 DEF TypeOK
    <3>7. SignalsAreOfNow'
      BY <3>1, <3>3, <3>4, <3>5, <3>6 DEF SignalsAreOfNow
    <3>8. QED
      BY <3>3, <3>7 DEF Stages, CountersStart, ClientIsServed
  <2>18. CASE UNCHANGED vars
    BY <2>18 DEF vars, Stages, CountersStart, SignalsAreOfNow, ClientIsServed
  <2>19. QED
    BY <2>1, <2>2, <2>3, <2>4, <2>5, <2>6, <2>7, <2>8, <2>9, <2>10, <2>11, <2>12, <2>13, <2>14,
       <2>15, <2>16, <2>17, <2>18
    DEF Next, Script, Network, Client, Server, Start, Serve
<1>3. QED
  BY <1>1, <1>2, TypeCorrect, PTL DEF Spec

\* The script fails only because the server on h3 never got a counter, and no request is lost
\* before the first server is removed.
THEOREM FailuresAreExplainedHolds == Spec => []FailuresAreExplained
<1>1. TypeOK /\ MigrationInv => FailuresAreExplained
  BY DEF TypeOK, MigrationInv, Stages, CountersStart, ClientIsServed, FailuresAreExplained,
         AbortMeansStateLost, NoLossBeforeRemoval, ClientStuck, Hosts
<1>2. QED
  BY <1>1, TypeCorrect, MigrationCorrect, PTL

\* A migrated server goes on from a count its predecessor had at the first signal or later.
THEOREM StateIsFreshHolds == Spec => StateIsFresh
<1>1. TypeOK /\ MigrationInv /\ [Next]_vars =>
        [\A h \in Hosts : phase[h] = "recv" /\ phase'[h] = "init" => counter'[h] >= atFirst]_vars
  <2> SUFFICES ASSUME TypeOK, MigrationInv, [Next]_vars,
                      NEW h \in Hosts, phase[h] = "recv", phase'[h] = "init"
               PROVE  counter'[h] >= atFirst
    OBVIOUS
  <2>1. RecvState(h)
    <3>1. ASSUME Script \/ Client \/ Forward PROVE FALSE
      BY <3>1 DEF Script, Client, Forward, AddServer, Kill, KillFails, RemoveOld, RemoveServer, ModFlow,
                  Sleep, End, SendRequest, Show, TypeOK, service, traffic
    <3>2. ASSUME NEW g \in Hosts, Start(g) \/ Count(g) \/ Reply(g) \/ DropRequest(g) \/ DropState(g)
                                  \/ TermSignalHandler(g)
          PROVE FALSE
      BY <3>2 DEF Start, Bind, StartService, Count, Reply, DropRequest, DropState, TermSignalHandler,
                  TypeOK, service, traffic
    <3>3. ASSUME NEW g \in Hosts, RecvState(g), g # h PROVE FALSE
      BY <3>3 DEF RecvState, TypeOK
    <3>4. QED
      BY <3>1, <3>2, <3>3 DEF Next, Network, Server, Serve, vars, service
  <2>2. counter'[h] = Head(state[h]) /\ state[h] # <<>>
    BY <2>1 DEF RecvState, TypeOK
  <2>3. 1 \in DOMAIN state[h] /\ Head(state[h]) = state[h][1]
    BY <2>2, TailOf DEF TypeOK
  <2>4. h = new
    BY <2>2 DEF MigrationInv, SignalsAreOfNow, TypeOK, Hosts, new, Other
  <2>5. QED
    BY <2>2, <2>3, <2>4 DEF MigrationInv, SignalsAreOfNow
<1>2. QED
  BY <1>1, TypeCorrect, MigrationCorrect, PTL DEF Spec, StateIsFresh
=============================================================================
