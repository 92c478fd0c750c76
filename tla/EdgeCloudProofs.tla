--------------------------- MODULE EdgeCloudProofs ---------------------------
(***************************************************************************)
(* Proofs about EdgeCloud for any servers, loops and numbers of probes and *)
(* runs: the container follows the controller's last word, and the fastest *)
(* server is chosen.                                                       *)
(***************************************************************************)
EXTENDS EdgeCloud, SequenceLemmas

Entry == [mac : Servers, ms : Nat]
Packet == [at : Switches, from : Servers \cup {Probe}, due : Nat]
Phases == {"start", "settle", "wait", "pause", "sleep", "closing", "ended", "raised"}
SomeServer == Servers \cup {NoServer}

\* Every variable holds a value of its type.
TypeOK ==
  /\ known \subseteq Servers \cup {Client}
  /\ started \in BOOLEAN /\ active \in BOOLEAN /\ decided \in BOOLEAN /\ whole \in BOOLEAN
  /\ age \in Nat
  /\ latency \in Seq(Entry)
  /\ optimal \in SomeServer /\ wanted \in SomeServer /\ placed \in SomeServer
  /\ wire \subseteq Packet
  /\ sock \in Seq(Servers)
  /\ phase \in Phases
  /\ cnt \in Nat /\ probes \in Nat /\ runs \in Nat
  /\ response \in [Servers -> Nat] /\ busy \in [Servers -> Nat]
  /\ copies \in [Switches -> Int]

\* What Fastest chooses exists, and no entry of the table is faster.
LEMMA FastestIsLeast ==
  ASSUME NEW table \in Seq(Entry), table # <<>>
  PROVE  /\ Fastest(table) \in Servers
         /\ \E i \in DOMAIN table :
              table[i].mac = Fastest(table) /\ \A j \in DOMAIN table : table[i].ms <= table[j].ms
<1>1. DOMAIN table = 1 .. Len(table) /\ Len(table) \in Nat /\ Len(table) # 0
  BY LenProperties, EmptySeq
<1>2. \A i \in DOMAIN table : table[i] \in Entry /\ table[i].ms \in Nat /\ table[i].mac \in Servers
  <2>1. \A i \in 1 .. Len(table) : table[i] \in Entry
    BY ElementOfSeq
  <2>2. QED
    BY <1>1, <2>1 DEF Entry
<1> DEFINE Times == {table[i].ms : i \in DOMAIN table}
<1>3. PICK m \in Times : \A y \in Times : m <= y
  <2>1. Times \in SUBSET Nat
    BY <1>2
  <2>2. table[1].ms \in Times
    BY <1>1
  <2>3. QED
    BY <2>1, <2>2, NatsHaveLeast
<1> DEFINE At == {i \in DOMAIN table : table[i].ms = m}
<1>4. PICK k \in At : \A j \in At : k <= j
  <2>1. At \in SUBSET Nat /\ At # {}
    BY <1>1
  <2>2. QED
    BY <2>1, NatsHaveLeast
<1> DEFINE Best(i) == \A j \in DOMAIN table :
                        table[i].ms < table[j].ms \/ (table[i].ms = table[j].ms /\ i <= j)
           first == CHOOSE i \in DOMAIN table : Best(i)
<1>5. k \in DOMAIN table /\ Best(k)
  <2> SUFFICES ASSUME NEW j \in DOMAIN table
               PROVE  table[k].ms < table[j].ms \/ (table[k].ms = table[j].ms /\ k <= j)
    OBVIOUS
  <2>1. table[k].ms = m /\ m <= table[j].ms /\ m \in Nat /\ table[j].ms \in Nat
    BY <1>2, <1>3
  <2>2. table[j].ms = m => k <= j
    BY <1>4
  <2>3. QED
    BY <2>1, <2>2
<1>6. first \in DOMAIN table /\ Best(first)
  BY <1>5
<1>7. Fastest(table) = table[first].mac
  BY DEF Fastest
<1> HIDE DEF first
<1>8. \A j \in DOMAIN table : table[first].ms <= table[j].ms
  BY <1>2, <1>6
<1>9. QED
  BY <1>2, <1>6, <1>7, <1>8

\* An answer that is timed leaves a table of entries, with at least one.
LEMMA UpdatedType ==
  ASSUME NEW table \in Seq(Entry), NEW s \in Servers, NEW ms \in Nat
  PROVE  Updated(table, s, ms) \in Seq(Entry) /\ Updated(table, s, ms) # <<>>
<1> DEFINE e == [mac |-> s, ms |-> ms]
           t == [i \in DOMAIN table |-> IF table[i].mac = s THEN e ELSE table[i]]
<1>1. DOMAIN table = 1 .. Len(table) /\ Len(table) \in Nat /\ e \in Entry
  BY LenProperties DEF Entry
<1>2. CASE \E i \in DOMAIN table : table[i].mac = s
  <2>1. Updated(table, s, ms) = t
    BY <1>2 DEF Updated
  <2>2. \A i \in 1 .. Len(table) : t[i] \in Entry
    BY <1>1, ElementOfSeq
  <2>3. t = [i \in 1 .. Len(table) |-> t[i]] /\ DOMAIN t # {}
    BY <1>1, <1>2
  <2> HIDE DEF t
  <2>4. t \in Seq(Entry) /\ t # <<>>
    BY <1>1, <2>2, <2>3, IsASeq, EmptySeq
  <2>5. QED
    BY <2>1, <2>4
<1>3. CASE ~\E i \in DOMAIN table : table[i].mac = s
  <2>1. Updated(table, s, ms) = Append(table, e)
    BY <1>3 DEF Updated
  <2>2. Append(table, e) \in Seq(Entry) /\ Len(Append(table, e)) = Len(table) + 1
    BY <1>1, AppendProperties
  <2>3. QED
    BY <1>1, <2>1, <2>2, EmptySeq
<1>4. QED
  BY <1>2, <1>3

\* The packets that an answer leaves on the wire go to switches.
LEMMA ReplyWire ==
  ASSUME TypeOK, NEW s \in Servers, NEW w \in Switches, Reply(s, w)
  PROVE  wire' \subseteq Packet
<1>1. Others(w, s) \subseteq Packet
  BY DEF Others, TypeOK
<1>2. w # Root => [at |-> Up[w], from |-> s, due |-> Hop] \in Packet
  BY DEF Packet, Up, Switches, Root, Hop
<1>3. QED
  BY <1>1, <1>2 DEF Reply

\* A server is done with a copy after it has arrived and after what it was busy with.
LEMMA SentType ==
  ASSUME TypeOK, NEW s \in Servers, NEW work \in Nat
  PROVE  /\ Delay[s] \in Nat /\ Delay[s] > 0
         /\ Sent(s, work) \in Nat /\ busy[s] <= Sent(s, work)
<1>1. Delay[s] \in Nat /\ Delay[s] > 0
  <2>1. /\ Delay["server1"] = 10 /\ Delay["server2"] = 15
        /\ Delay["server3"] = 20 /\ Delay["server4"] = 25
    BY DEF Delay
  <2>2. QED
    BY <2>1, EdgeCloudAssumption
<1>2. busy[s] \in Nat
  BY DEF TypeOK
<1>3. QED
  BY <1>1, <1>2 DEF Sent

\* A switch sends a copy on a number of times.
LEMMA CopiesType ==
  ASSUME NEW v \in Switches
  PROVE  Cardinality(Below(v) \cap known) \in Int
<1>1. IsFiniteSet({"server1", "server2", "server3", "server4"})
  <2> DEFINE Two   == {"server1"} \cup {"server2"}
             Three == Two \cup {"server3"}
             Four  == Three \cup {"server4"}
  <2>1. /\ IsFiniteSet({"server1"}) /\ IsFiniteSet({"server2"})
        /\ IsFiniteSet({"server3"}) /\ IsFiniteSet({"server4"})
    BY FS_Singleton
  <2>2. IsFiniteSet(Two)
    BY <2>1, FS_Union
  <2>3. IsFiniteSet(Three)
    BY <2>1, <2>2, FS_Union
  <2>4. IsFiniteSet(Four)
    BY <2>1, <2>3, FS_Union
  <2>5. {"server1", "server2", "server3", "server4"} = Four
    OBVIOUS
  <2>6. QED
    BY ONLY <2>4, <2>5, Zenon
<1>2. Below(v) \cap known \subseteq {"server1", "server2", "server3", "server4"}
  BY EdgeCloudAssumption DEF Below
<1>3. IsFiniteSet(Below(v) \cap known)
  BY <1>1, <1>2, FS_Subset
<1>4. QED
  BY <1>3, FS_CardinalityType

\* The variables have their types in every state.
THEOREM TypeCorrect == Spec => []TypeOK
<1> USE DEF controller, network, orchestrator
<1>1. Init => TypeOK
  <2> SUFFICES ASSUME Init PROVE TypeOK
    OBVIOUS
  <2>1. latency \in Seq(Entry) /\ sock \in Seq(Servers) /\ response \in [Servers -> Nat]
    BY EmptySeq DEF Init
  <2>2. busy \in [Servers -> Nat] /\ copies \in [Switches -> Int]
    BY DEF Init
  <2>3. QED
    BY <2>1, <2>2 DEF Init, TypeOK, SomeServer, Phases
<1>2. TypeOK /\ [Next]_vars => TypeOK'
  <2> SUFFICES ASSUME TypeOK, [Next]_vars PROVE TypeOK'
    OBVIOUS
  <2>c. Counts => started' \in BOOLEAN
    BY DEF Counts, TypeOK
  <2>1. CASE PingAll \/ Request
    BY <2>1, <2>c DEF PingAll, Request, TypeOK, Phases
  <2>2. CASE ProbeSends
    <3>1. [at |-> Root, from |-> Probe, due |-> 0] \in Packet
      BY DEF Packet, Root, Switches
    <3>2. copies' \in [Switches -> Int]
      BY <2>2 DEF ProbeSends, TypeOK, Switches, Root
    <3>3. QED
      BY <2>2, <3>1, <3>2 DEF ProbeSends, TypeOK
  <2>3. CASE Tick
    <3> DEFINE Dues == {m.due : m \in wire}
               step == CHOOSE d \in Dues : \A m \in wire : d <= m.due
    <3>1. Dues \in SUBSET Nat /\ Dues # {}
      BY <2>3 DEF Tick, TypeOK, Packet
    <3>2. step \in Dues /\ \A m \in wire : step <= m.due
      <4>1. PICK d \in Dues : \A y \in Dues : d <= y
        BY <3>1, NatsHaveLeast
      <4>2. \A m \in wire : d <= m.due
        BY <4>1
      <4>3. QED
        BY <4>1, <4>2
    <3>3. /\ wire' = {[m EXCEPT !.due = @ - step] : m \in wire} /\ age' = age + step
          /\ busy' = [s \in Servers |-> IF busy[s] > step THEN busy[s] - step ELSE 0]
      BY <2>3 DEF Tick
    <3>4. step \in Nat
      BY <3>1, <3>2
    <3> HIDE DEF step
    <3>5. wire' \subseteq Packet
      <4>1. ASSUME NEW m \in wire PROVE [m EXCEPT !.due = @ - step] \in Packet
        <5>1. m \in Packet /\ m.due \in Nat /\ step <= m.due
          BY <3>2 DEF TypeOK, Packet
        <5>2. m.due - step \in Nat
          BY <3>4, <5>1
        <5>3. QED
          BY <5>1, <5>2 DEF Packet
      <4>2. QED
        BY <3>3, <4>1
    <3>6. age' \in Nat
      BY <3>3, <3>4 DEF TypeOK
    <3>7. UNCHANGED <<known, started, latency, optimal, copies, whole, response, probes,
                      orchestrator, sock, decided>>
      BY <2>3 DEF Tick
    <3>8. busy' \in [Servers -> Nat]
      BY <3>3, <3>4 DEF TypeOK
    <3>9. QED
      BY <3>5, <3>6, <3>7, <3>8 DEF TypeOK
  <2>4. ASSUME NEW w \in Switches, ProbeAtSwitch(w) PROVE TypeOK'
    <3>1. PICK work \in [AtLeaf(w) \cap known -> Work] :
            LET took == [s \in DOMAIN work |-> Sent(s, work[s]) + Delay[s]] IN
            /\ wire' = (IF copies[w] > 1 THEN wire ELSE Others(w, Probe))
                 \cup {[at |-> v, from |-> Probe, due |-> Hop] :
                        v \in {c \in Children(w) : Below(c) \cap known # {}}}
                 \cup {[at |-> w, from |-> s, due |-> took[s]] : s \in DOMAIN work}
            /\ busy' = [s \in Servers |-> IF s \in DOMAIN work THEN Sent(s, work[s]) ELSE busy[s]]
            /\ response' = [s \in Servers |-> IF s \in DOMAIN work THEN took[s] ELSE response[s]]
      BY <2>4 DEF ProbeAtSwitch
    <3>2. \A s \in DOMAIN work : /\ s \in Servers /\ Sent(s, work[s]) \in Nat
                                /\ Sent(s, work[s]) + Delay[s] \in Nat
      <4>1. ASSUME NEW s \in DOMAIN work PROVE s \in Servers /\ work[s] \in Nat
        BY EdgeCloudAssumption DEF AtLeaf
      <4>2. QED
        BY <4>1, SentType
    <3>3. response' \in [Servers -> Nat] /\ busy' \in [Servers -> Nat]
      BY <3>1, <3>2 DEF TypeOK
    <3>4. Children(w) \subseteq Switches
      BY DEF Children, Up
    <3>5. wire' \subseteq Packet
      <4>1. Others(w, Probe) \subseteq Packet /\ wire \subseteq Packet
        BY DEF Others, TypeOK
      <4>2. \A v \in Children(w) : [at |-> v, from |-> Probe, due |-> Hop] \in Packet
        BY <3>4 DEF Packet, Hop
      <4>3. \A s \in DOMAIN work : [at |-> w, from |-> s, due |-> Sent(s, work[s]) + Delay[s]] \in Packet
        BY <3>2 DEF Packet
      <4>4. QED
        BY <3>1, <4>1, <4>2, <4>3
    <3>6. age' \in Nat
      BY <2>4 DEF ProbeAtSwitch, TypeOK
    <3>7. copies' \in [Switches -> Int]
      <4>1. copies' = [v \in Switches |->
              IF v = w THEN copies[w] - 1
              ELSE IF v \in Children(w) THEN copies[v] + Cardinality(Below(v) \cap known)
              ELSE copies[v]]
        BY <2>4 DEF ProbeAtSwitch
      <4>2. \A v \in Switches : Cardinality(Below(v) \cap known) \in Int
        BY CopiesType
      <4>3. \A v \in Switches : copies[v] \in Int
        BY DEF TypeOK
      <4>4. w \in Switches
        OBVIOUS
      <4> DEFINE new(v) == IF v = w THEN copies[w] - 1
                           ELSE IF v \in Children(w) THEN copies[v] + Cardinality(Below(v) \cap known)
                           ELSE copies[v]
      <4>5. ASSUME NEW v \in Switches PROVE new(v) \in Int
        <5> DEFINE n == Cardinality(Below(v) \cap known)
        <5>1. n \in Int /\ copies[v] \in Int /\ copies[w] \in Int
          BY <4>2, <4>3, <4>4
        <5> HIDE DEF n
        <5>2. copies[w] - 1 \in Int /\ copies[v] + n \in Int
          BY <5>1
        <5>3. QED
          BY <5>1, <5>2 DEF n
      <4>6. copies' = [v \in Switches |-> new(v)]
        BY <4>1
      <4> HIDE DEF new
      <4>7. QED
        BY <4>5, <4>6
    <3>8. QED
      BY <2>4, <2>c, <3>3, <3>5, <3>6, <3>7 DEF ProbeAtSwitch, TypeOK
  <2>5. ASSUME NEW s \in Servers, NEW w \in Switches, ReplyAtSwitch(s, w) PROVE TypeOK'
    <3>1. Reply(s, w) /\ started' \in BOOLEAN
          /\ UNCHANGED <<known, age, copies, busy, response, probes, orchestrator>>
      BY <2>5, <2>c DEF ReplyAtSwitch
    <3>2. latency' \in Seq(Entry) /\ latency' # <<>>
      BY <3>1, UpdatedType DEF Reply, TypeOK
    <3>3. Fastest(latency') \in Servers
      BY <3>2, FastestIsLeast
    <3>4. optimal' = optimal \/ optimal' = Fastest(latency')
      BY <3>1 DEF Reply
    <3>5. sock' = sock \/ sock' = Append(sock, Fastest(latency'))
      BY <3>1 DEF Reply
    <3>6. sock' \in Seq(Servers)
      <4>1. sock \in Seq(Servers)
        BY DEF TypeOK
      <4>2. Append(sock, Fastest(latency')) \in Seq(Servers)
        BY <3>3, <4>1, AppendProperties
      <4>3. QED
        BY <3>5, <4>1, <4>2
    <3>7. decided' \in BOOLEAN /\ whole' \in BOOLEAN
      BY <3>1 DEF Reply
    <3>8. wire' \subseteq Packet
      BY <3>1, ReplyWire
    <3>9. QED
      BY <3>1, <3>2, <3>3, <3>4, <3>6, <3>7, <3>8 DEF TypeOK, SomeServer
  <2>6. CASE Receive
    <3>1. Head(sock) \in Servers /\ Tail(sock) \in Seq(Servers)
      BY <2>6, HeadTailProperties DEF Receive, TypeOK
    <3>2. placed' \in SomeServer
      BY <2>6 DEF Receive, TypeOK, SomeServer
    <3>3. QED
      BY <2>6, <3>1, <3>2 DEF Receive, TypeOK, SomeServer, Phases
  <2>7. CASE Deploy
    <3>1. placed' \in SomeServer /\ active' \in BOOLEAN
      BY <2>7 DEF Deploy, TypeOK
    <3>2. QED
      BY <2>7, <3>1 DEF Deploy, TypeOK, Phases
  <2>8. CASE Listen \/ Wake
    BY <2>8 DEF Listen, Wake, TypeOK, Phases
  <2>9. CASE Close
    <3>1. busy' \in [Servers -> Nat] /\ copies' \in [Switches -> Int]
      BY <2>9 DEF Close
    <3>2. QED
      BY <2>9, <3>1 DEF Close, TypeOK, Phases, SomeServer
  <2>10. CASE RunAgain
    <3>1. sock' \in Seq(Servers) /\ decided' \in BOOLEAN /\ active' \in BOOLEAN
      BY <2>10, EmptySeq DEF RunAgain
    <3>2. QED
      BY <2>10, <3>1 DEF RunAgain, TypeOK, Phases, SomeServer
  <2>11. CASE UNCHANGED vars
    BY <2>11 DEF vars, TypeOK
  <2>12. QED
    BY <2>1, <2>2, <2>3, <2>4, <2>5, <2>6, <2>7, <2>8, <2>9, <2>10, <2>11 DEF Next, Orchestrator
<1>3. QED
  BY <1>1, <1>2, PTL DEF Spec

\* What the last of a sequence of announcements is, when one is added and when one is read.
LEMMA LastOf ==
  ASSUME NEW s \in Seq(Servers), NEW x \in Servers
  PROVE  /\ Append(s, x) # <<>> /\ Last(Append(s, x)) = x
         /\ s # <<>> => IF Tail(s) = <<>> THEN Last(s) = Head(s) ELSE Last(Tail(s)) = Last(s)
<1>1. Len(s) \in Nat /\ (s = <<>> <=> Len(s) = 0)
  BY LenProperties, EmptySeq
<1>2. Append(s, x) # <<>> /\ Last(Append(s, x)) = x
  BY <1>1, AppendProperties, EmptySeq DEF Last
<1>3. ASSUME s # <<>>
      PROVE  IF Tail(s) = <<>> THEN Last(s) = Head(s) ELSE Last(Tail(s)) = Last(s)
  <2>1. /\ Tail(s) \in Seq(Servers) /\ Len(Tail(s)) = Len(s) - 1
        /\ \A i \in 1 .. Len(Tail(s)) : Tail(s)[i] = s[i + 1]
    BY <1>3, HeadTailProperties
  <2>2. Tail(s) = <<>> <=> Len(Tail(s)) = 0
    BY <2>1, EmptySeq
  <2>3. Head(s) = s[1]
    BY <1>3
  <2>4. QED
    BY <1>1, <1>3, <2>1, <2>2, <2>3 DEF Last
<1>4. QED
  BY <1>2, <1>3

\* What the orchestrator will have deployed when it has read all announcements is the server that
\* the controller holds for the best.
THEOREM LastWordHolds == Spec => []LastWordCounts
<1> USE DEF controller, network, orchestrator, Running
<1>1. Init => LastWordCounts
  BY DEF Init, LastWordCounts
<1>2. TypeOK /\ LastWordCounts /\ [Next]_vars => LastWordCounts'
  <2> SUFFICES ASSUME TypeOK, LastWordCounts, [Next]_vars PROVE LastWordCounts'
    OBVIOUS
  <2>1. CASE PingAll \/ Request \/ ProbeSends \/ Tick
    BY <2>1 DEF PingAll, Request, ProbeSends, Tick, LastWordCounts
  <2>2. ASSUME NEW w \in Switches, ProbeAtSwitch(w) PROVE LastWordCounts'
    BY <2>2 DEF ProbeAtSwitch, LastWordCounts
  <2>3. ASSUME NEW s \in Servers, NEW w \in Switches, ReplyAtSwitch(s, w) PROVE LastWordCounts'
    <3> DEFINE best == Fastest(latency')
    <3>1. latency' \in Seq(Entry) /\ latency' # <<>>
      BY <2>3, UpdatedType DEF ReplyAtSwitch, Reply, TypeOK
    <3>2. best \in Servers
      BY <3>1, FastestIsLeast
    <3> HIDE DEF best
    <3>3. Append(sock, best) # <<>> /\ Last(Append(sock, best)) = best
      BY <3>2, LastOf DEF TypeOK
    <3>4. \/ optimal' = best /\ sock' = Append(sock, best)
          \/ UNCHANGED <<optimal, sock>> /\ (decided' => decided)
      BY <2>3 DEF ReplyAtSwitch, Reply, best
    <3>5. UNCHANGED <<phase, wanted, placed>>
      BY <2>3 DEF ReplyAtSwitch
    <3>6. QED
      BY <3>3, <3>4, <3>5 DEF LastWordCounts
  <2>4. CASE Receive
    <3>1. IF Tail(sock) = <<>> THEN Last(sock) = Head(sock) ELSE Last(Tail(sock)) = Last(sock)
      <4>1. Head(sock) \in Servers
        BY <2>4, HeadTailProperties DEF Receive, TypeOK
      <4>2. QED
        BY <2>4, <4>1, LastOf DEF Receive, TypeOK
    <3>2. QED
      BY <2>4, <3>1 DEF Receive, LastWordCounts
  <2>5. CASE Listen \/ Deploy \/ Wake \/ Close \/ RunAgain
    BY <2>5 DEF Listen, Deploy, Wake, Close, RunAgain, LastWordCounts
  <2>6. CASE UNCHANGED vars
    BY <2>6 DEF vars, LastWordCounts
  <2>7. QED
    BY <2>1, <2>2, <2>3, <2>4, <2>5, <2>6 DEF Next, Orchestrator
<1>3. QED
  BY <1>1, <1>2, TypeCorrect, PTL DEF Spec

----------------------------------------------------------------------------
(* The fastest server wins.  While a probe is answered in time, no answer  *)
(* of a server comes after the one that is due last, and the last switch   *)
(* to time that one finds it two hops later than the first.                *)

Level(w) == IF w = Root THEN 2 ELSE IF w = "switch11" THEN 1 ELSE 0
ProbePackets == {m \in wire : m.from = Probe}
Answers == {m \in wire : m.from # Probe}
Entered(s, ms) == \E i \in DOMAIN latency : latency[i].mac = s /\ latency[i].ms = ms

OneEntryEach ==
  \A i, j \in DOMAIN latency : latency[i].mac = latency[j].mac => i = j

OptimalIsFastest ==
  optimal # NoServer => started /\ latency # <<>> /\ optimal = Fastest(latency)

AnsweredIsKnown == \A s \in Servers : response[s] > 0 => s \in known

NoPacketsAtRest == phase \in {"start", "ended"} => wire = {}

\* The copies of a probe are at the same level at the same time, or one level has some that were
\* just sent and the level above some that are still to be.
CopiesTogether ==
  \A m, n \in ProbePackets :
    \/ m.due = n.due /\ Level(m.at) = Level(n.at)
    \/ m.due = 0 /\ n.due = Hop /\ Level(m.at) = Level(n.at) + 1
    \/ n.due = 0 /\ m.due = Hop /\ Level(n.at) = Level(m.at) + 1

\* No answer is later than the last one of its server was due, but for a hop for each level.
AnswersAreTimed ==
  \A m \in Answers :
    /\ m.from \in known /\ m.from \in Below(m.at)
    /\ age + m.due <= response[m.from] + Level(m.at)

\* An answer that has not left the switch of its server is one the server was busy with.
BusyCovers ==
  \A m \in Answers : Level(m.at) = 0 => m.due <= busy[m.from] + Delay[m.from]

\* No answer moves before all copies have reached the servers.
ProbedFirst ==
  \A p \in ProbePackets, m \in Answers :
    p.due = 0 /\ age = 0 /\ Level(p.at) = 0 /\ m.due > 0 /\ Level(m.at) = 0

\* A copy is still on its way to a server, or the last answer is on its way back, or the table
\* has its time and no other answer is to come.
AnswersCount ==
  \A s \in Servers : response[s] > 0 =>
    \/ \E m \in Answers : m.from = s /\ age + m.due = response[s] + Level(m.at)
    \/ \E p \in ProbePackets : s \in Below(p.at)
    \/ Entered(s, response[s] + 2) /\ \A m \in Answers : m.from # s

Timed == CopiesTogether /\ AnswersAreTimed /\ BusyCovers /\ ProbedFirst /\ AnswersCount

TimingInv ==
  /\ OneEntryEach /\ OptimalIsFastest /\ AnsweredIsKnown /\ NoPacketsAtRest
  /\ whole => Timed

\* Where the switches of the tree are.
LEMMA Tree ==
  /\ Probe \notin Servers
  /\ \A s \in Servers : Leaf[s] \in {"switch111", "switch112"}
  /\ Below(Root) = Servers /\ Below("switch11") = Servers
  /\ \A w \in {"switch111", "switch112"} : Below(w) = AtLeaf(w) /\ Children(w) = {} /\ Up[w] = "switch11"
  /\ AtLeaf(Root) = {} /\ AtLeaf("switch11") = {}
  /\ Children(Root) = {"switch11"} /\ Children("switch11") = {"switch111", "switch112"}
  /\ Up["switch11"] = Root
<1>1. Probe \notin Servers
  BY EdgeCloudAssumption DEF Probe
<1>2. \A s \in Servers : Leaf[s] \in {"switch111", "switch112"}
  BY EdgeCloudAssumption DEF Leaf
<1>3. /\ Up["switch11"] = Root /\ Up["switch111"] = "switch11" /\ Up["switch112"] = "switch11"
      /\ DOMAIN Up = {"switch11", "switch111", "switch112"}
  BY DEF Up, Switches, Root
<1>4. Below(Root) = Servers /\ Below("switch11") = Servers
  BY <1>2, <1>3 DEF Below, Root
<1>5. \A w \in {"switch111", "switch112"} : Below(w) = AtLeaf(w) /\ Children(w) = {}
  BY <1>2, <1>3 DEF Below, AtLeaf, Children, Root
<1>6. AtLeaf(Root) = {} /\ AtLeaf("switch11") = {}
  BY <1>2 DEF AtLeaf, Root
<1>7. Children(Root) = {"switch11"} /\ Children("switch11") = {"switch111", "switch112"}
  BY <1>3 DEF Children, Root
<1>8. QED
  BY <1>1, <1>2, <1>3, <1>4, <1>5, <1>6, <1>7

\* An answer that is timed is in the table with its time, the others are left as they are.
LEMMA UpdatedEntries ==
  ASSUME TypeOK, OneEntryEach, NEW s \in Servers, latency' = Updated(latency, s, age)
  PROVE  /\ OneEntryEach'
         /\ \E i \in DOMAIN latency' : latency'[i].mac = s /\ latency'[i].ms = age
         /\ \A r, ms : r # s /\ Entered(r, ms) => Entered(r, ms)'
<1> DEFINE e == [mac |-> s, ms |-> age]
           t == [i \in DOMAIN latency |-> IF latency[i].mac = s THEN e ELSE latency[i]]
<1>1. CASE \E i \in DOMAIN latency : latency[i].mac = s
  <2>1. latency' = t
    BY <1>1 DEF Updated
  <2>2. DOMAIN latency' = DOMAIN latency
        /\ \A i \in DOMAIN latency : /\ latency[i].mac = s => latency'[i] = e
                                     /\ latency[i].mac # s => latency'[i] = latency[i]
                                     /\ latency'[i].mac = latency[i].mac
    BY <2>1
  <2>3. QED
    BY <1>1, <2>2 DEF OneEntryEach, Entered
<1>2. CASE ~\E i \in DOMAIN latency : latency[i].mac = s
  <2>1. latency' = Append(latency, e)
    BY <1>2 DEF Updated
  <2>2. /\ Len(latency) \in Nat /\ DOMAIN latency = 1 .. Len(latency)
        /\ DOMAIN latency' = 1 .. Len(latency) + 1
        /\ \A i \in 1 .. Len(latency) : latency'[i] = latency[i]
        /\ latency'[Len(latency) + 1] = e
    <3>1. latency \in Seq(Entry) /\ e \in Entry
      BY DEF TypeOK, Entry
    <3>2. QED
      BY <2>1, <3>1, AppendProperties, LenProperties
  <2>3. \A i \in DOMAIN latency' : i \in DOMAIN latency \/ i = Len(latency) + 1
    BY <2>2
  <2>4. QED
    BY <1>2, <2>2, <2>3 DEF OneEntryEach, Entered
<1>3. QED
  BY <1>1, <1>2

\* A copy of a probe that a switch handles: the copies it sends on and the answers of its servers.
LEMMA ProbeKeepsTiming ==
  ASSUME TypeOK, TypeOK', TimingInv, NEW w \in Switches, ProbeAtSwitch(w)
  PROVE  TimingInv'
<1> USE DEF controller, network, orchestrator
<1>1. PICK work \in [AtLeaf(w) \cap known -> Work] :
        LET took == [s \in DOMAIN work |-> Sent(s, work[s]) + Delay[s]] IN
        /\ wire' = (IF copies[w] > 1 THEN wire ELSE Others(w, Probe))
             \cup {[at |-> v, from |-> Probe, due |-> Hop] :
                    v \in {c \in Children(w) : Below(c) \cap known # {}}}
             \cup {[at |-> w, from |-> s, due |-> took[s]] : s \in DOMAIN work}
        /\ busy' = [s \in Servers |-> IF s \in DOMAIN work THEN Sent(s, work[s]) ELSE busy[s]]
        /\ response' = [s \in Servers |-> IF s \in DOMAIN work THEN took[s] ELSE response[s]]
  BY DEF ProbeAtSwitch
<1> DEFINE took(s) == Sent(s, work[s]) + Delay[s]
           here == AtLeaf(w) \cap known
           next == {c \in Children(w) : Below(c) \cap known # {}}
<1>2. /\ \/ wire' = wire \cup {[at |-> v, from |-> Probe, due |-> Hop] : v \in next}
                 \cup {[at |-> w, from |-> s, due |-> took(s)] : s \in here}
         \/ wire' = Others(w, Probe) \cup {[at |-> v, from |-> Probe, due |-> Hop] : v \in next}
                 \cup {[at |-> w, from |-> s, due |-> took(s)] : s \in here}
      /\ \A s \in Servers : response'[s] = IF s \in here THEN took(s) ELSE response[s]
      /\ \A s \in Servers : busy'[s] = IF s \in here THEN took(s) - Delay[s] ELSE busy[s]
      /\ here \subseteq Servers \cap known
  <2>1. here \subseteq Servers \cap known /\ DOMAIN work = here
    BY DEF AtLeaf
  <2>2. \A s \in here : Sent(s, work[s]) = took(s) - Delay[s]
    <3>1. ASSUME NEW s \in here PROVE work[s] \in Nat /\ s \in Servers
      BY EdgeCloudAssumption DEF AtLeaf
    <3>2. QED
      BY <3>1, SentType
  <2>3. QED
    BY <1>1, <2>1, <2>2
<1>3. /\ UNCHANGED <<known, latency, optimal, whole, phase>>
      /\ age' = IF known \cap Servers = {} THEN age ELSE 0
      /\ started' \in {started, TRUE}
      /\ [at |-> w, from |-> Probe, due |-> 0] \in wire
  BY DEF ProbeAtSwitch, Counts, Due
<1>4. \A s \in here : took(s) \in Nat /\ took(s) > 0 /\ busy[s] + Delay[s] <= took(s)
  <2>1. ASSUME NEW s \in here PROVE work[s] \in Nat /\ s \in Servers
    BY EdgeCloudAssumption DEF AtLeaf
  <2>2. \A s \in here : busy[s] \in Nat
    BY DEF TypeOK, AtLeaf
  <2>3. QED
    BY <2>1, <2>2, SentType
<1> DEFINE probe == [at |-> w, from |-> Probe, due |-> 0]
           copy(v) == [at |-> v, from |-> Probe, due |-> Hop]
           answer(s) == [at |-> w, from |-> s, due |-> took(s)]
<1>5. /\ probe.at = w /\ probe.from = Probe /\ probe.due = 0
      /\ \A v : copy(v).at = v /\ copy(v).from = Probe /\ copy(v).due = 1
      /\ \A s : answer(s).at = w /\ answer(s).from = s /\ answer(s).due = took(s)
  BY DEF Hop
<1>6. /\ \A m \in wire' : \/ m \in wire
                          \/ \E v \in next : m = copy(v)
                          \/ \E s \in here : m = answer(s)
      /\ \A m \in wire : m # probe => m \in wire'
      /\ \A v \in next : copy(v) \in wire'
      /\ \A s \in here : answer(s) \in wire'
  BY <1>2 DEF Others
<1> HIDE DEF took, here, next, probe, copy, answer
<1>7. OneEntryEach' /\ OptimalIsFastest' /\ AnsweredIsKnown'
  <2>1. AnsweredIsKnown'
    BY <1>2, <1>3, <1>4 DEF TimingInv, AnsweredIsKnown
  <2>2. OneEntryEach'
    BY <1>3 DEF TimingInv, OneEntryEach
  <2>3. OptimalIsFastest'
    <3>1. started => started'
      BY <1>3
    <3>2. Fastest(latency)' = Fastest(latency)
      BY <1>3 DEF Fastest
    <3>3. QED
      BY <1>3, <3>1, <3>2 DEF TimingInv, OptimalIsFastest
  <2>4. QED
    BY <2>1, <2>2, <2>3
<1>8. NoPacketsAtRest'
  BY <1>3 DEF TimingInv, NoPacketsAtRest
<1>9. ASSUME whole' PROVE Timed'
  <2>1. CopiesTogether /\ AnswersAreTimed /\ BusyCovers /\ ProbedFirst /\ AnswersCount
    BY <1>3, <1>9 DEF TimingInv, Timed
  <2>2. probe \in ProbePackets
    BY <1>3, <1>5 DEF ProbePackets, probe
  <2>3. \A m \in ProbePackets : \/ m.due = 0 /\ Level(m.at) = Level(w)
                                \/ m.due = 1 /\ Level(w) = Level(m.at) + 1
    BY <1>5, <2>1, <2>2 DEF CopiesTogether, Hop
  <2>4. \A m \in Answers : age = 0 /\ age' = 0 /\ Level(w) = 0 /\ m.due > 0 /\ Level(m.at) = 0
    BY <1>3, <1>5, <2>1, <2>2 DEF ProbedFirst
  <2>5. Probe \notin Servers
    BY Tree
  <2>6. \A m \in ProbePackets' : m \in ProbePackets \/ \E v \in next : m = copy(v)
    BY <1>2, <1>5, <1>6, <2>5 DEF ProbePackets
  <2>7. \A m \in Answers' : m \in Answers \/ \E s \in here : m = answer(s)
    BY <1>5, <1>6, <2>5 DEF Answers
  <2>8. /\ \A m \in ProbePackets : m # probe => m \in ProbePackets'
        /\ \A v \in next : copy(v) \in ProbePackets'
        /\ \A m \in Answers : m \in Answers'
        /\ \A s \in here : answer(s) \in Answers'
    <3>1. \A s \in here : s # Probe
      BY <1>2, <2>5
    <3>2. QED
      BY <1>5, <1>6, <3>1 DEF ProbePackets, Answers
  <2>9. CopiesTogether'
    <3>1. \A v \in next : Level(w) = Level(v) + 1
      BY Tree DEF next, Level, Switches, Root
    <3>2. Level(w) \in Nat
      BY DEF Level
    <3>3. \A v \in next : Level(v) \in Nat
      BY DEF Level
    <3>4. ASSUME NEW m \in ProbePackets', NEW n \in ProbePackets'
          PROVE  \/ m.due = n.due /\ Level(m.at) = Level(n.at)
                 \/ m.due = 0 /\ n.due = 1 /\ Level(m.at) = Level(n.at) + 1
                 \/ n.due = 0 /\ m.due = 1 /\ Level(n.at) = Level(m.at) + 1
      <4>1. \A q \in ProbePackets' : \/ q.due = 0 /\ Level(q.at) = Level(w)
                                     \/ q.due = 1 /\ Level(w) = Level(q.at) + 1
        BY <1>5, <2>3, <2>6, <3>1
      <4>2. \A q : Level(q) \in Nat
        BY DEF Level
      <4>3. QED
        BY <4>1, <4>2
    <3>5. QED
      BY <3>4 DEF CopiesTogether, Hop
  <2>10. CASE w \in {"switch111", "switch112"}
    <3>1. next = {} /\ Level(w) = 0
      BY <2>10, Tree DEF next, Level, Root
    <3>2. here = Below(w) \cap known
      BY <2>10, Tree DEF here
    <3>3. \A p \in ProbePackets' : p \in ProbePackets
      BY <2>6, <3>1
    <3>4. \A m \in Answers : m.from \in Servers /\ m.due \in Nat
      BY <2>1 DEF AnswersAreTimed, Answers, TypeOK, Packet, Below
    <3>5. ASSUME NEW m \in Answers'
          PROVE  /\ m.from \in known /\ m.from \in Below(m.at) /\ Level(m.at) = 0
                 /\ m.due > 0 /\ age' = 0
                 /\ age' + m.due <= response'[m.from] + Level(m.at)
                 /\ m.due <= busy'[m.from] + Delay[m.from]
      <4>1. CASE m \in Answers
        <5>1. m.from \in known /\ m.from \in Below(m.at)
              /\ age + m.due <= response[m.from] + Level(m.at)
          BY <2>1, <4>1 DEF AnswersAreTimed
        <5>2. age = 0 /\ age' = 0 /\ Level(m.at) = 0 /\ m.due > 0
          BY <2>4, <4>1
        <5>3. m.due <= busy[m.from] + Delay[m.from]
          BY <2>1, <4>1, <5>2 DEF BusyCovers
        <5>4. /\ m.from \in Servers /\ m.due \in Nat /\ busy[m.from] \in Nat
              /\ response[m.from] \in Nat /\ Delay[m.from] \in Nat
          BY <3>4, <4>1, SentType DEF TypeOK
        <5>5. CASE m.from \in here
          <6>1. /\ response'[m.from] = took(m.from)
                /\ busy'[m.from] = took(m.from) - Delay[m.from]
                /\ took(m.from) \in Nat /\ busy[m.from] + Delay[m.from] <= took(m.from)
            BY <1>2, <1>4, <5>4, <5>5
          <6>2. QED
            BY <5>1, <5>2, <5>3, <5>4, <6>1
        <5>6. CASE m.from \notin here
          <6>1. response'[m.from] = response[m.from] /\ busy'[m.from] = busy[m.from]
            BY <1>2, <5>4, <5>6
          <6>2. QED
            BY <5>1, <5>2, <5>3, <5>4, <6>1
        <5>7. QED
          BY <5>5, <5>6
      <4>2. CASE \E s \in here : m = answer(s)
        <5>1. PICK s \in here : m = answer(s)
          BY <4>2
        <5>2. /\ m.from = s /\ m.at = w /\ m.due = took(s) /\ response'[s] = took(s)
              /\ busy'[s] = took(s) - Delay[s] /\ took(s) \in Nat /\ took(s) > 0
              /\ Delay[s] \in Nat
          <6>1. s \in Servers
            BY <1>2, <5>1
          <6>2. Delay[s] \in Nat
            BY <6>1, SentType
          <6>3. QED
            BY <1>2, <1>4, <1>5, <5>1, <6>1, <6>2
        <5>3. age' = 0
          BY <1>2, <1>3, <5>1
        <5>4. s \in known /\ s \in Below(w)
          BY <3>2, <5>1
        <5>5. QED
          BY <3>1, <5>2, <5>3, <5>4
      <4>3. QED
        BY <2>7, <4>1, <4>2
    <3>6. AnswersAreTimed' /\ BusyCovers'
      BY <1>3, <3>5 DEF AnswersAreTimed, BusyCovers, Below
    <3>7. ProbedFirst'
      <4>1. \A p \in ProbePackets' : p.due = 0 /\ Level(p.at) = 0
        <5>1. \A x : Level(x) \in Nat
          BY DEF Level
        <5>2. QED
          BY <2>3, <3>1, <3>3, <5>1
      <4>2. QED
        BY <3>5, <4>1 DEF ProbedFirst
    <3>8. ASSUME NEW s \in Servers, response'[s] > 0
          PROVE  \/ \E m \in Answers' : m.from = s /\ age' + m.due = response'[s] + Level(m.at)
                 \/ \E p \in ProbePackets' : s \in Below(p.at)
                 \/ /\ Entered(s, response[s] + 2) /\ response'[s] = response[s]
                    /\ \A m \in Answers' : m.from # s
      <4>1. CASE s \in here
        <5>1. answer(s) \in Answers' /\ answer(s).from = s /\ answer(s).at = w
              /\ answer(s).due = took(s) /\ response'[s] = took(s) /\ took(s) \in Nat
          BY <1>2, <1>4, <1>5, <2>8, <4>1
        <5>2. age' = 0
          BY <1>2, <1>3, <4>1
        <5>3. age' + answer(s).due = response'[s] + Level(answer(s).at)
          BY <3>1, <5>1, <5>2
        <5>4. QED
          BY <5>1, <5>3
      <4>2. CASE s \notin here
        <5>1. response'[s] = response[s] /\ response[s] > 0 /\ s \in known
          BY <1>2, <3>8, <4>2 DEF TimingInv, AnsweredIsKnown
        <5>2. s \notin Below(w)
          BY <3>2, <4>2, <5>1
        <5>3. CASE \E p \in ProbePackets : s \in Below(p.at)
          <6>1. PICK p \in ProbePackets : s \in Below(p.at)
            BY <5>3
          <6>2. p # probe
            BY <1>5, <5>2, <6>1
          <6>3. QED
            BY <2>8, <6>1, <6>2
        <5>4. CASE \E m \in Answers : m.from = s /\ age + m.due = response[s] + Level(m.at)
          BY <2>4, <2>8, <5>1, <5>4
        <5>5. CASE Entered(s, response[s] + 2) /\ \A m \in Answers : m.from # s
          BY <1>5, <2>7, <4>2, <5>1, <5>5
        <5>6. QED
          BY <2>1, <5>1, <5>3, <5>4, <5>5 DEF AnswersCount
      <4>3. QED
        BY <4>1, <4>2
    <3>9. AnswersCount'
      BY <1>3, <3>8 DEF AnswersCount, Entered, Below
    <3>10. QED
      BY <2>9, <3>6, <3>7, <3>9 DEF Timed
  <2>11. CASE w \in {Root, "switch11"}
    <3>1. here = {}
      BY <2>11, Tree DEF here
    <3>2. Answers = {}
      <4>1. Level(w) > 0
        BY <2>11 DEF Level, Root
      <4>2. QED
        BY <2>4, <4>1
    <3>3. Answers' = {}
      BY <2>7, <3>1, <3>2
    <3>4. AnswersAreTimed' /\ BusyCovers' /\ ProbedFirst'
      BY <3>3 DEF AnswersAreTimed, BusyCovers, ProbedFirst
    <3>5. ASSUME NEW s \in Servers, response'[s] > 0
           PROVE  \E p \in ProbePackets' : s \in Below(p.at)
      <4>1. s \in known
        BY <1>2, <3>1, <3>5 DEF TimingInv, AnsweredIsKnown
      <4>2. \E v \in Children(w) : s \in Below(v)
        <5>1. s \in Below("switch11")
          BY Tree
        <5>2. s \in AtLeaf("switch111") \/ s \in AtLeaf("switch112")
          BY Tree DEF AtLeaf
        <5>3. QED
          BY <2>11, <5>1, <5>2, Tree
      <4>3. PICK v \in Children(w) : s \in Below(v)
        BY <4>2
      <4>4. v \in next
        BY <4>1, <4>3 DEF next
      <4>5. copy(v) \in ProbePackets' /\ copy(v).at = v
        BY <1>5, <2>8, <4>4
      <4>6. QED
        BY <4>3, <4>5
    <3>6. AnswersCount'
      BY <3>5 DEF AnswersCount, Below
    <3>7. QED
      BY <2>9, <3>4, <3>6 DEF Timed
  <2>12. QED
    BY <2>10, <2>11 DEF Switches, Root
<1>10. QED
  BY <1>7, <1>8, <1>9 DEF TimingInv

\* An answer that a switch times and sends up, unless the handler raises.
LEMMA ReplyKeepsTiming ==
  ASSUME TypeOK, TypeOK', TimingInv, NEW s \in Servers, NEW w \in Switches, ReplyAtSwitch(s, w)
  PROVE  TimingInv'
<1> USE DEF controller, network, orchestrator
<1> DEFINE here == [at |-> w, from |-> s, due |-> 0]
           there == [at |-> Up[w], from |-> s, due |-> Hop]
<1>1. /\ UNCHANGED <<known, age, busy, response, phase>>
      /\ here \in wire
      /\ started' \in {started, TRUE}
      /\ latency' = Updated(latency, s, age)
  BY DEF ReplyAtSwitch, Reply, Due, Counts
<1>2. \/ optimal' = Fastest(latency') /\ started'
      \/ optimal' = optimal /\ (started' => Fastest(latency') = optimal)
  BY DEF ReplyAtSwitch, Reply
<1>3. /\ here.at = w /\ here.from = s /\ here.due = 0
      /\ there.at = Up[w] /\ there.from = s /\ there.due = 1
      /\ s # Probe
  BY Tree DEF Hop
<1>4. whole' => whole /\ wire' = (wire \ {here}) \cup (IF w = Root THEN {} ELSE {there})
  BY DEF ReplyAtSwitch, Reply, Others
<1>5. wire # {} /\ phase \notin {"start", "ended"}
  BY <1>1 DEF TimingInv, NoPacketsAtRest
<1> HIDE DEF here, there
<1>6. /\ OneEntryEach'
      /\ \E i \in DOMAIN latency' : latency'[i].mac = s /\ latency'[i].ms = age
      /\ \A r, ms : r # s /\ Entered(r, ms) => Entered(r, ms)'
  BY <1>1, UpdatedEntries DEF TimingInv
<1>7. latency' # <<>>
  BY <1>1, UpdatedType DEF TypeOK
<1>8. OptimalIsFastest'
  <2>1. Fastest(latency)' = Fastest(latency')
    BY DEF Fastest
  <2>2. started => started'
    BY <1>1
  <2>3. QED
    BY <1>2, <1>7, <2>1, <2>2 DEF TimingInv, OptimalIsFastest
<1>9. AnsweredIsKnown' /\ NoPacketsAtRest'
  BY <1>1, <1>5 DEF TimingInv, AnsweredIsKnown, NoPacketsAtRest
<1>10. ASSUME whole' PROVE Timed'
  <2>1. CopiesTogether /\ AnswersAreTimed /\ BusyCovers /\ ProbedFirst /\ AnswersCount
    BY <1>4, <1>10 DEF TimingInv, Timed
  <2>2. wire' = (wire \ {here}) \cup (IF w = Root THEN {} ELSE {there})
    BY <1>4, <1>10
  <2>3. here \in Answers
    BY <1>1, <1>3 DEF Answers
  <2>4. ProbePackets = {}
    BY <1>3, <2>1, <2>3 DEF ProbedFirst
  <2>5. ProbePackets' = {}
    BY <1>3, <2>2, <2>4 DEF ProbePackets
  <2>6. s \in known /\ s \in Below(w) /\ age <= response[s] + Level(w)
    <3>1. age + 0 <= response[s] + Level(w) /\ age \in Nat
      BY <1>3, <2>1, <2>3 DEF AnswersAreTimed, TypeOK
    <3>2. QED
      BY <1>3, <2>1, <2>3, <3>1 DEF AnswersAreTimed
  <2>7. w # Root => Level(Up[w]) = Level(w) + 1 /\ s \in Below(Up[w])
    BY Tree DEF Level, Switches, Root
  <2>8. age \in Nat /\ response[s] \in Nat /\ Level(w) \in Nat
    BY DEF TypeOK, Level
  <2>9. \A m \in Answers' : m \in Answers \/ (m = there /\ w # Root)
    BY <2>2 DEF Answers
  <2>10. AnswersAreTimed' /\ BusyCovers'
    <3> SUFFICES ASSUME NEW m \in Answers'
                 PROVE  /\ m.from \in known /\ m.from \in Below(m.at)
                        /\ age + m.due <= response[m.from] + Level(m.at)
                        /\ Level(m.at) = 0 => m.due <= busy[m.from] + Delay[m.from]
      BY <1>1 DEF AnswersAreTimed, BusyCovers, Below
    <3>1. CASE m \in Answers
      BY <2>1, <3>1 DEF AnswersAreTimed, BusyCovers
    <3>2. CASE m = there /\ w # Root
      BY <1>3, <2>6, <2>7, <2>8, <3>2
    <3>3. QED
      BY <2>9, <3>1, <3>2
  <2>11. AnswersCount'
    <3> SUFFICES ASSUME NEW r \in Servers, response[r] > 0
                 PROVE  \/ \E m \in Answers' : m.from = r /\ age + m.due = response[r] + Level(m.at)
                        \/ /\ Entered(r, response[r] + 2)'
                           /\ \A m \in Answers' : m.from # r
      BY <1>1 DEF AnswersCount, Entered
    <3>1. CASE r # s
      <4>1. CASE \E m \in Answers : m.from = r /\ age + m.due = response[r] + Level(m.at)
        <5>1. PICK m \in Answers : m.from = r /\ age + m.due = response[r] + Level(m.at)
          BY <4>1
        <5>2. m \in Answers'
          BY <1>3, <2>2, <3>1, <5>1 DEF Answers
        <5>3. QED
          BY <5>1, <5>2
      <4>2. CASE Entered(r, response[r] + 2) /\ \A m \in Answers : m.from # r
        <5>1. \A m \in Answers' : m.from # r
          BY <1>3, <2>9, <3>1, <4>2
        <5>2. Entered(r, response[r] + 2)'
          BY <1>1, <1>6, <3>1, <4>2 DEF Entered
        <5>3. QED
          BY <5>1, <5>2
      <4>3. QED
        BY <2>1, <2>4, <4>1, <4>2 DEF AnswersCount
    <3>2. CASE r = s
      <4>1. PICK m \in Answers : m.from = s /\ age + m.due = response[s] + Level(m.at)
        BY <1>3, <2>1, <2>3, <2>4, <3>2 DEF AnswersCount
      <4>2. CASE m # here
        <5>1. m \in Answers'
          BY <2>2, <4>1, <4>2 DEF Answers
        <5>2. QED
          BY <3>2, <4>1, <5>1
      <4>3. CASE m = here /\ w # Root
        <5>1. there \in Answers'
          BY <1>3, <2>2, <4>3 DEF Answers
        <5>2. age + there.due = response[s] + Level(there.at) /\ there.from = s
          BY <1>3, <2>7, <2>8, <4>1, <4>3
        <5>3. QED
          BY <3>2, <5>1, <5>2
      <4>4. CASE m = here /\ w = Root
        <5>1. age = response[s] + 2
          BY <1>3, <2>8, <4>1, <4>4 DEF Level
        <5>2. Entered(s, response[s] + 2)'
          BY <1>1, <1>6, <5>1 DEF Entered
        <5>3. ASSUME NEW n \in Answers', n.from = s PROVE FALSE
          <6>1. n \in Answers /\ n # here
            BY <2>2, <4>4, <5>3 DEF Answers
          <6>2. n \in Packet
            BY <6>1 DEF Answers, TypeOK
          <6>3. age + n.due <= response[s] + Level(n.at)
            BY <2>1, <5>3, <6>1 DEF AnswersAreTimed
          <6>4. n.due \in Nat /\ n.at \in Switches /\ n = [at |-> n.at, from |-> n.from, due |-> n.due]
            BY <6>2 DEF Packet
          <6>5. n.due = 0 /\ n.at = Root
            <7>1. Level(n.at) \in {0, 1, 2} /\ (Level(n.at) = 2 => n.at = Root)
              BY DEF Level
            <7>2. QED
              BY <2>8, <5>1, <6>3, <6>4, <7>1
          <6>6. QED
            BY <4>4, <5>3, <6>1, <6>4, <6>5 DEF here
        <5>4. QED
          BY <3>2, <5>2, <5>3
      <4>5. QED
        BY <4>2, <4>3, <4>4
    <3>3. QED
      BY <3>1, <3>2
  <2>12. QED
    BY <2>5, <2>10, <2>11 DEF Timed, CopiesTogether, ProbedFirst
<1>11. QED
  BY <1>6, <1>8, <1>9, <1>10 DEF TimingInv

\* Time that passes until the next arrival.
LEMMA TickKeepsTiming ==
  ASSUME TypeOK, TypeOK', TimingInv, Tick
  PROVE  TimingInv'
<1> USE DEF controller, network, orchestrator
<1> DEFINE Dues == {m.due : m \in wire}
           step == CHOOSE d \in Dues : \A m \in wire : d <= m.due
           later(m) == [m EXCEPT !.due = @ - step]
<1>1. Dues \in SUBSET Nat /\ Dues # {}
  BY DEF Tick, TypeOK, Packet
<1>2. step \in Dues
  <2>1. PICK d \in Dues : \A y \in Dues : d <= y
    BY <1>1, NatsHaveLeast
  <2>2. \A m \in wire : d <= m.due
    BY <2>1
  <2>3. QED
    BY <2>1, <2>2
<1>3. /\ wire' = {later(m) : m \in wire} /\ age' = age + step
      /\ busy' = [s \in Servers |-> IF busy[s] > step THEN busy[s] - step ELSE 0]
      /\ UNCHANGED <<known, started, latency, optimal, whole, response, phase>>
      /\ \A m \in wire : m.due > 0
      /\ wire # {}
  BY DEF Tick
<1>4. step \in Nat
  BY <1>1, <1>2
<1> HIDE DEF step
<1>5. \A m \in wire : /\ later(m).at = m.at /\ later(m).from = m.from
                       /\ later(m).due = m.due - step /\ m.due \in Nat
  <2>1. ASSUME NEW m \in wire
        PROVE  /\ later(m).at = m.at /\ later(m).from = m.from
               /\ later(m).due = m.due - step /\ m.due \in Nat
    <3>1. m \in Packet
      BY DEF TypeOK
    <3>2. QED
      BY <3>1 DEF Packet
  <2>2. QED
    BY <2>1
<1> HIDE DEF later
<1>6. /\ \A m \in ProbePackets' : \E n \in ProbePackets : m = later(n)
      /\ \A m \in Answers' : \E n \in Answers : m = later(n)
      /\ \A n \in ProbePackets : later(n) \in ProbePackets'
      /\ \A n \in Answers : later(n) \in Answers'
  BY <1>3, <1>5 DEF ProbePackets, Answers
<1>7. ProbePackets \subseteq wire /\ Answers \subseteq wire
  BY DEF ProbePackets, Answers
<1>8. OneEntryEach' /\ AnsweredIsKnown' /\ NoPacketsAtRest'
  BY <1>3 DEF TimingInv, OneEntryEach, AnsweredIsKnown, NoPacketsAtRest
<1>9. OptimalIsFastest'
  <2>1. Fastest(latency)' = Fastest(latency)
    BY <1>3 DEF Fastest
  <2>2. QED
    BY <1>3, <2>1 DEF TimingInv, OptimalIsFastest
<1>10. ASSUME whole' PROVE Timed'
  <2>1. CopiesTogether /\ AnswersAreTimed /\ BusyCovers /\ ProbedFirst /\ AnswersCount
    BY <1>3, <1>10 DEF TimingInv, Timed
  <2>2. CopiesTogether'
    <3>1. \A m, n \in ProbePackets : m.due = n.due /\ Level(m.at) = Level(n.at)
      BY <1>3, <1>7, <2>1 DEF CopiesTogether
    <3>2. QED
      BY <1>5, <1>6, <1>7, <3>1 DEF CopiesTogether
  <2>3. \A n \in Answers : /\ later(n).at = n.at /\ later(n).from = n.from
                           /\ later(n).due = n.due - step /\ n.due \in Nat
                           /\ age' + later(n).due = age + n.due
    BY <1>3, <1>4, <1>5, <1>7 DEF TypeOK
  <2>4. AnswersAreTimed'
    <3> SUFFICES ASSUME NEW m \in Answers'
                 PROVE  /\ m.from \in known /\ m.from \in Below(m.at)
                        /\ age' + m.due <= response[m.from] + Level(m.at)
      BY <1>3 DEF AnswersAreTimed, Below
    <3>1. PICK n \in Answers : m = later(n)
      BY <1>6
    <3>2. QED
      BY <2>1, <2>3, <3>1 DEF AnswersAreTimed
  <2>5. BusyCovers'
    <3> SUFFICES ASSUME NEW m \in Answers', Level(m.at) = 0
                 PROVE  m.due <= busy'[m.from] + Delay[m.from]
      BY DEF BusyCovers
    <3>1. PICK n \in Answers : m = later(n)
      BY <1>6
    <3>2. m.due = n.due - step /\ m.from = n.from /\ n.due \in Nat
          /\ n.due <= busy[n.from] + Delay[n.from]
      BY <2>1, <2>3, <3>1 DEF BusyCovers
    <3>3. n.from \in Servers
      BY <2>1 DEF AnswersAreTimed, Below
    <3>4. busy'[n.from] = IF busy[n.from] > step THEN busy[n.from] - step ELSE 0
      BY <1>3, <3>3
    <3>5. busy[n.from] \in Nat /\ Delay[n.from] \in Nat
      BY <3>3, SentType DEF TypeOK
    <3>6. QED
      BY <1>4, <3>2, <3>4, <3>5
  <2>6. ProbePackets = {} \/ Answers = {}
    BY <1>3, <1>7, <2>1 DEF ProbedFirst
  <2>7. ProbedFirst'
    BY <1>6, <2>6 DEF ProbedFirst
  <2>8. AnswersCount'
    <3> SUFFICES ASSUME NEW s \in Servers, response[s] > 0
                 PROVE  \/ \E m \in Answers' : m.from = s /\ age' + m.due = response[s] + Level(m.at)
                        \/ \E p \in ProbePackets' : s \in Below(p.at)
                        \/ Entered(s, response[s] + 2) /\ \A m \in Answers' : m.from # s
      BY <1>3 DEF AnswersCount, Entered, Below
    <3>1. CASE \E m \in Answers : m.from = s /\ age + m.due = response[s] + Level(m.at)
      BY <1>6, <2>3, <3>1
    <3>2. CASE \E p \in ProbePackets : s \in Below(p.at)
      BY <1>5, <1>6, <1>7, <3>2
    <3>3. CASE Entered(s, response[s] + 2) /\ \A m \in Answers : m.from # s
      BY <1>6, <2>3, <3>3
    <3>4. QED
      BY <2>1, <3>1, <3>2, <3>3 DEF AnswersCount
  <2>9. QED
    BY <2>2, <2>4, <2>5, <2>7, <2>8 DEF Timed
<1>11. QED
  BY <1>8, <1>9, <1>10 DEF TimingInv

\* What is known of the times on the way holds in every state.
THEOREM TimingCorrect == Spec => []TimingInv
<1> USE DEF controller, network, orchestrator
<1>1. Init => TimingInv
  <2> SUFFICES ASSUME Init PROVE TimingInv
    OBVIOUS
  <2>1. OneEntryEach /\ OptimalIsFastest /\ NoPacketsAtRest
    BY DEF Init, OneEntryEach, OptimalIsFastest, NoPacketsAtRest
  <2>2. AnsweredIsKnown
    BY DEF Init, AnsweredIsKnown
  <2>3. QED
    BY <2>1, <2>2 DEF Init, TimingInv
<1>2. TypeOK /\ TypeOK' /\ TimingInv /\ [Next]_vars => TimingInv'
  <2> SUFFICES ASSUME TypeOK, TypeOK', TimingInv, [Next]_vars PROVE TimingInv'
    OBVIOUS
  <2> DEFINE Same == UNCHANGED <<age, latency, optimal, response>>
  <2>1. ASSUME Same, started => started', known \subseteq known'
        PROVE  /\ OneEntryEach' /\ OptimalIsFastest' /\ AnsweredIsKnown'
               /\ \A s, ms : Entered(s, ms) => Entered(s, ms)'
    <3>1. Fastest(latency)' = Fastest(latency)
      BY <2>1 DEF Fastest
    <3>2. OneEntryEach' /\ AnsweredIsKnown' /\ \A s, ms : Entered(s, ms) => Entered(s, ms)'
      BY <2>1 DEF TimingInv, OneEntryEach, AnsweredIsKnown, Entered
    <3>3. QED
      BY <2>1, <3>1, <3>2 DEF TimingInv, OptimalIsFastest
  <2>2. ASSUME Same, started => started', known \subseteq known', UNCHANGED <<wire, busy>>, whole' => whole
        PROVE  whole' => Timed'
    <3>1. ProbePackets' = ProbePackets /\ Answers' = Answers
      BY <2>2 DEF ProbePackets, Answers
    <3>2. ASSUME whole' PROVE CopiesTogether /\ AnswersAreTimed /\ BusyCovers /\ ProbedFirst /\ AnswersCount
      BY <2>2, <3>2 DEF TimingInv, Timed
    <3>3. whole' => CopiesTogether'
      BY <3>1, <3>2 DEF CopiesTogether
    <3>4. whole' => AnswersAreTimed'
      BY <2>2, <3>1, <3>2 DEF AnswersAreTimed, Below
    <3>5. whole' => ProbedFirst'
      BY <2>2, <3>1, <3>2 DEF ProbedFirst, Below
    <3>6. whole' => AnswersCount'
      BY <2>2, <3>1, <3>2 DEF AnswersCount, Entered, Below
    <3>7. whole' => BusyCovers'
      BY <2>2, <3>1, <3>2 DEF BusyCovers
    <3>8. QED
      BY <3>3, <3>4, <3>5, <3>6, <3>7 DEF Timed
  <2>3. CASE PingAll \/ Request
    <3>1. Counts /\ Same /\ UNCHANGED <<wire, busy, whole>> /\ known \subseteq known'
      BY <2>3 DEF PingAll, Request
    <3>2. started => started'
      BY <3>1, Zenon DEF Counts
    <3>3. phase' \notin {"start", "ended"}
      BY <2>3 DEF PingAll, Request, Running
    <3>4. QED
      BY <2>1, <2>2, <3>1, <3>2, <3>3 DEF TimingInv, NoPacketsAtRest
  <2>4. CASE ProbeSends
    <3> DEFINE probe == [at |-> Root, from |-> Probe, due |-> 0]
    <3>1. Same /\ UNCHANGED <<started, known, phase>> /\ phase \notin {"start", "ended"}
          /\ wire' = wire \cup {probe} /\ whole' = (wire = {})
      BY <2>4 DEF ProbeSends, Running
    <3>2. ASSUME whole' PROVE Timed'
      <4>1. wire' = {probe} /\ probe.from = Probe /\ probe.at = Root
        BY <3>1, <3>2
      <4>2. ProbePackets' = {probe} /\ Answers' = {}
        BY <4>1 DEF ProbePackets, Answers
      <4>3. AnswersCount'
        BY <4>1, <4>2, Tree DEF AnswersCount, Below
      <4>4. QED
        BY <4>2, <4>3 DEF Timed, CopiesTogether, AnswersAreTimed, BusyCovers, ProbedFirst
    <3>3. QED
      BY <2>1, <3>1, <3>2 DEF TimingInv, NoPacketsAtRest
  <2>5. CASE Tick
    BY <2>5, TickKeepsTiming
  <2>6. ASSUME NEW w \in Switches, ProbeAtSwitch(w) PROVE TimingInv'
    BY <2>6, ProbeKeepsTiming
  <2>7. ASSUME NEW s \in Servers, NEW w \in Switches, ReplyAtSwitch(s, w) PROVE TimingInv'
    BY <2>7, ReplyKeepsTiming
  <2>8. CASE Listen \/ Receive \/ Deploy \/ Wake
    <3>1. Same /\ UNCHANGED <<started, known, wire, busy, whole>> /\ phase' \notin {"start", "ended"}
      BY <2>8 DEF Listen, Receive, Deploy, Wake
    <3>2. QED
      BY <2>1, <2>2, <3>1 DEF TimingInv, NoPacketsAtRest
  <2>9. CASE Close
    <3>1. Same /\ UNCHANGED <<started, known>> /\ wire' = {} /\ whole' = (whole /\ wire = {})
      BY <2>9 DEF Close
    <3>2. ASSUME whole' PROVE Timed'
      <4>1. wire = {} /\ AnswersCount
        BY <3>1, <3>2 DEF TimingInv, Timed
      <4>2. Answers = {} /\ ProbePackets = {} /\ Answers' = {} /\ ProbePackets' = {}
        BY <3>1, <4>1 DEF Answers, ProbePackets
      <4>3. AnswersCount'
        BY <3>1, <4>1, <4>2 DEF AnswersCount, Entered, Below
      <4>4. QED
        BY <4>2, <4>3 DEF Timed, CopiesTogether, AnswersAreTimed, BusyCovers, ProbedFirst
    <3>3. QED
      BY <2>1, <3>1, <3>2 DEF TimingInv, NoPacketsAtRest
  <2>10. CASE RunAgain
    <3>1. Same /\ UNCHANGED <<started, known, wire, busy, whole>> /\ phase = "ended"
      BY <2>10 DEF RunAgain
    <3>2. QED
      BY <2>1, <2>2, <3>1 DEF TimingInv, NoPacketsAtRest
  <2>11. CASE UNCHANGED vars
    <3>1. Same /\ UNCHANGED <<started, known, wire, busy, whole, phase>>
      BY <2>11 DEF vars
    <3>2. QED
      BY <2>1, <2>2, <3>1 DEF TimingInv, NoPacketsAtRest
  <2>12. QED
    BY <2>3, <2>4, <2>5, <2>6, <2>7, <2>8, <2>9, <2>10, <2>11 DEF Next, Orchestrator
<1>3. QED
  BY <1>1, <1>2, TypeCorrect, PTL DEF Spec

\* When all servers have answered a probe in time, the best server is one whose last answer came
\* back first.
THEOREM FastestWinsHolds == Spec => []FastestWins
<1>1. TypeOK /\ TimingInv => FastestWins
  <2> SUFFICES ASSUME TypeOK, TimingInv, whole, wire = {}, optimal # NoServer,
                      Servers \subseteq known, \A s \in Servers : response[s] > 0
               PROVE  \A s \in Servers : response[optimal] <= response[s]
    BY DEF FastestWins
  <2>1. \A s \in Servers : Entered(s, response[s] + 2)
    BY DEF TimingInv, Timed, AnswersCount, Answers, ProbePackets
  <2>2. latency \in Seq(Entry) /\ latency # <<>> /\ optimal = Fastest(latency)
    BY DEF TimingInv, OptimalIsFastest, TypeOK
  <2>3. PICK i \in DOMAIN latency :
          latency[i].mac = optimal /\ \A j \in DOMAIN latency : latency[i].ms <= latency[j].ms
    BY <2>2, FastestIsLeast
  <2>4. optimal \in Servers
    BY <2>2, FastestIsLeast
  <2>5. latency[i].ms = response[optimal] + 2
    BY <2>1, <2>3, <2>4 DEF Entered, TimingInv, OneEntryEach
  <2>6. ASSUME NEW s \in Servers PROVE response[optimal] <= response[s]
    <3>1. PICK j \in DOMAIN latency : latency[j].mac = s /\ latency[j].ms = response[s] + 2
      BY <2>1 DEF Entered
    <3>2. response[optimal] + 2 <= response[s] + 2
      BY <2>3, <2>5, <3>1
    <3>3. response[optimal] \in Nat /\ response[s] \in Nat
      BY <2>4 DEF TypeOK
    <3>4. QED
      BY <3>2, <3>3
  <2>7. QED
    BY <2>6
<1>2. QED
  BY <1>1, TypeCorrect, TimingCorrect, PTL
=============================================================================
