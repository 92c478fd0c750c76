-------------------------- MODULE DeploymentProofs --------------------------
(***************************************************************************)
(* Proofs about what containers are deployed with, the two modules apart:  *)
(* first DockerHost, for any number of shells: what a call reads is the    *)
(* output of its own command, and no shell is left running; then           *)
(* ExperimentScript, for all the scripts and any number of runs, faults    *)
(* and containers that end: what they leave behind, and what the clean-up  *)
(* leaves behind.                                                          *)
(***************************************************************************)
EXTENDS DockerHost, ExperimentScript, SequenceLemmas

Commands == {"setup", "cmd", "line"}

\* Every variable holds a value of its type.
TypeOK ==
  /\ container \in {"none", "created", "running", "gone"} /\ refused \in BOOLEAN
  /\ opened \in 0 .. MaxShells
  /\ shell \in {0, opened}
  /\ slaves \subseteq 1 .. opened
  /\ starting \subseteq procs /\ busy \subseteq procs /\ procs \subseteq 1 .. opened
  /\ unread \in [Shells -> Nat]
  /\ waiting \in BOOLEAN
  /\ pc \in Working \cup {"idle", "raised", "closed"}
  /\ stack \in Seq(Commands)
  /\ pc \in {"check", "poll", "send", "output", "node"} => stack # <<>>

\* Where the emulator is when it awaits no prompt of the shell in use, or awaits one.
Calling == {"idle", "check", "poll", "send"}
Awaiting == {"output", "node"}

\* Until the host is closed the emulator forgets its shell only when the container is gone, and
\* from then on does not start another one.
ShellIsKnown ==
  /\ container # "gone" /\ pc # "closed" => shell = opened
  /\ pc \in {"create", "boot"} => opened = 0
  /\ pc \in {"poll", "prompt"} => shell = opened
  /\ pc = "reap" => shell = opened

\* Only the shell that was started last may run, behind a terminal that is closed at the end.
LastShellOnly ==
  /\ procs \subseteq {opened}
  /\ pc \notin {"reap", "closed"} /\ opened # 0 => opened \in slaves
  /\ pc = "closed" /\ opened \notin slaves /\ WaitExited => procs = {}

\* What the shell in use still has to print and the emulator to read, by where the emulator is:
\* the first prompt; nothing, if no command is under way; one prompt, of the command it awaits.
\* After an interrupt waiting stays set and the number of prompts is not known.
PromptsAreCounted ==
  /\ \A s \in Shells : s > opened => unread[s] = 0
  /\ pc = "prompt" =>
       /\ opened # 0 /\ opened \notin busy
       /\ unread[opened] = 0 \/ (unread[opened] = 1 /\ opened \notin starting)
  /\ shell # 0 /\ pc \in Calling /\ ~waiting => unread[shell] = 0 /\ shell \notin busy \cup starting
  /\ shell # 0 /\ pc \in Awaiting =>
       /\ waiting /\ shell \notin starting
       /\ unread[shell] = 0 \/ (unread[shell] = 1 /\ shell \notin busy)
       /\ shell \in procs => unread[shell] = 1 \/ shell \in busy

HostInv == TypeOK /\ ShellIsKnown /\ LastShellOnly /\ PromptsAreCounted

----------------------------------------------------------------------------
\* A new shell has the next number, which is in range.
LEMMA StartShellType ==
  ASSUME TypeOK, StartShell, UNCHANGED <<container, refused, busy, unread, waiting, stack>>
  PROVE  TypeOK'
BY DockerHostAssumption DEF TypeOK, StartShell, Working

\* A command that is back leaves the ones it was sent for.
LEMMA ReturnType ==
  ASSUME TypeOK, Return, stack # <<>>
  PROVE  /\ stack' \in Seq(Commands) /\ pc' \in {"idle", "send"}
         /\ pc' = "send" => stack' # <<>>
<1>1. stack' \in Seq(Commands) /\ Len(stack') = Len(stack) - 1 /\ Len(stack) \in Nat /\ Len(stack) # 0
  BY HeadTailProperties, LenProperties, EmptySeq DEF TypeOK, Return
<1>2. pc' = "send" => Len(stack') # 0
  BY <1>1 DEF Return
<1>3. QED
  BY <1>1, <1>2 DEF Return

\* The variables have their types in every state, for any number of shells.
THEOREM TypeCorrect == Spec => []TypeOK
<1>1. Init => TypeOK
  <2> SUFFICES ASSUME Init PROVE TypeOK
    OBVIOUS
  <2>1. stack \in Seq(Commands) /\ unread \in [Shells -> Nat]
    BY EmptySeq DEF Init
  <2>2. opened \in 0 .. MaxShells /\ shell \in {0, opened}
    BY DockerHostAssumption DEF Init
  <2>3. waiting \in BOOLEAN
    BY DEF Init
  <2>4. QED
    BY <2>1, <2>2, <2>3 DEF Init, TypeOK, Working
<1>2. TypeOK /\ [Next]_vars => TypeOK'
  <2> SUFFICES ASSUME TypeOK, [Next]_vars PROVE TypeOK'
    OBVIOUS
  <2> USE DEF docker, terminal
  <2>1. CASE Create
    BY <2>1 DEF Create, TypeOK, Working
  <2>2. CASE Boot
    BY <2>2, StartShellType DEF Boot, TypeOK, Working
  <2>3. CASE ReadPrompt
    <3>1. stack' \in Seq(Commands) /\ stack' # <<>>
      <4>1. <<"setup">> \in Seq(Commands) /\ Len(<<"setup">>) = 1
        BY DEF Commands
      <4>2. stack' \in Seq(Commands) /\ Len(stack') = 1 + Len(stack) /\ Len(stack) \in Nat
        BY <2>3, <4>1, ConcatProperties, LenProperties DEF ReadPrompt, TypeOK
      <4>3. QED
        BY <4>2, EmptySeq
    <3>2. QED
      BY <2>3, <3>1 DEF ReadPrompt, TypeOK, Working
  <2>4. CASE Call
    <3>1. <<"cmd">> \in Seq(Commands) /\ <<"line">> \in Seq(Commands)
      BY DEF Commands
    <3>2. <<"cmd">> # <<>> /\ <<"line">> # <<>>
      OBVIOUS
    <3>3. stack' \in Seq(Commands) /\ stack' # <<>>
      BY <2>4, <3>1, <3>2 DEF Call
    <3>4. QED
      BY <2>4, <3>3 DEF Call, TypeOK, Working
  <2>5. CASE CheckContainer
    BY <2>5 DEF CheckContainer, Await, TypeOK, Working
  <2>6. CASE PollShell
    BY <2>6, StartShellType DEF PollShell, TypeOK, Working
  <2>7. CASE Send
    <3>1. busy' \subseteq procs
      <4>1. busy' = busy \/ (busy' = busy \cup {shell} /\ shell \in procs)
        BY <2>7, Zenon DEF Send
      <4>2. QED
        BY <4>1 DEF TypeOK
    <3>2. waiting' \in BOOLEAN
      BY <2>7, Zenon DEF Send, TypeOK
    <3>3. pc' \in {"output", "node", "raised"} /\ pc = "send"
      BY <2>7 DEF Send, Await
    <3>4. UNCHANGED <<container, refused, procs, starting, terminal, unread, stack>>
      BY <2>7 DEF Send
    <3>5. QED
      BY <3>1, <3>2, <3>3, <3>4 DEF TypeOK, Working
  <2>8. CASE WaitOutput
    <3>1. Return /\ stack # <<>> /\ UNCHANGED <<docker, terminal>>
      BY <2>8 DEF WaitOutput, TypeOK
    <3>2. unread' \in [Shells -> Nat]
      BY <2>8 DEF WaitOutput, Monitor, TypeOK
    <3>3. waiting' \in BOOLEAN
      BY <2>8, Zenon DEF WaitOutput, Monitor, TypeOK
    <3>4. QED
      BY <3>1, <3>2, <3>3, ReturnType DEF TypeOK, Working
  <2>9. CASE WaitForNode
    <3>1. Return /\ stack # <<>> /\ UNCHANGED <<docker, terminal>>
      BY <2>9 DEF WaitForNode, TypeOK
    <3>2. unread' \in [Shells -> Nat]
      BY <2>9 DEF WaitForNode, Monitor, TypeOK
    <3>3. waiting' \in BOOLEAN
      BY <2>9, Zenon DEF WaitForNode, Monitor, TypeOK
    <3>4. QED
      BY <3>1, <3>2, <3>3, ReturnType DEF TypeOK, Working
  <2>10. CASE Interrupt
    <3>1. Return /\ stack # <<>> /\ UNCHANGED <<docker, terminal>>
      BY <2>10 DEF Interrupt, TypeOK
    <3>2. unread' \in [Shells -> Nat]
      <4>1. unread' = unread \/ unread' = [unread EXCEPT ![shell] = @ + 1]
        BY <2>10 DEF Interrupt
      <4>2. QED
        BY <4>1 DEF TypeOK
    <3>3. waiting' \in BOOLEAN
      BY <2>10, Zenon DEF Interrupt, TypeOK
    <3>4. QED
      BY <3>1, <3>2, <3>3, ReturnType DEF TypeOK, Working
  <2>11. CASE Terminate \/ RemoveHost \/ Reap
    BY <2>11 DEF Terminate, RemoveHost, TryRemove, Reap, TypeOK, Working
  <2>12. CASE ContainerStarts \/ ContainerEnds
    BY <2>12 DEF ContainerStarts, ContainerEnds, TypeOK
  <2>13. ASSUME NEW s \in Shells, ShellEnds(s) \/ Prompt(s) PROVE TypeOK'
    <3>1. unread' \in [Shells -> Nat]
      BY <2>13 DEF ShellEnds, Prompt, TypeOK
    <3>2. starting' \subseteq procs' /\ busy' \subseteq procs' /\ procs' \subseteq procs
      BY <2>13 DEF ShellEnds, Prompt, TypeOK
    <3>3. UNCHANGED <<container, refused, terminal, waiting, pc, stack>>
      BY <2>13 DEF ShellEnds, Prompt
    <3>4. QED
      BY <3>1, <3>2, <3>3 DEF TypeOK
  <2>14. CASE UNCHANGED vars
    BY <2>14 DEF vars, TypeOK
  <2>15. QED
    BY <2>1, <2>2, <2>3, <2>4, <2>5, <2>6, <2>7, <2>8, <2>9, <2>10, <2>11, <2>12, <2>13, <2>14
    DEF Next, Script, Daemon
<1>3. QED
  BY <1>1, <1>2, PTL DEF Spec

\* Every step keeps what is known of the shells and of the prompts.
THEOREM HostCorrect == Spec => []HostInv
<1> DEFINE Rest == ShellIsKnown /\ LastShellOnly /\ PromptsAreCounted
<1>1. Init => Rest
  BY DEF Init, ShellIsKnown, LastShellOnly, PromptsAreCounted, Calling, Awaiting
<1>2. TypeOK /\ TypeOK' /\ Rest /\ [Next]_vars => Rest'
  <2> SUFFICES ASSUME TypeOK, TypeOK', ShellIsKnown, LastShellOnly, PromptsAreCounted, [Next]_vars
               PROVE  ShellIsKnown' /\ LastShellOnly' /\ PromptsAreCounted'
    OBVIOUS
  <2> USE DEF docker, terminal
  <2>1. CASE Create
    BY <2>1 DEF Create, TypeOK, ShellIsKnown, LastShellOnly, PromptsAreCounted, Calling, Awaiting
  <2>2. CASE Boot
    BY <2>2 DEF Boot, StartShell, TypeOK, Shells, ShellIsKnown, LastShellOnly, PromptsAreCounted, Calling, Awaiting
  <2>3. CASE ReadPrompt
    BY <2>3 DEF ReadPrompt, TypeOK, Shells, ShellIsKnown, LastShellOnly, PromptsAreCounted, Calling, Awaiting
  <2>4. CASE Call
    BY <2>4 DEF Call, TypeOK, ShellIsKnown, LastShellOnly, PromptsAreCounted, Calling, Awaiting
  <2>5. CASE CheckContainer
    BY <2>5 DEF CheckContainer, Await, TypeOK, ShellIsKnown, LastShellOnly, PromptsAreCounted, Calling, Awaiting
  <2>6. CASE PollShell
    BY <2>6 DEF PollShell, StartShell, TypeOK, Shells, ShellIsKnown, LastShellOnly, PromptsAreCounted, Calling, Awaiting
  <2>7. CASE Send
    BY <2>7 DEF Send, Await, TypeOK, Shells, ShellIsKnown, LastShellOnly, PromptsAreCounted, Calling, Awaiting
  <2>8. CASE WaitOutput
    BY <2>8 DEF WaitOutput, Return, Monitor, TypeOK, Shells, ShellIsKnown, LastShellOnly, PromptsAreCounted, Calling, Awaiting
  <2>9. CASE WaitForNode
    BY <2>9 DEF WaitForNode, Return, Monitor, TypeOK, Shells, ShellIsKnown, LastShellOnly, PromptsAreCounted, Calling, Awaiting
  <2>10. CASE Interrupt
    BY <2>10 DEF Interrupt, Return, TypeOK, Shells, ShellIsKnown, LastShellOnly, PromptsAreCounted, Calling, Awaiting
  <2>11. CASE Terminate \/ RemoveHost \/ Reap
    BY <2>11 DEF Terminate, RemoveHost, TryRemove, Reap, TypeOK, ShellIsKnown, LastShellOnly, PromptsAreCounted, Calling, Awaiting
  <2>12. CASE ContainerStarts \/ ContainerEnds
    BY <2>12 DEF ContainerStarts, ContainerEnds, TypeOK, ShellIsKnown, LastShellOnly, PromptsAreCounted, Calling, Awaiting
  <2>13. ASSUME NEW s \in Shells, ShellEnds(s) PROVE ShellIsKnown' /\ LastShellOnly' /\ PromptsAreCounted'
    BY <2>13 DEF ShellEnds, TypeOK, ShellIsKnown, LastShellOnly, PromptsAreCounted, Calling, Awaiting
  <2>14. ASSUME NEW s \in Shells, Prompt(s) PROVE ShellIsKnown' /\ LastShellOnly' /\ PromptsAreCounted'
    BY <2>14 DEF Prompt, TypeOK, Shells, ShellIsKnown, LastShellOnly, PromptsAreCounted, Calling, Awaiting
  <2>15. CASE UNCHANGED vars
    BY <2>15 DEF vars, ShellIsKnown, LastShellOnly, PromptsAreCounted, Calling, Awaiting
  <2>16. QED
    BY <2>1, <2>2, <2>3, <2>4, <2>5, <2>6, <2>7, <2>8, <2>9, <2>10, <2>11, <2>12, <2>13, <2>14, <2>15
    DEF Next, Script, Daemon
<1>3. QED
  BY <1>1, <1>2, TypeCorrect, PTL DEF Spec, HostInv

\* What a call waits for is the prompt of its own command.
THEOREM OutputIsOwnHolds == Spec => []OutputIsOwn
<1>1. HostInv => OutputIsOwn
  BY DEF HostInv, TypeOK, LastShellOnly, PromptsAreCounted, Calling, Awaiting, Shells, OutputIsOwn
<1>2. QED
  BY <1>1, HostCorrect, PTL

\* A host at rest has read all that its shell has printed.
THEOREM QuietAtRestHolds == Spec => []QuietAtRest
<1>1. HostInv => QuietAtRest
  BY DEF HostInv, PromptsAreCounted, Calling, Awaiting, QuietAtRest
<1>2. QED
  BY <1>1, HostCorrect, PTL

\* No docker exec of the host goes on behind a terminal that nobody holds.
THEOREM ShellsAreEndedHolds == Spec => []ShellsAreEnded
<1>1. HostInv => ShellsAreEnded
  BY DEF HostInv, TypeOK, LastShellOnly, ShellsAreEnded, GivenUpHasEnded, ReleasedHasEnded
<1>2. QED
  BY <1>1, HostCorrect, PTL

----------------------------------------------------------------------------
(* The scripts.  Whatever the names in them are, each takes the network    *)
(* down first, then the manager's containers if it has a manager, and      *)
(* enables IPv6 last; one without manager adds no container.               *)

\* A list is a sequence of what is in it.
IsList(s) == s \in Seq(ToSet(s))
NoContainers(s) == \A x \in ToSet(s) : x[1] \notin {"add", "remove"}

EnableIpv6 == Ipv6(TRUE)
OwnParts == {"before", "topology", "body", "final"}
ManagerStops(sc) == Len(sc.final) > 1

WellFormed(sc) ==
  /\ \A p \in OwnParts : IsList(sc[p])
  /\ sc.final \in {<<NetStop>>, <<NetStop, MgrStop>>, <<NetStop, MgrStop, EnableIpv6>>}
  /\ ManagerStops(sc) \/ \A p \in OwnParts : NoContainers(sc[p])

\* A list is indexed by the numbers up to its length, and the next three lemmas say what is in
\* the lists that scripts are put together from.
LEMMA ListProperties ==
  ASSUME NEW s, IsList(s)
  PROVE  /\ Len(s) \in Nat /\ DOMAIN s = 1 .. Len(s)
         /\ s = <<>> <=> Len(s) = 0
         /\ \A i \in 1 .. Len(s) : s[i] \in ToSet(s)
BY LenProperties, EmptySeq, ElementOfSeq DEF IsList

LEMMA ListsJoin ==
  ASSUME NEW s, NEW t, IsList(s), IsList(t)
  PROVE  IsList(s \o t) /\ (NoContainers(s) /\ NoContainers(t) => NoContainers(s \o t))
<1> DEFINE S == ToSet(s) \cup ToSet(t)
<1>1. s \in Seq(S) /\ t \in Seq(S)
  BY SeqMonotonic DEF IsList
<1>2. /\ s \o t \in Seq(S) /\ Len(s \o t) = Len(s) + Len(t)
      /\ \A i \in 1 .. Len(s) + Len(t) : (s \o t)[i] = IF i <= Len(s) THEN s[i] ELSE t[i - Len(s)]
  BY <1>1, ConcatProperties
<1>3. /\ DOMAIN s = 1 .. Len(s) /\ Len(s) \in Nat /\ DOMAIN t = 1 .. Len(t) /\ Len(t) \in Nat
      /\ DOMAIN (s \o t) = 1 .. Len(s) + Len(t)
  BY <1>1, <1>2, LenProperties
<1>4. \A i \in DOMAIN (s \o t) : (s \o t)[i] \in S
  BY <1>2, <1>3 DEF ToSet
<1>5. IsList(s \o t)
  <2>1. s \o t = [i \in 1 .. Len(s) + Len(t) |-> (s \o t)[i]]
    BY <1>2, <1>3, LenProperties
  <2>2. \A i \in 1 .. Len(s) + Len(t) : (s \o t)[i] \in ToSet(s \o t)
    BY <1>3 DEF ToSet
  <2>3. QED
    BY <1>3, <2>1, <2>2, IsASeq DEF IsList
<1>6. QED
  BY <1>4, <1>5 DEF NoContainers, ToSet

LEMMA HostsList ==
  ASSUME NEW hs, IsList(hs)
  PROVE  IsList(Hosts(hs)) /\ NoContainers(Hosts(hs))
<1>1. DOMAIN hs = 1 .. Len(hs) /\ Len(hs) \in Nat
  BY ListProperties
<1>2. Hosts(hs) = [i \in 1 .. Len(hs) |-> Host(hs[i])]
  BY <1>1 DEF Hosts
<1>3. \A i \in 1 .. Len(hs) : Host(hs[i]) \in ToSet(Hosts(hs))
  BY <1>2 DEF ToSet
<1>4. \A x \in ToSet(Hosts(hs)) : x[1] = "host"
  BY <1>2 DEF ToSet, Host
<1>5. IsList(Hosts(hs))
  BY <1>1, <1>2, <1>3, IsASeq DEF IsList
<1>6. QED
  BY <1>4, <1>5 DEF NoContainers

LEMMA RemovesList ==
  ASSUME NEW cs, IsList(cs)
  PROVE  IsList(Removes(cs))
<1>1. DOMAIN cs = 1 .. Len(cs) /\ Len(cs) \in Nat
  BY ListProperties
<1>2. Removes(cs) = [i \in 1 .. Len(cs) |-> RemoveContainer(cs[i])]
  BY <1>1 DEF Removes
<1>3. \A i \in 1 .. Len(cs) : RemoveContainer(cs[i]) \in ToSet(Removes(cs))
  BY <1>2 DEF ToSet
<1>4. QED
  BY <1>1, <1>2, <1>3, IsASeq DEF IsList

\* Lists that are written out, as long as the scripts have them.
LEMMA WrittenLists ==
  /\ \A a : IsList(<<a>>)
  /\ \A a, b : IsList(<<a, b>>)
  /\ \A a, b, c : IsList(<<a, b, c>>)
  /\ \A a, b, c, d : IsList(<<a, b, c, d>>)
  /\ \A a, b, c, d, e : IsList(<<a, b, c, d, e>>)
  /\ \A a, b, c, d, e, f : IsList(<<a, b, c, d, e, f>>)
  /\ \A a, b, c, d, e, f, g : IsList(<<a, b, c, d, e, f, g>>)
  /\ \A a, b, c, d, e, f, g, h : IsList(<<a, b, c, d, e, f, g, h>>)
  /\ \A a, b, c, d, e, f, g, h, i : IsList(<<a, b, c, d, e, f, g, h, i>>)
  /\ \A a, b, c, d, e, f, g, h, i, j : IsList(<<a, b, c, d, e, f, g, h, i, j>>)
  /\ \A a, b, c, d, e, f, g, h, i, j, k : IsList(<<a, b, c, d, e, f, g, h, i, j, k>>)
BY DEF IsList, ToSet

LEMMA ShortLists ==
  /\ IsList(<<>>) /\ NoContainers(<<>>)
  /\ IsList(<<Work>>) /\ NoContainers(<<Work>>)
  /\ IsList(<<Work, NetStop>>) /\ NoContainers(<<Work, NetStop>>)
  /\ IsList(<<NetStop>>) /\ NoContainers(<<NetStop>>)
  /\ IsList(<<NetStop, MgrStop>>) /\ IsList(<<NetStop, MgrStop, EnableIpv6>>)
  /\ IsList(<<Ipv6(FALSE)>>) /\ IsList(<<Work, Work>>)
<1>1. IsList(<<>>) /\ NoContainers(<<>>)
  BY EmptySeq DEF IsList, NoContainers, ToSet
<1>2. IsList(<<Work>>) /\ NoContainers(<<Work>>) /\ IsList(<<Work, Work>>)
  BY DEF IsList, NoContainers, ToSet, Work
<1>3. IsList(<<Work, NetStop>>) /\ NoContainers(<<Work, NetStop>>)
  BY DEF IsList, NoContainers, ToSet, Work, NetStop
<1>4. IsList(<<NetStop>>) /\ NoContainers(<<NetStop>>)
  BY DEF IsList, NoContainers, ToSet, NetStop
<1>5. IsList(<<NetStop, MgrStop>>) /\ IsList(<<NetStop, MgrStop, EnableIpv6>>)
  BY WrittenLists, Zenon
<1>6. IsList(<<Ipv6(FALSE)>>)
  BY WrittenLists, Zenon
<1>7. QED
  BY <1>1, <1>2, <1>3, <1>4, <1>5, <1>6

\* The three shapes of the scripts that differ in their hosts and containers only.
LEMMA PlainWellFormed ==
  ASSUME NEW steps, IsList(steps)
  PROVE  WellFormed(Plain(steps))
BY ShortLists DEF WellFormed, Plain, OwnParts, ManagerStops

LEMMA GuardedWellFormed ==
  ASSUME NEW hs, IsList(hs)
  PROVE  WellFormed(Guarded(hs)) /\ WellFormed(Bare(hs))
<1>1. IsList(Hosts(hs) \o <<Work>>) /\ NoContainers(Hosts(hs) \o <<Work>>)
  BY HostsList, ShortLists, ListsJoin
<1>2. QED
  BY <1>1, ShortLists DEF WellFormed, Guarded, Bare, OwnParts, ManagerStops

\* Every script is of one of these shapes.
LEMMA ScriptsWellFormed ==
  ASSUME NEW s \in DOMAIN Steps
  PROVE  WellFormed(Steps[s])
<1>1. WellFormed(EchoServer)
  BY WrittenLists, HostsList, RemovesList, ListsJoin, PlainWellFormed DEF EchoServer
<1>2. WellFormed(DockerInDocker)
  BY WrittenLists, HostsList, RemovesList, ListsJoin, PlainWellFormed DEF DockerInDocker
<1>3. WellFormed(NetworkMeasurement)
  BY WrittenLists, HostsList, RemovesList, ListsJoin, PlainWellFormed DEF NetworkMeasurement
<1>4. WellFormed(ManageAppContainer)
  BY WrittenLists, HostsList, RemovesList, ListsJoin, PlainWellFormed DEF ManageAppContainer
<1>5. WellFormed(SecondTopology)
  BY WrittenLists, HostsList, RemovesList, ListsJoin, PlainWellFormed DEF SecondTopology
<1>6. WellFormed(MqttDrones)
  BY WrittenLists, HostsList, RemovesList, ListsJoin, PlainWellFormed DEF MqttDrones
<1>7. WellFormed(TestStar)
  BY WrittenLists, HostsList, RemovesList, ListsJoin, PlainWellFormed DEF TestStar
<1>8. WellFormed(DroneMqtt)
  BY WrittenLists, HostsList, RemovesList, ListsJoin, PlainWellFormed DEF DroneMqtt
<1>9. WellFormed(PacketFilter1)
  BY WrittenLists, GuardedWellFormed DEF PacketFilter1
<1>10. WellFormed(PacketFilter2)
  BY WrittenLists, GuardedWellFormed DEF PacketFilter2
<1>11. WellFormed(PacketFilter3)
  BY WrittenLists, GuardedWellFormed DEF PacketFilter3
<1>12. WellFormed(SecureTunnel1)
  BY WrittenLists, GuardedWellFormed DEF SecureTunnel1
<1>13. WellFormed(SecureTunnel2)
  BY WrittenLists, GuardedWellFormed DEF SecureTunnel2
<1>14. WellFormed(ObjectDetection)
  BY WrittenLists, GuardedWellFormed DEF ObjectDetection
<1>15. WellFormed(DpdkChain)
  BY WrittenLists, GuardedWellFormed DEF DpdkChain
<1>16. WellFormed(DockerHosts)
  <2>1. IsList(Hosts(<<"h1", "h2">>) \o <<Work>>) /\ NoContainers(Hosts(<<"h1", "h2">>) \o <<Work>>)
    BY WrittenLists, HostsList, ShortLists, ListsJoin
  <2>2. IsList(DockerHosts.body) /\ NoContainers(DockerHosts.body)
    BY <2>1, WrittenLists, HostsList, ShortLists, ListsJoin DEF DockerHosts, Bare, Guarded
  <2>3. QED
    BY <2>1, <2>2, ShortLists DEF WellFormed, DockerHosts, Bare, Guarded, OwnParts, ManagerStops
<1>17. WellFormed(AdaptiveRedundancy)
  <2>1. IsList(AdaptiveTopology)
    BY WrittenLists, HostsList, ListsJoin DEF AdaptiveTopology
  <2>2. IsList(AdaptiveRedundancy.body)
    BY WrittenLists, RemovesList, ListsJoin DEF AdaptiveRedundancy, AdaptiveDeploy, AdaptiveRemove
  <2>3. QED
    BY <2>1, <2>2, ShortLists DEF WellFormed, AdaptiveRedundancy, OwnParts, ManagerStops
<1>18. WellFormed(Multihop)
  <2>1. IsList(MultihopTopology)
    BY WrittenLists, HostsList, ListsJoin DEF MultihopTopology
  <2>2. IsList(DeployCoders) /\ IsList(RemoveCoders)
    BY WrittenLists, RemovesList DEF DeployCoders, RemoveCoders
  <2>3. IsList(MultihopRounds)
    BY <2>2, WrittenLists, ListsJoin DEF MultihopRounds
  <2>4. QED
    BY <2>1, <2>3, ShortLists DEF WellFormed, Multihop, EnableIpv6, OwnParts, ManagerStops
<1>19. DOMAIN Steps =
         {"multihop", "adaptive", "echo", "dind", "measurement", "manage", "second", "drones", "star",
          "drone", "filter1", "filter2", "filter3", "tunnel1", "tunnel2", "detection", "dpdk",
          "dockerhosts"}
  BY DEF Steps
<1>20. /\ Steps["multihop"] = Multihop /\ Steps["adaptive"] = AdaptiveRedundancy
       /\ Steps["echo"] = EchoServer /\ Steps["dind"] = DockerInDocker
       /\ Steps["measurement"] = NetworkMeasurement /\ Steps["manage"] = ManageAppContainer
       /\ Steps["second"] = SecondTopology /\ Steps["drones"] = MqttDrones
       /\ Steps["star"] = TestStar /\ Steps["drone"] = DroneMqtt
       /\ Steps["filter1"] = PacketFilter1 /\ Steps["filter2"] = PacketFilter2
       /\ Steps["filter3"] = PacketFilter3 /\ Steps["tunnel1"] = SecureTunnel1
       /\ Steps["tunnel2"] = SecureTunnel2 /\ Steps["detection"] = ObjectDetection
       /\ Steps["dpdk"] = DpdkChain /\ Steps["dockerhosts"] = DockerHosts
  BY DEF Steps
<1>21. QED
  BY <1>1, <1>2, <1>3, <1>4, <1>5, <1>6, <1>7, <1>8, <1>9, <1>10, <1>11, <1>12, <1>13, <1>14,
     <1>15, <1>16, <1>17, <1>18, <1>19, <1>20

----------------------------------------------------------------------------
(* Where a script goes on, and where an exception leads it.                *)

Place ==
  /\ script \in DOMAIN Steps
  /\ part \in OwnParts \cup {"except", "ended"}
  /\ part # "ended" => pos \in 1 .. Len(StepsOf(script, part))
  /\ ce # "none" => part = "ended"

LEMMA StepsAreLists ==
  ASSUME NEW s \in DOMAIN Steps, NEW p \in OwnParts \cup {"except"}
  PROVE  IsList(StepsOf(s, p))
BY ScriptsWellFormed, ShortLists DEF StepsOf, WellFormed, OwnParts

\* The last part of every script.
LEMMA FinalParts ==
  ASSUME NEW s \in DOMAIN Steps
  PROVE  /\ StepsOf(s, "final") = Steps[s].final
         /\ Len(StepsOf(s, "final")) \in 1 .. 3
         /\ StepsOf(s, "final")[1] = NetStop
         /\ Len(StepsOf(s, "final")) > 1 => StepsOf(s, "final")[2] = MgrStop
         /\ Len(StepsOf(s, "final")) > 2 => StepsOf(s, "final")[3] = EnableIpv6
         /\ s = "multihop" => Len(StepsOf(s, "final")) = 3
<1>1. StepsOf(s, "final") = Steps[s].final
  BY DEF StepsOf
<1>2. \A c : /\ Len(<<NetStop>>) = 1 /\ <<NetStop>>[1] = NetStop
             /\ Len(<<NetStop, MgrStop>>) = 2
             /\ <<NetStop, MgrStop>>[1] = NetStop /\ <<NetStop, MgrStop>>[2] = MgrStop
             /\ Len(<<NetStop, MgrStop, c>>) = 3
             /\ <<NetStop, MgrStop, c>>[1] = NetStop /\ <<NetStop, MgrStop, c>>[2] = MgrStop
             /\ <<NetStop, MgrStop, c>>[3] = c
  OBVIOUS
<1>3. s = "multihop" => Steps[s].final = <<NetStop, MgrStop, EnableIpv6>>
  <2>1. Steps["multihop"] = Multihop
    BY DEF Steps
  <2>2. Multihop.final = <<NetStop, MgrStop, EnableIpv6>>
    BY DEF Multihop, EnableIpv6
  <2>3. QED
    BY <2>1, <2>2
<1>4. WellFormed(Steps[s])
  BY ScriptsWellFormed
<1> HIDE DEF NetStop, MgrStop
<1>5. QED
  BY <1>1, <1>2, <1>3, <1>4 DEF WellFormed

\* A script without manager never adds or removes a container.
LEMMA NoContainersWithoutManager ==
  ASSUME Place, part # "ended", ~ManagerStops(Steps[script])
  PROVE  Step[1] \notin {"add", "remove"}
<1>1. IsList(StepsOf(script, part)) /\ pos \in 1 .. Len(StepsOf(script, part))
  BY StepsAreLists DEF Place
<1>2. Step \in ToSet(StepsOf(script, part))
  BY <1>1, ListProperties DEF Step
<1>3. NoContainers(StepsOf(script, part))
  BY ScriptsWellFormed, ShortLists DEF Place, StepsOf, WellFormed
<1>4. QED
  BY <1>2, <1>3 DEF NoContainers

LEMMA FromPart ==
  ASSUME NEW s \in DOMAIN Steps, NEW p \in OwnParts \cup {"ended"}
  PROVE  /\ p = "ended" => From(s, p) = "ended"
         /\ p = "final" => From(s, p) = "final"
         /\ p # "ended" => /\ From(s, p) \in OwnParts
                           /\ 1 \in 1 .. Len(StepsOf(s, From(s, p)))
<1> DEFINE i == CHOOSE j \in DOMAIN Parts : Parts[j] = p
           later == {j \in i .. 5 : j = 5 \/ StepsOf(s, Parts[j]) # <<>>}
           m == CHOOSE j \in later : \A k \in later : j <= k
<1>1. /\ DOMAIN Parts = 1 .. 5 /\ Parts[1] = "before" /\ Parts[2] = "topology" /\ Parts[3] = "body"
      /\ Parts[4] = "final" /\ Parts[5] = "ended"
  BY DEF Parts
<1>2. i \in 1 .. 5 /\ Parts[i] = p
  <2>1. \E j \in DOMAIN Parts : Parts[j] = p
    BY <1>1 DEF OwnParts
  <2>2. QED
    BY <1>1, <2>1
<1> HIDE DEF i
<1>3. m \in later /\ \A k \in later : m <= k
  <2>1. later \in SUBSET Nat /\ 5 \in later
    BY <1>2
  <2>2. \E j \in later : \A k \in later : j <= k
    BY <2>1, NatsHaveLeast
  <2>3. QED
    BY <2>2
<1>4. From(s, p) = Parts[m]
  BY DEF From, i
<1>5. p = "ended" => From(s, p) = "ended"
  BY <1>1, <1>2, <1>3, <1>4
<1>6. StepsOf(s, "final") # <<>>
  <2>1. Len(StepsOf(s, "final")) # 0
    BY FinalParts
  <2>2. Len(<<>>) = 0
    OBVIOUS
  <2>3. QED
    BY <2>1, <2>2
<1> HIDE DEF m
<1>7. ASSUME p # "ended" PROVE m \in i .. 4 /\ StepsOf(s, Parts[m]) # <<>>
  <2>1. i \in 1 .. 4
    BY <1>1, <1>2, <1>7
  <2>2. 4 \in later
    BY <1>1, <1>6, <2>1
  <2>3. QED
    BY <1>3, <2>1, <2>2
<1> HIDE DEF later
<1>8. ASSUME p # "ended" PROVE From(s, p) \in OwnParts /\ 1 \in 1 .. Len(StepsOf(s, From(s, p)))
  <2>1. From(s, p) \in OwnParts
    BY <1>1, <1>2, <1>4, <1>7, <1>8 DEF OwnParts
  <2>2. IsList(StepsOf(s, From(s, p))) /\ StepsOf(s, From(s, p)) # <<>>
    BY <1>4, <1>7, <1>8, <2>1, StepsAreLists
  <2>3. QED
    BY <2>1, <2>2, ListProperties
<1>9. p = "final" => From(s, p) = "final"
  BY <1>1, <1>2, <1>4, <1>7
<1>10. QED
  BY <1>5, <1>8, <1>9

\* A script ends after the last step of its last part, and only there; within that part it
\* goes on one by one.
LEMMA GoOnPlace ==
  ASSUME Place, part # "ended", GoOn, script' = script, ce' = ce
  PROVE  /\ Place'
         /\ part' = "ended" => part = "final" /\ pos = Len(StepsOf(script, "final"))
         /\ part' = "final" => pos' = 1 \/ (part = "final" /\ pos' = pos + 1)
<1>1. /\ IsList(StepsOf(script, part)) /\ pos \in 1 .. Len(StepsOf(script, part))
      /\ Len(StepsOf(script, part)) \in Nat /\ ce = "none"
  BY StepsAreLists, ListProperties DEF Place
<1>2. CASE pos < Len(StepsOf(script, part))
  BY <1>1, <1>2 DEF Place, GoOn, StepsOf
<1>3. CASE ~(pos < Len(StepsOf(script, part)))
  <2>1. pos = Len(StepsOf(script, part)) /\ pos' = 1 /\ part' = From(script, After(part))
    BY <1>1, <1>3 DEF GoOn
  <2>2. /\ After(part) \in OwnParts \cup {"ended"}
        /\ After(part) = "ended" => part = "final"
    BY DEF Place, OwnParts, After
  <2>3. /\ part' = "ended" => After(part) = "ended"
        /\ part' \in OwnParts \cup {"ended"}
        /\ part' # "ended" => 1 \in 1 .. Len(StepsOf(script, part'))
    BY <2>1, <2>2, FromPart DEF Place, OwnParts
  <2>4. QED
    BY <1>1, <2>1, <2>2, <2>3 DEF Place, StepsOf
<1>4. QED
  BY <1>2, <1>3

\* An exception that is not caught ends the script.
LEMMA RaisePlace ==
  ASSUME Place, part # "ended", NEW b \in BOOLEAN, Raise(b), script' = script, ce' = ce
  PROVE  /\ Place' /\ pos' = 1
         /\ part' = "ended" => outcome' = "cut"
<1>1. pos' = 1 /\ part' \in {"ended", "except", "final"} /\ (part' = "ended" => outcome' = "cut")
  BY DEF Raise
<1>2. 1 \in 1 .. Len(StepsOf(script, "except"))
  BY DEF StepsOf
<1>3. 1 \in 1 .. Len(StepsOf(script, "final"))
  BY FinalParts DEF Place
<1>4. ce = "none"
  BY DEF Place
<1>5. QED
  BY <1>1, <1>2, <1>3, <1>4 DEF Place, OwnParts, StepsOf

----------------------------------------------------------------------------
(* What is at the daemon.                                                  *)

Accounted == orphans \cup kept \cup found \cup ToSet(queue)

\* Whatever a script has put there is a host of the network or accounted for: registered,
\* left by a call that raised, kept by docker, or there before.  A host that is not accounted
\* for runs, so net.stop() does not pass it over.
AtDaemon ==
  /\ IsList(hosts) /\ IsList(queue)
  /\ "other" \in DOMAIN daemon /\ daemon["other"].kind = "other"
  /\ "other" \notin ToSet(hosts) \cup ToSet(queue)
  /\ \A n \in Left : daemon[n].kind \in {"host", "app"}
  /\ Left \subseteq ToSet(hosts) \cup Accounted
  /\ \A h \in ToSet(hosts) \cap DOMAIN daemon :
       h \in Accounted \/ (daemon[h].kind = "host" /\ daemon[h].state = "running")

Shrinks ==
  /\ "other" \in DOMAIN daemon'
  /\ DOMAIN daemon' \subseteq DOMAIN daemon
  /\ \A n \in DOMAIN daemon' : daemon'[n] = daemon[n]

LEMMA LeftIs == Left = DOMAIN daemon \ {"other"}
BY DEF Left, Foreign

LEMMA ListAppend ==
  ASSUME NEW s, IsList(s), NEW x
  PROVE  IsList(Append(s, x)) /\ ToSet(Append(s, x)) = ToSet(s) \cup {x}
<1> DEFINE S == ToSet(s) \cup {x}
           r == Append(s, x)
<1>1. s \in Seq(S)
  BY SeqMonotonic DEF IsList
<1>2. /\ r \in Seq(S) /\ Len(r) = Len(s) + 1 /\ Len(s) \in Nat
      /\ \A i \in 1 .. Len(s) : r[i] = s[i]
      /\ r[Len(s) + 1] = x
  BY <1>1, AppendProperties, LenProperties
<1>3. DOMAIN s = 1 .. Len(s) /\ DOMAIN r = 1 .. Len(s) + 1
  BY <1>1, <1>2, LenProperties
<1>4. ToSet(r) = ToSet(s) \cup {x}
  <2>1. \A i \in DOMAIN r : i \in DOMAIN s \/ i = Len(s) + 1
    BY <1>2, <1>3
  <2>2. DOMAIN s \subseteq DOMAIN r /\ Len(s) + 1 \in DOMAIN r
    BY <1>2, <1>3
  <2> HIDE DEF r
  <2>3. QED
    BY <1>2, <1>3, <2>1, <2>2 DEF ToSet
<1>5. QED
  BY <1>2, <1>4 DEF IsList

LEMMA ListRemoveFirst ==
  ASSUME NEW s, IsList(s), NEW x, x \in ToSet(s)
  PROVE  /\ IsList(RemoveFirst(s, x)) /\ ToSet(RemoveFirst(s, x)) \subseteq ToSet(s)
         /\ \A y \in ToSet(s) : y # x => y \in ToSet(RemoveFirst(s, x))
<1>1. s \in Seq(ToSet(s)) /\ \E i \in 1 .. Len(s) : s[i] = x
  BY ListProperties DEF IsList, ToSet
<1> DEFINE r == RemoveFirst(s, x)
<1>2. /\ r \in Seq(ToSet(s)) /\ ToSet(r) \subseteq ToSet(s)
      /\ \A y \in ToSet(s) : y # x => y \in ToSet(r)
  BY <1>1, RemoveFirstProperties
<1>3. r \in Seq(ToSet(r))
  <2>1. Len(r) \in Nat /\ DOMAIN r = 1 .. Len(r) /\ r = [i \in 1 .. Len(r) |-> r[i]]
    BY <1>2, LenProperties
  <2>2. \A i \in 1 .. Len(r) : r[i] \in ToSet(r)
    BY <2>1 DEF ToSet
  <2> HIDE DEF r
  <2>3. QED
    BY <2>1, <2>2, IsASeq
<1>4. QED
  BY <1>2, <1>3 DEF IsList

\* The first elements of a list.
LEMMA ListStart ==
  ASSUME NEW s, IsList(s), NEW k \in Nat, k <= Len(s)
  PROVE  ToSet(SubSeq(s, 1, k)) \subseteq ToSet(s)
<1>1. s \in Seq(ToSet(s)) /\ Len(s) \in Nat
  BY ListProperties DEF IsList
<1>2. SubSeq(s, 1, k) \in Seq(ToSet(s))
  BY <1>1, SubSeqProperties
<1>3. QED
  BY <1>2, LenProperties, ElementOfSeq DEF ToSet

LEMMA TakingAway ==
  ASSUME NEW ns, "other" \notin ns, "other" \in DOMAIN daemon, daemon' = Without(ns)
  PROVE  Shrinks /\ DOMAIN daemon' = DOMAIN daemon \ ns
BY DEF Shrinks, Without

LEMMA TakingAwayKeeps ==
  ASSUME AtDaemon, Shrinks, hosts' = hosts, found' = found, orphans \subseteq orphans', kept \subseteq kept',
         IsList(queue'), ToSet(queue') \subseteq ToSet(queue),
         \A c \in ToSet(queue) : c \in DOMAIN daemon' => c \in ToSet(queue')
  PROVE  AtDaemon' /\ Left' \subseteq Left
<1>1. /\ Left = DOMAIN daemon \ {"other"} /\ Left' = DOMAIN daemon' \ {"other"}
      /\ DOMAIN daemon' \subseteq DOMAIN daemon /\ \A n \in DOMAIN daemon' : daemon'[n] = daemon[n]
  BY LeftIs DEF Left, Foreign, Shrinks
<1>2. \A n \in Accounted : n \in DOMAIN daemon' => n \in Accounted'
  BY DEF Accounted
<1>3. Left' \subseteq ToSet(hosts') \cup Accounted'
  BY <1>1, <1>2 DEF AtDaemon
<1>4. ASSUME NEW h \in ToSet(hosts') \cap DOMAIN daemon'
      PROVE  h \in Accounted' \/ (daemon'[h].kind = "host" /\ daemon'[h].state = "running")
  BY <1>1, <1>2 DEF AtDaemon
<1>5. QED
  BY <1>1, <1>3, <1>4 DEF AtDaemon, Shrinks

LEMMA PuttingUpKeeps ==
  ASSUME AtDaemon, NEW n, Free(n), NEW kind \in {"host", "app"}, NEW state,
         daemon' = With(n, kind, state), found' = found, orphans \subseteq orphans', kept \subseteq kept',
         IsList(hosts'), IsList(queue'),
         ToSet(hosts) \subseteq ToSet(hosts'), ToSet(hosts') \subseteq ToSet(hosts) \cup {n},
         ToSet(queue) \subseteq ToSet(queue'), ToSet(queue') \subseteq ToSet(queue) \cup {n},
         \/ n \in Accounted'
         \/ n \in ToSet(hosts') /\ kind = "host" /\ state = "running"
  PROVE  AtDaemon'
<1>1. /\ DOMAIN daemon' = DOMAIN daemon \cup {n} /\ n \notin DOMAIN daemon
      /\ \A m \in DOMAIN daemon : daemon'[m] = daemon[m]
      /\ daemon'[n].kind = kind /\ daemon'[n].state = state
  BY DEF With, Free
<1>2. Left = DOMAIN daemon \ {"other"} /\ Left' = DOMAIN daemon' \ {"other"} /\ n # "other"
  BY <1>1, LeftIs DEF Left, Foreign, AtDaemon
<1>3. Accounted \subseteq Accounted'
  BY DEF Accounted
<1>4. Left' \subseteq ToSet(hosts') \cup Accounted'
  BY <1>1, <1>2, <1>3 DEF AtDaemon
<1>5. ASSUME NEW h \in ToSet(hosts') \cap DOMAIN daemon'
      PROVE  h \in Accounted' \/ (daemon'[h].kind = "host" /\ daemon'[h].state = "running")
  BY <1>1, <1>3 DEF AtDaemon
<1>6. \A m \in Left' : daemon'[m].kind \in {"host", "app"}
  BY <1>1, <1>2 DEF AtDaemon
<1>7. QED
  BY <1>1, <1>2, <1>4, <1>5, <1>6 DEF AtDaemon

----------------------------------------------------------------------------
(* The steps of a script, done or not.                                     *)

NoQueue == ~ManagerStops(Steps[script]) => queue = <<>>

Doing == DoHost \/ DoAdd \/ DoRemove \/ DoNetStop \/ DoMgrStop \/ DoWork \/ DoIpv6

LEMMA DoingKeeps ==
  ASSUME Place, AtDaemon, NoQueue, part # "ended", Doing,
         orphans' = orphans, kept \subseteq kept', found' = found, script' = script
  PROVE  AtDaemon' /\ NoQueue'
<1>1. IsList(hosts) /\ IsList(queue) /\ "other" \in DOMAIN daemon
  BY DEF AtDaemon
<1>2. CASE DoHost
  <2>1. ToSet(hosts') = ToSet(hosts) \cup {Step[2]} /\ IsList(hosts') /\ queue' = queue
    BY <1>1, <1>2, ListAppend DEF DoHost
  <2>2. AtDaemon'
    BY <1>1, <1>2, <2>1, PuttingUpKeeps DEF DoHost
  <2>3. QED
    BY <2>1, <2>2 DEF NoQueue
<1>3. CASE DoAdd
  <2>1. ToSet(queue') = ToSet(queue) \cup {Step[2]} /\ IsList(queue') /\ hosts' = hosts
    BY <1>1, <1>3, ListAppend DEF DoAdd
  <2>2. AtDaemon'
    BY <1>1, <1>3, <2>1, PuttingUpKeeps DEF DoAdd, Accounted
  <2>3. QED
    BY <1>3, <2>2, NoContainersWithoutManager DEF NoQueue, DoAdd
<1>4. CASE DoRemove
  <2>1. Step[2] \in ToSet(queue) /\ Step[2] # "other"
    BY <1>4 DEF DoRemove, Contains, ToSet, AtDaemon
  <2>2. /\ IsList(queue') /\ ToSet(queue') \subseteq ToSet(queue) /\ hosts' = hosts
        /\ \A y \in ToSet(queue) : y # Step[2] => y \in ToSet(queue')
    BY <1>1, <1>4, <2>1, ListRemoveFirst DEF DoRemove
  <2>3. Shrinks /\ DOMAIN daemon' = DOMAIN daemon \ {Step[2]}
    BY <1>1, <1>4, <2>1, TakingAway DEF DoRemove
  <2>4. AtDaemon'
    BY <2>2, <2>3, TakingAwayKeeps
  <2>5. QED
    BY <1>4, <2>4, NoContainersWithoutManager DEF NoQueue, DoRemove
<1>5. CASE DoNetStop
  <2>1. PICK ks : daemon' = Without({h \in ToSet(hosts) : Runs(h)} \ ks)
    BY <1>5 DEF DoNetStop, Terminated
  <2>2. Shrinks /\ hosts' = hosts /\ queue' = queue
    BY <1>1, <1>5, <2>1, TakingAway DEF DoNetStop, AtDaemon
  <2>3. QED
    BY <1>1, <2>2, TakingAwayKeeps DEF NoQueue
<1>6. CASE DoMgrStop
  <2>1. Shrinks /\ hosts' = hosts /\ queue' = queue
    BY <1>1, <1>6, TakingAway DEF DoMgrStop, AtDaemon
  <2>2. QED
    BY <1>1, <2>1, TakingAwayKeeps DEF NoQueue
<1>7. CASE DoWork \/ DoIpv6
  <2>1. daemon' = daemon /\ hosts' = hosts /\ queue' = queue
    BY <1>7 DEF DoWork, DoIpv6
  <2>2. Shrinks
    BY <1>1, <2>1 DEF Shrinks
  <2>3. QED
    BY <1>1, <2>1, <2>2, TakingAwayKeeps DEF NoQueue
<1>8. QED
  BY <1>2, <1>3, <1>4, <1>5, <1>6, <1>7 DEF Doing

FinalProgress ==
  part = "final" => /\ pos > 1 => Left \subseteq Accounted
                    /\ pos > 2 => Left \subseteq orphans \cup kept \cup found

\* net.stop() takes down every host that runs but those docker keeps, mgr.stop() every registered container.
LEMMA FinalDoing ==
  ASSUME Place, AtDaemon, FinalProgress, part = "final", Doing,
         orphans' = orphans, found' = found, DoNetStop \/ kept' = kept
  PROVE  /\ queue' = queue
         /\ Left' \subseteq Accounted'
         /\ pos > 1 => Left' \subseteq orphans \cup kept' \cup found
         /\ pos > 2 => DoIpv6
<1>1. /\ pos \in 1 .. Len(StepsOf(script, "final")) /\ Len(StepsOf(script, "final")) \in 1 .. 3
      /\ Step = StepsOf(script, "final")[pos]
  BY FinalParts DEF Place, Step
<1>2. /\ "other" \in DOMAIN daemon /\ "other" \notin ToSet(hosts) \cup ToSet(queue)
      /\ Left = DOMAIN daemon \ {"other"} /\ Left' = DOMAIN daemon' \ {"other"}
  BY LeftIs DEF AtDaemon, Left, Foreign
<1>3. CASE pos = 1
  <2>1. DoNetStop
    BY <1>1, <1>3, FinalParts
       DEF Place, Doing, DoHost, DoAdd, DoRemove, DoMgrStop, DoWork, DoIpv6, NetStop
  <2>2. PICK ks : /\ daemon' = Without({h \in ToSet(hosts) : Runs(h)} \ ks)
                  /\ kept' = kept \cup ks
    BY <2>1 DEF DoNetStop, Terminated
  <2>3. DOMAIN daemon' = DOMAIN daemon \ ({h \in ToSet(hosts) : Runs(h)} \ ks)
    BY <1>2, <2>2, TakingAway
  <2>4. queue' = queue
    BY <2>1 DEF DoNetStop
  <2>5. Accounted \cup ks \subseteq Accounted'
    BY <2>2, <2>4 DEF Accounted
  <2>6. Left' \subseteq Accounted'
    BY <1>2, <2>3, <2>5 DEF AtDaemon, Runs
  <2>7. QED
    BY <1>3, <2>4, <2>6
<1>4. CASE pos = 2
  <2>1. DoMgrStop
    BY <1>1, <1>4, FinalParts
       DEF Place, Doing, DoHost, DoAdd, DoRemove, DoNetStop, DoWork, DoIpv6, MgrStop
  <2>2. DOMAIN daemon' = DOMAIN daemon \ ToSet(queue)
    BY <1>2, <2>1, TakingAway DEF DoMgrStop
  <2>3. kept' = kept
    BY <2>1 DEF DoMgrStop, DoNetStop
  <2>4. Left' \subseteq orphans \cup kept' \cup found
    BY <1>2, <1>4, <2>2, <2>3 DEF FinalProgress, Accounted
  <2>5. QED
    BY <1>4, <2>1, <2>4 DEF DoMgrStop, Accounted
<1>5. CASE pos = 3
  <2>1. DoIpv6
    <3>1. Step = EnableIpv6
      BY <1>1, <1>5, FinalParts DEF Place
    <3>2. EnableIpv6[1] = "ipv6"
      BY DEF EnableIpv6, Ipv6
    <3>3. QED
      BY <3>1, <3>2 DEF Doing, DoHost, DoAdd, DoRemove, DoNetStop, DoMgrStop, DoWork
  <2>2. daemon' = daemon /\ queue' = queue /\ kept' = kept
    BY <2>1 DEF DoIpv6, DoNetStop
  <2>3. QED
    BY <1>2, <1>5, <2>1, <2>2 DEF FinalProgress, Accounted
<1>6. QED
  BY <1>1, <1>3, <1>4, <1>5

\* What a step that raises leaves behind is an orphan.
LEMMA RaisingKeeps ==
  ASSUME AtDaemon, Impossible \/ HalfDone,
         orphans' = orphans \cup (DOMAIN daemon' \ DOMAIN daemon),
         kept \subseteq kept', found' = found, hosts' = hosts, queue' = queue
  PROVE  AtDaemon'
<1>1. IsList(hosts) /\ IsList(queue) /\ "other" \in DOMAIN daemon
      /\ "other" \notin ToSet(hosts) \cup ToSet(queue)
  BY DEF AtDaemon
<1>2. ASSUME Shrinks PROVE AtDaemon'
  BY <1>1, <1>2, TakingAwayKeeps
<1>3. ASSUME daemon' = daemon PROVE AtDaemon'
  BY <1>1, <1>2, <1>3 DEF Shrinks
<1>4. ASSUME NEW ns, daemon' = Without(ns), "other" \notin ns PROVE AtDaemon'
  BY <1>1, <1>2, <1>4, TakingAway
<1>5. ASSUME NEW n, Free(n), NEW kind \in {"host", "app"}, NEW state, daemon' = With(n, kind, state)
      PROVE  AtDaemon'
  <2>1. n \in Accounted'
    BY <1>5 DEF Accounted, With, Free
  <2>2. orphans \subseteq orphans'
    OBVIOUS
  <2>3. QED
    BY <1>1, <1>5, <2>1, <2>2, PuttingUpKeeps
<1>6. \A k \in 0 .. Len(queue) : "other" \notin ToSet(SubSeq(queue, 1, k))
  BY <1>1, ListProperties, ListStart
<1>7. CASE Impossible
  <2>1. \A i \in DOMAIN queue : i - 1 \in 0 .. Len(queue)
    BY <1>1, ListProperties
  <2>2. QED
    BY <1>3, <1>4, <1>5, <1>6, <1>7, <2>1 DEF Impossible
<1>8. CASE HalfDone
  <2>1. \A k \in 1 .. Len(queue) : k \in 0 .. Len(queue)
    BY <1>1, ListProperties
  <2>2. ASSUME NEW k \in 1 .. Len(hosts), Terminated(SubSeq(hosts, 1, k)) PROVE AtDaemon'
    <3>1. "other" \notin ToSet(SubSeq(hosts, 1, k))
      BY <1>1, ListProperties, ListStart
    <3>2. PICK ks : daemon' = Without({h \in ToSet(SubSeq(hosts, 1, k)) : Runs(h)} \ ks)
      BY <2>2 DEF Terminated
    <3>3. QED
      BY <1>4, <3>1, <3>2
  <2>3. Step[1] = "remove" /\ Contains(queue, Step[2]) => Step[2] # "other"
    BY <1>1 DEF Contains, ToSet
  <2>4. QED
    BY <1>3, <1>4, <1>5, <1>6, <1>8, <2>1, <2>2, <2>3 DEF HalfDone
<1>9. QED
  BY <1>7, <1>8

----------------------------------------------------------------------------
(* The invariant of scripts and clean-up.                                  *)

CleanupLists ==
  /\ ce = "remove" => /\ Left \subseteq {c.name : c \in listed}
                      /\ "other" \notin {c.name : c \in listed}
  /\ ce = "done" => Left = {}

ScriptInv ==
  Place /\ AtDaemon /\ NoQueue /\ FinalProgress /\ CleanupLists /\ OnlyOrphansLeft

LEMMA InitKeepsScript == ScriptInit => ScriptInv
<1> SUFFICES ASSUME ScriptInit PROVE ScriptInv
  OBVIOUS
<1>1. Left = {}
  BY DEF ScriptInit, Left
<1>2. ToSet(<<>>) = {} /\ IsList(<<>>)
  BY ShortLists DEF ToSet
<1>3. AtDaemon
  BY <1>1, <1>2 DEF ScriptInit, AtDaemon, Foreign
<1>4. Place
  BY ScriptsAssumption DEF ScriptInit, Place
<1>5. QED
  BY <1>1, <1>3, <1>4 DEF ScriptInit, ScriptInv, NoQueue, FinalProgress, CleanupLists, OnlyOrphansLeft

LEMMA StartKeepsScript ==
  ASSUME ScriptInv, Start
  PROVE  ScriptInv'
<1>1. PICK s \in Scripts : script' = s /\ part' = From(s, "before")
  BY DEF Start
<1>2. s \in DOMAIN Steps
  BY ScriptsAssumption
<1>3. part' \in OwnParts /\ 1 \in 1 .. Len(StepsOf(s, part'))
  BY <1>1, <1>2, FromPart DEF OwnParts
<1>4. Place' /\ part' # "ended"
  BY <1>1, <1>2, <1>3 DEF Start, Place, OwnParts, StepsOf
<1>5. ToSet(<<>>) = {} /\ IsList(<<>>)
  BY ShortLists DEF ToSet
<1>6. AtDaemon'
  BY <1>5 DEF Start, ScriptInv, AtDaemon, Left, Foreign, Accounted
<1>7. QED
  BY <1>4, <1>6 DEF Start, ScriptInv, NoQueue, FinalProgress, CleanupLists, OnlyOrphansLeft

LEMMA DoKeepsScript ==
  ASSUME ScriptInv, Do
  PROVE  ScriptInv'
<1>1. /\ Doing /\ GoOn /\ part # "ended" /\ ce = "none" /\ ce' = ce
      /\ script' = script /\ orphans' = orphans /\ found' = found
      /\ kept \subseteq kept' /\ (DoNetStop \/ kept' = kept)
  BY DEF Do, Doing, DoNetStop, Terminated, cleanup, ScriptInv, Place
<1>2. AtDaemon' /\ NoQueue'
  BY <1>1, DoingKeeps DEF ScriptInv
<1>3. /\ Place'
      /\ part' = "ended" => part = "final" /\ pos = Len(StepsOf(script, "final"))
      /\ part' = "final" => pos' = 1 \/ (part = "final" /\ pos' = pos + 1)
  BY <1>1, GoOnPlace DEF ScriptInv
<1>4. part = "final" => /\ queue' = queue /\ Left' \subseteq Accounted'
                        /\ pos > 1 => Left' \subseteq orphans \cup kept' \cup found
                        /\ pos > 2 => DoIpv6
  BY <1>1, FinalDoing DEF ScriptInv
<1>5. part = "final" => /\ pos \in 1 .. Len(StepsOf(script, "final"))
                        /\ Len(StepsOf(script, "final")) \in 1 .. 3
  BY FinalParts DEF ScriptInv, Place
<1>6. FinalProgress'
  BY <1>1, <1>3, <1>4, <1>5 DEF FinalProgress, Accounted
<1>7. OnlyOrphansLeft'
  <2> SUFFICES ASSUME part' = "ended"
               PROVE  Left' \ found \subseteq orphans \cup kept' /\ (script = "multihop" => ipv6')
    BY <1>1 DEF OnlyOrphansLeft
  <2>1. Left' \subseteq orphans \cup kept' \cup found
    <3>1. CASE pos > 1
      BY <1>3, <1>4, <3>1
    <3>2. CASE pos = 1
      <4>1. Len(Steps[script].final) = 1
        BY <1>3, <3>2, FinalParts DEF ScriptInv, Place
      <4>2. queue = <<>> /\ ToSet(<<>>) = {}
        BY <4>1 DEF ScriptInv, NoQueue, ManagerStops, ToSet
      <4>3. QED
        BY <1>1, <1>3, <1>4, <4>2 DEF Accounted
    <3>3. QED
      BY <1>3, <1>5, <3>1, <3>2
  <2>2. ASSUME script = "multihop" PROVE ipv6'
    <3>1. pos = 3 /\ Step = EnableIpv6
      <4>1. script \in DOMAIN Steps /\ part = "final" /\ pos = Len(StepsOf(script, "final"))
        BY <1>3 DEF ScriptInv, Place
      <4>2. Len(StepsOf(script, "final")) = 3 /\ StepsOf(script, "final")[3] = EnableIpv6
        BY <2>2, <4>1, FinalParts
      <4>3. QED
        BY <4>1, <4>2 DEF Step
    <3>2. ipv6' = Step[2]
      BY <1>3, <1>4, <3>1 DEF DoIpv6
    <3>3. EnableIpv6[2] = TRUE
      BY DEF EnableIpv6, Ipv6
    <3>4. QED
      BY <3>1, <3>2, <3>3, Zenon
  <2>3. QED
    BY <2>1, <2>2
<1>8. QED
  BY <1>1, <1>2, <1>3, <1>6, <1>7 DEF ScriptInv, CleanupLists

LEMMA RaiseKeepsScript ==
  ASSUME ScriptInv, Fails \/ Breaks
  PROVE  ScriptInv'
<1>1. /\ Impossible \/ HalfDone
      /\ orphans' = orphans \cup (DOMAIN daemon' \ DOMAIN daemon)
      /\ part # "ended" /\ ce = "none" /\ ce' = ce
      /\ script' = script /\ found' = found /\ hosts' = hosts /\ queue' = queue
      /\ kept \subseteq kept'
      /\ \E b \in BOOLEAN : Raise(b)
  BY DEF Fails, Breaks, HalfDone, Terminated, cleanup, ScriptInv, Place
<1>2. AtDaemon'
  BY <1>1, RaisingKeeps DEF ScriptInv
<1>3. Place' /\ pos' = 1 /\ (part' = "ended" => outcome' = "cut")
  BY <1>1, RaisePlace DEF ScriptInv
<1>4. NoQueue'
  BY <1>1 DEF ScriptInv, NoQueue
<1>5. QED
  BY <1>1, <1>2, <1>3, <1>4 DEF ScriptInv, FinalProgress, CleanupLists, OnlyOrphansLeft

\* What only takes something away, and leaves the script where it is, disturbs nothing.
LEMMA ShrinkingKeepsScript ==
  ASSUME ScriptInv, Shrinks,
         UNCHANGED <<script, part, pos, ipv6, hosts, queue, orphans, kept, found, outcome, runs>>
  PROVE  /\ AtDaemon' /\ NoQueue' /\ FinalProgress' /\ OnlyOrphansLeft'
         /\ Left' \subseteq Left
<1>1. IsList(queue) /\ IsList(queue')
  BY DEF ScriptInv, AtDaemon
<1>2. AtDaemon' /\ Left' \subseteq Left
  BY <1>1, TakingAwayKeeps DEF ScriptInv
<1>3. QED
  BY <1>2 DEF ScriptInv, NoQueue, FinalProgress, Accounted, OnlyOrphansLeft

LEMMA EndsKeepsScript ==
  ASSUME ScriptInv, NEW n \in DOMAIN daemon, Ends(n)
  PROVE  ScriptInv'
<1>1. /\ UNCHANGED <<script, part, pos, ipv6, hosts, queue, orphans, kept, found, outcome, runs>>
      /\ ce' = ce /\ listed' = listed
  BY DEF Ends, cleanup
<1>2. "other" \in DOMAIN daemon /\ n # "other"
  BY DEF Ends, ScriptInv, AtDaemon
<1>3. CASE daemon[n].kind = "host"
  <2>1. Shrinks
    BY <1>2, <1>3, TakingAway DEF Ends
  <2>2. QED
    BY <1>1, <2>1, ShrinkingKeepsScript DEF ScriptInv, Place, StepsOf, CleanupLists
<1>4. CASE daemon[n].kind # "host"
  <2>1. /\ DOMAIN daemon' = DOMAIN daemon
        /\ \A m \in DOMAIN daemon : m # n => daemon'[m] = daemon[m]
        /\ daemon'[n].kind = "app"
    BY <1>4 DEF Ends, With
  <2>2. Left' = Left
    BY <2>1 DEF Left
  <2>3. AtDaemon'
    <3>1. \A m \in Left' : daemon'[m].kind \in {"host", "app"}
      BY <2>1, <2>2 DEF ScriptInv, AtDaemon, Left
    <3>2. Accounted' = Accounted
      BY <1>1 DEF Accounted
    <3>3. ASSUME NEW h \in ToSet(hosts) \cap DOMAIN daemon
          PROVE  h \in Accounted \/ (daemon'[h].kind = "host" /\ daemon'[h].state = "running")
      <4>1. h \in Accounted \/ (daemon[h].kind = "host" /\ daemon[h].state = "running")
        BY DEF ScriptInv, AtDaemon
      <4>2. QED
        BY <1>4, <2>1, <4>1
    <3>4. QED
      BY <1>1, <1>2, <2>1, <2>2, <3>1, <3>2, <3>3 DEF ScriptInv, AtDaemon
  <2>4. QED
    BY <1>1, <2>2, <2>3
       DEF ScriptInv, Place, StepsOf, NoQueue, FinalProgress, Accounted, CleanupLists, OnlyOrphansLeft
<1>5. QED
  BY <1>3, <1>4

\* cleanup() lists whatever carries the label, which all that is left does, and takes each away.
LEMMA CleanupKeepsScript ==
  ASSUME ScriptInv, CeStart \/ CeList \/ CeRemove
  PROVE  ScriptInv'
<1>1. /\ UNCHANGED <<script, part, pos, ipv6, hosts, queue, orphans, kept, found, outcome, runs>>
      /\ part = "ended" /\ "other" \in DOMAIN daemon
  BY DEF CeStart, CeList, CeRemove, ScriptInv, Place, AtDaemon
<1>2. ASSUME Shrinks PROVE Left' \subseteq Left /\ (CleanupLists' => ScriptInv')
  BY <1>1, <1>2, ShrinkingKeepsScript DEF ScriptInv, Place
<1>3. CASE CeStart
  <2>1. Shrinks /\ CleanupLists'
    BY <1>1, <1>3 DEF CeStart, Shrinks, CleanupLists
  <2>2. QED
    BY <1>2, <2>1
<1>4. CASE CeList
  <2>1. Shrinks
    BY <1>1, <1>4 DEF CeList, Shrinks
  <2>2. Left \subseteq Labelled /\ "other" \notin Labelled
    BY DEF Labelled, ScriptInv, AtDaemon, Left
  <2>3. {c.name : c \in listed'} = Labelled
    <3>1. listed' = {[name |-> n, kind |-> daemon[n].kind] : n \in Labelled}
      BY <1>4 DEF CeList
    <3>2. \A c \in listed' : c.name \in Labelled
      BY <3>1
    <3>3. \A n \in Labelled : \E c \in listed' : c.name = n
      <4>1. ASSUME NEW n \in Labelled
            PROVE  /\ [name |-> n, kind |-> daemon[n].kind] \in listed'
                   /\ [name |-> n, kind |-> daemon[n].kind].name = n
        BY <3>1
      <4>2. QED
        BY <4>1
    <3>4. QED
      BY <3>2, <3>3
  <2>4. QED
    BY <1>2, <1>4, <2>1, <2>2, <2>3 DEF CeList, CleanupLists
<1>5. CASE CeRemove
  <2>1. /\ Left \subseteq {c.name : c \in listed} /\ "other" \notin {c.name : c \in listed}
        /\ ce = "remove"
    BY <1>5 DEF CeRemove, ScriptInv, CleanupLists
  <2>2. CASE listed = {}
    <3>1. Shrinks /\ Left = {} /\ ce' = "done"
      BY <1>1, <1>5, <2>1, <2>2 DEF CeRemove, Shrinks
    <3>2. QED
      BY <1>2, <3>1 DEF CleanupLists
  <2>3. CASE listed # {}
    <3>1. NextListed \in listed
      BY <2>3 DEF NextListed
    <3>2. CASE Free(NextListed.name)
      <4>1. Shrinks /\ CleanupLists'
        BY <1>1, <1>5, <2>3, <3>2 DEF CeRemove, Shrinks, CleanupLists
      <4>2. QED
        BY <1>2, <4>1
    <3>3. CASE ~Free(NextListed.name)
      <4>1. /\ daemon' = Without({NextListed.name}) /\ listed' = listed \ {NextListed}
            /\ ce' = "remove" /\ NextListed.name # "other"
        BY <1>5, <2>1, <2>3, <3>1, <3>3 DEF CeRemove
      <4>2. Shrinks /\ DOMAIN daemon' = DOMAIN daemon \ {NextListed.name}
        BY <1>1, <4>1, TakingAway
      <4>3. Left' \subseteq {c.name : c \in listed'}
        BY <2>1, <4>1, <4>2 DEF Left
      <4>4. QED
        BY <1>2, <2>1, <4>1, <4>2, <4>3 DEF CleanupLists
    <3>4. QED
      BY <3>2, <3>3
  <2>4. QED
    BY <2>2, <2>3
<1>6. QED
  BY <1>3, <1>4, <1>5

LEMMA NextKeepsScript == ScriptInv /\ [ScriptNext]_scriptVars => ScriptInv'
<1> SUFFICES ASSUME ScriptInv, [ScriptNext]_scriptVars PROVE ScriptInv'
  OBVIOUS
<1>1. CASE Start
  BY <1>1, StartKeepsScript
<1>2. CASE Do
  BY <1>2, DoKeepsScript
<1>3. CASE Fails \/ Breaks
  BY <1>3, RaiseKeepsScript
<1>4. CASE \E n \in DOMAIN daemon : Ends(n)
  BY <1>4, EndsKeepsScript
<1>5. CASE CeStart \/ CeList \/ CeRemove
  BY <1>5, CleanupKeepsScript
<1>6. CASE UNCHANGED scriptVars
  BY <1>6 DEF scriptVars, cleanup, ScriptInv, Place, StepsOf, AtDaemon, Left, Accounted, NoQueue,
              FinalProgress, CleanupLists, OnlyOrphansLeft
<1>7. QED
  BY <1>1, <1>2, <1>3, <1>4, <1>5, <1>6 DEF ScriptNext

\* All a script leaves behind is accounted for at every step, whichever of the scripts runs,
\* however many run one after the other, and wherever they raise or are interrupted: it is a
\* host of the network, is registered at the manager, was left by a call that raised, was
\* kept by docker or was there before (create_topology, the bodies and the finally clauses of the scripts).
THEOREM ScriptCorrect == ScriptSpec => []ScriptInv
<1>1. ScriptInv /\ [ScriptNext]_scriptVars => ScriptInv'
  BY NextKeepsScript
<1>2. QED
  BY <1>1, InitKeepsScript, PTL DEF ScriptSpec

\* A script that is not cut short leaves nothing but what calls created before they raised
\* and the hosts docker refused to remove, and IPv6 enabled (terminate, run_multihop_nc_test and
\* the other scripts).
THEOREM OnlyOrphansLeftHolds == ScriptSpec => []OnlyOrphansLeft
<1>1. ScriptInv => OnlyOrphansLeft
  BY DEF ScriptInv
<1>2. QED
  BY <1>1, ScriptCorrect, PTL

\* When cleanup() returns, no container of the emulator is left, and containers of others are
\* never touched, by scripts or by the clean-up (cleanup_docker_containers of clean.py).
THEOREM CleanupIsExactHolds == ScriptSpec => []CleanupIsExact
<1>1. ScriptInv => CleanupIsExact
  BY DEF ScriptInv, CleanupLists, AtDaemon, CleanupIsExact, Foreign
<1>2. QED
  BY <1>1, ScriptCorrect, PTL
=============================================================================
