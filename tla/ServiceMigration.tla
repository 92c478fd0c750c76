-------------------------- MODULE ServiceMigration --------------------------
(***************************************************************************)
(* examples/service_migration: a counting service moves from h2 to h3 and  *)
(* back while a client uses it.  topology.py is the script that deploys,   *)
(* signals, removes and redirects; server.py counts requests and, on       *)
(* SIGTERM, sends its counter to the other host; client.py sends one       *)
(* request and waits for the answer.  The model begins when the first      *)
(* server serves on h2 (topology.py:131) and the client has been deployed. *)
(***************************************************************************)
EXTENDS Naturals, Sequences

CONSTANTS
  MaxRequests,  \* bound: requests of the client
  Kills         \* how often the script signals the old server (3)

ASSUME MigrationAssumption == MaxRequests \in Nat /\ Kills \in Nat \ {0}

VARIABLES
  script,    \* what the script does next
  old,       \* the host of the server it replaces, or replaced last
  kills,     \* SIGTERMs of this migration
  phase,     \* where the server process of each host is
  counter,   \* the counter of that process
  pending,   \* has that process a SIGTERM to handle?
  state,     \* counters on their way to port 9999 of each host, oldest first
  flow,      \* where switch s1 forwards what h1 sends
  request,   \* where the client's request is: a host, s1, or nowhere
  response,  \* the counter on its way to the client, or 0
  client,    \* "send" or "wait"
  sent,      \* requests the client sent
  received,  \* history: requests that servers took from their sockets
  atFirst    \* history: the counter of the old server at the first SIGTERM

service == <<phase, counter, pending, state>>
traffic == <<request, response, client, sent, received>>
vars == <<script, old, kills, service, flow, traffic, atFirst>>

Hosts == {"h2", "h3"}
Other(h) == IF h = "h2" THEN "h3" ELSE "h2"
new == Other(old)
Nowhere == "nowhere"
Served == {"serve", "reply"}  \* the service socket is bound, the handler installed

Init ==
  /\ script = "add"
  /\ old = "h2"
  /\ kills = 0
  /\ phase = [h2 |-> "serve", h3 |-> "none"]
  /\ counter = [h \in Hosts |-> 0]
  /\ pending = [h \in Hosts |-> FALSE]
  /\ state = [h \in Hosts |-> <<>>]
  /\ flow = "h2"
  /\ request = Nowhere
  /\ response = 0
  /\ client = "send"
  /\ sent = 0
  /\ received = 0
  /\ atFirst = 0

----------------------------------------------------------------------------
\* The script.  Its calls of mgr wait until the daemon is done.

\* addContainer(... --get_state): the process runs, its port is not bound yet.
AddServer ==
  /\ script = "add"
  /\ phase' = [phase EXCEPT ![new] = "start"]
  /\ counter' = [counter EXCEPT ![new] = 0]
  /\ script' = "kill"
  /\ UNCHANGED <<old, kills, pending, state, flow, traffic, atFirst>>

\* Faulty variant: signal.signal comes after the loop, SIGTERM ends the process.
KillDefault ==
  /\ script = "kill"
  /\ phase[old] # "dead"
  /\ kills < Kills
  /\ kills' = kills + 1
  /\ atFirst' = IF kills = 0 THEN counter[old] ELSE atFirst
  /\ phase' = [phase EXCEPT ![old] = "dead"]
  /\ UNCHANGED <<script, old, pending, counter, state, flow, traffic>>

\* kill PID: a process that has not installed its handler dies of the signal.
Kill ==
  /\ script = "kill"
  /\ phase[old] # "dead"
  /\ kills < Kills
  /\ kills' = kills + 1
  /\ atFirst' = IF kills = 0 THEN counter[old] ELSE atFirst
  /\ IF phase[old] \in Served
     THEN pending' = [pending EXCEPT ![old] = TRUE] /\ UNCHANGED phase
     ELSE phase' = [phase EXCEPT ![old] = "dead"] /\ UNCHANGED pending
  /\ UNCHANGED <<script, old, counter, state, flow, traffic>>

\* kill, or pgrep before it, finds no process: check_output raises, no finally.
KillFails ==
  /\ script = "kill"
  /\ phase[old] = "dead"
  /\ kills < Kills
  /\ script' = "aborted"
  /\ UNCHANGED <<old, kills, service, flow, traffic, atFirst>>

\* removeContainer takes the process, its sockets and what they hold away.
RemoveServer(h) ==
  /\ phase' = [phase EXCEPT ![h] = "none"]
  /\ pending' = [pending EXCEPT ![h] = FALSE]
  /\ request' = IF request = h THEN Nowhere ELSE request

RemoveOld ==
  /\ script = "kill"
  /\ kills = Kills
  /\ RemoveServer(old)
  /\ script' = "switch"
  /\ UNCHANGED <<old, kills, counter, state, flow, response, client, sent, received, atFirst>>

ModFlow ==
  /\ script = "switch"
  /\ flow' = new
  /\ script' = "sleep"
  /\ UNCHANGED <<old, kills, service, traffic, atFirst>>

\* Faulty variant: the script waits until the new server serves.
SleepUntilServed ==
  /\ script = "sleep"
  /\ phase[new] \in Served
  /\ script' = IF old = "h2" THEN "add" ELSE "end"
  /\ old' = new
  /\ kills' = 0
  /\ UNCHANGED <<service, flow, traffic, atFirst>>

\* Ten seconds, in which a process that can start has started and every datagram with a
\* counter has arrived or is lost.  The migration to h3 is followed by the one back to h2.
Sleep ==
  /\ script = "sleep"
  /\ phase[new] \notin {"start", "init"}
  /\ state[new] = <<>>
  /\ script' = IF old = "h2" THEN "add" ELSE "end"
  /\ old' = new
  /\ kills' = 0
  /\ UNCHANGED <<service, flow, traffic, atFirst>>

\* The ValueError for the server of h3, removed long ago, is printed; then the network
\* and the manager stop, and the client with them.
End ==
  /\ script = "end"
  /\ RemoveServer("h2")
  /\ script' = "done"
  /\ UNCHANGED <<old, kills, counter, state, flow, response, client, sent, received, atFirst>>

----------------------------------------------------------------------------
\* The server process of host h.

\* recv_state binds the port.
Bind(h) ==
  /\ phase[h] = "start"
  /\ phase' = [phase EXCEPT ![h] = "recv"]
  /\ UNCHANGED <<script, old, kills, counter, pending, state, flow, traffic, atFirst>>

\* It takes one datagram; its socket goes away with the function, and the later ones.
RecvState(h) ==
  /\ phase[h] = "recv"
  /\ state[h] # <<>>
  /\ counter' = [counter EXCEPT ![h] = Head(state[h])]
  /\ state' = [state EXCEPT ![h] = Tail(@)]
  /\ phase' = [phase EXCEPT ![h] = "init"]
  /\ UNCHANGED <<script, old, kills, pending, flow, traffic, atFirst>>

\* signal.signal, and the service socket.
StartService(h) ==
  /\ phase[h] = "init"
  /\ phase' = [phase EXCEPT ![h] = "serve"]
  /\ UNCHANGED <<script, old, kills, counter, pending, state, flow, traffic, atFirst>>

Count(h) ==
  /\ phase[h] = "serve"
  /\ request = h
  /\ request' = Nowhere
  /\ counter' = [counter EXCEPT ![h] = @ + 1]
  /\ received' = received + 1
  /\ phase' = [phase EXCEPT ![h] = "reply"]
  /\ UNCHANGED <<script, old, kills, pending, state, flow, response, client, sent, atFirst>>

Reply(h) ==
  /\ phase[h] = "reply"
  /\ response' = counter[h]
  /\ phase' = [phase EXCEPT ![h] = "serve"]
  /\ UNCHANGED <<script, old, kills, counter, pending, state, flow, request, client, sent,
                 received, atFirst>>

\* Faulty variant: the handler sends the counter the process started with.
HandlerOfStart(h) ==
  /\ pending[h]
  /\ phase[h] \in Served
  /\ state' = [state EXCEPT ![Other(h)] = Append(@, 0)]
  /\ pending' = [pending EXCEPT ![h] = FALSE]
  /\ UNCHANGED <<script, old, kills, phase, counter, flow, traffic, atFirst>>

\* Faulty variant: the handler sends the count of the next request.
HandlerOfNext(h) ==
  /\ pending[h]
  /\ phase[h] \in Served
  /\ state' = [state EXCEPT ![Other(h)] = Append(@, counter[h] + 1)]
  /\ pending' = [pending EXCEPT ![h] = FALSE]
  /\ UNCHANGED <<script, old, kills, phase, counter, flow, traffic, atFirst>>

\* The handler runs between two statements of the loop.  Its six datagrams carry one
\* value: they are one here, which arrives or is lost.
TermSignalHandler(h) ==
  /\ pending[h]
  /\ phase[h] \in Served
  /\ state' = [state EXCEPT ![Other(h)] = Append(@, counter[h])]
  /\ pending' = [pending EXCEPT ![h] = FALSE]
  /\ UNCHANGED <<script, old, kills, phase, counter, flow, traffic, atFirst>>

----------------------------------------------------------------------------
\* The network: s1, and the datagrams with the counter, which UDP may lose.

Forward ==
  /\ request = "s1"
  /\ request' = flow
  /\ UNCHANGED <<script, old, kills, service, flow, response, client, sent, received, atFirst>>

\* Nothing is bound to the service port of that host.
DropRequest(h) ==
  /\ request = h
  /\ phase[h] \notin Served
  /\ request' = Nowhere
  /\ UNCHANGED <<script, old, kills, service, flow, response, client, sent, received, atFirst>>

DropState(h) ==
  /\ state[h] # <<>>
  /\ state' = [state EXCEPT ![h] = Tail(@)]
  /\ UNCHANGED <<script, old, kills, phase, counter, pending, flow, traffic, atFirst>>

----------------------------------------------------------------------------
\* The client: sendto, then recvfrom without a timeout.

SendRequest ==
  /\ client = "send"
  /\ script # "done"
  /\ sent < MaxRequests
  /\ sent' = sent + 1
  /\ request' = "s1"
  /\ client' = "wait"
  /\ UNCHANGED <<script, old, kills, service, flow, response, received, atFirst>>

Show ==
  /\ client = "wait"
  /\ response # 0
  /\ response' = 0
  /\ client' = "send"
  /\ UNCHANGED <<script, old, kills, service, flow, request, sent, received, atFirst>>

----------------------------------------------------------------------------
Script == AddServer \/ Kill \/ KillFails \/ RemoveOld \/ ModFlow \/ Sleep \/ End
Start(h) == Bind(h) \/ StartService(h)
Serve(h) == Count(h) \/ Reply(h)
Server(h) == Start(h) \/ RecvState(h) \/ Serve(h) \/ TermSignalHandler(h)
Network == Forward \/ \E h \in Hosts : DropRequest(h) \/ DropState(h)
Client == SendRequest \/ Show

Next == Script \/ Network \/ Client \/ \E h \in Hosts : Server(h)

Spec == Init /\ [][Next]_vars

\* The script goes on, a process starts, a datagram arrives or is lost.
FairSpec ==
  /\ Spec
  /\ WF_vars(Script)
  /\ \A h \in Hosts : WF_vars(Start(h)) /\ WF_vars(RecvState(h) \/ DropState(h))

----------------------------------------------------------------------------
\* No server counts a request twice, not even across two migrations: no counter, in a
\* process or on its way to one, exceeds the requests that were received.
NeverOvercounts ==
  \A h \in Hosts :
    /\ counter[h] <= received
    /\ \A k \in DOMAIN state[h] : state[h][k] <= received

\* A migrated server goes on from a count its predecessor had at the first SIGTERM or
\* later: what is forgotten are requests that came while the migration was under way,
\* whichever of the three signals' datagrams arrives and whatever an earlier migration sent.
StateIsFresh ==
  [][\A h \in Hosts :
       phase[h] = "recv" /\ phase'[h] = "init" =>
         counter'[h] >= atFirst]_vars

\* The script fails only in the second migration, and only when the server on h3 never
\* got a counter: a server that serves survives its signals.
AbortMeansStateLost ==
  script = "aborted" => old = "h3" /\ counter["h3"] = 0 /\ phase["h3"] = "dead"

\* The client waits for an answer nobody will send: the request was lost on its way to a
\* host without a server, or in a server that was removed.
ClientStuck == client = "wait" /\ request = Nowhere /\ response = 0 /\ \A h \in Hosts : phase[h] # "reply"

\* Neither the new server on the same address nor the signals cost the client, which has no
\* timeout, its answer: before the old server is removed no request is lost.
NoLossBeforeRemoval == script \in {"add", "kill"} /\ old = "h2" => ~ClientStuck

\* What goes wrong for the script or the client has these causes only (topology.py:156-193).
FailuresAreExplained == AbortMeansStateLost /\ NoLossBeforeRemoval

\* recv_state and the client wait without a timeout, the script does not wait for either:
\* it comes to its end, or fails.
ScriptEnds == <>(script \in {"done", "aborted"})

=============================================================================
