----------------------------- MODULE UdpSource -----------------------------
(***************************************************************************)
(* app/machine_learning_for_congestion_control: source.py sends numbered   *)
(* packets over a bottleneck that drops some of them, destination.py       *)
(* acknowledges each one it gets.  The source counts the packets in flight *)
(* from the numbers of the acknowledgements, attributes each of these to   *)
(* the congestion window that sent the packet, and changes the size of the *)
(* window by an action of the learning agent once a window is measured.    *)
(* One path leads to the destination and one back: nothing is overtaken.   *)
(***************************************************************************)
EXTENDS Integers, Sequences, SequencesExt

CONSTANTS
  MaxSeq,   \* max_seq (10e8): packets have smaller numbers
  Actions,  \* the actions of the agent (0..10)
  MaxLost   \* bound: packets or acknowledgements the network loses

ASSUME SourceAssumption ==
  /\ MaxSeq \in Nat /\ MaxSeq > 2
  /\ Actions \subseteq Nat /\ Actions # {}
  /\ MaxLost \in Nat

VARIABLES
  pc,       \* "receive" (blocked in recvfrom), "fill" the window, "ended", "exited"
  client,   \* the UDPCCClient; cwnd, which may be a half, is counted in halves
  network,  \* packets on their way to the destination, or their answers, oldest first
  buffer,   \* acknowledgements in the socket of the client
  lost      \* numbers of the packets that were lost, or whose answer was

vars == <<pc, client, network, buffer, lost>>

NewWindow(start) == [start |-> start, sent |-> {}, acked |-> {}, done |-> FALSE]

\* get_tx_window and get_rx_window, as positions in windows.
TxWindow(c) == Len(c.windows)
RxWindow(c) == IF Len(c.windows) > 1 THEN Len(c.windows) - 1 ELSE 1

\* send_packet(next_tx_seq)
SendPacket(c) ==
  [c EXCEPT !.windows[TxWindow(c)].sent = @ \cup {c.nextTx},
            !.inFlight = @ + 1,
            !.nextTx = @ + 1]

Fresh ==
  [nextTx |-> 1, nextRx |-> 1, inFlight |-> 0, cwnd |-> 2, slowStart |-> TRUE,
   windows |-> <<NewWindow(1)>>, endLoop |-> FALSE, exited |-> FALSE]

\* run_episode sends the first packet before the loop.
Init ==
  /\ pc = "receive"
  /\ client = SendPacket(Fresh)
  /\ network = <<1>>
  /\ buffer = <<>>
  /\ lost = {}

----------------------------------------------------------------------------
Larger(a, b) == IF a > b THEN a ELSE b
Smaller(a, b) == IF a < b THEN a ELSE b

\* update_cwnd: five percent per step of the action away from 5, at least one packet, and
\* int().  The argument and the result are in halves.
UpdateCwnd(cwnd, action) ==
  LET d == action - 5 IN
  IF d = 0 THEN cwnd
  ELSE IF d > 0 THEN 2 * (Larger(20 * cwnd + 40, (20 + d) * cwnd) \div 40)
  ELSE 2 * Larger(1, Smaller(20 * cwnd - 40, (20 + d) * cwnd) \div 40)

StartNewWindow(c, action) ==
  [c EXCEPT !.cwnd = IF c.slowStart THEN @ ELSE UpdateCwnd(@, action),
            !.windows = Append(@, NewWindow(c.nextTx))]

\* loss_rate > 0
Lossy(w) == Cardinality(w.sent) > Cardinality(w.acked)

\* end_window: a window without an answer makes the program exit; a loss ends slow start
\* and halves the window; when the time is up the loop ends.
EndWindow(c, k, late) ==
  LET w == c.windows[k]
      leave == c.slowStart /\ k > 1 /\ Lossy(w) IN
  IF w.acked = {} THEN [c EXCEPT !.exited = TRUE]
  ELSE [c EXCEPT !.windows[k].done = TRUE,
                 !.endLoop = @ \/ late,
                 !.cwnd = IF leave THEN @ \div 2 ELSE @,
                 !.slowStart = @ /\ ~leave]

Credit(c, seq) == [c EXCEPT !.windows[RxWindow(c)].acked = @ \cup {seq}]

\* Faulty variant: each answer takes one packet out of flight.
CountedByOne(c, seq) ==
  [c EXCEPT !.inFlight = @ - 1,
            !.nextRx = seq + 1,
            !.cwnd = IF c.slowStart THEN @ + 2 ELSE @]

\* An answer tells that the packets before its own are not in flight any more.
Counted(c, seq) ==
  [c EXCEPT !.inFlight = @ - (1 + seq - c.nextRx),
            !.nextRx = seq + 1,
            !.cwnd = IF c.slowStart THEN @ + 2 ELSE @]

\* Faulty variant: the new window is started before the old one is ended.
ReceiveAckSwapped(c, seq, action, late) ==
  LET d == Counted(c, seq)
      e == StartNewWindow(d, action)
      f == IF ~e.windows[RxWindow(e)].done THEN EndWindow(e, RxWindow(e), late) ELSE e IN
  IF seq < d.windows[TxWindow(d)].start THEN Credit(d, seq)
  ELSE IF f.exited THEN f
  ELSE Credit(f, seq)

\* receive_ack: the first answer to a packet of the sending window ends the window before
\* it and starts a new one; the answer is credited to the last window but one.
ReceiveAck(c, seq, action, late) ==
  LET d == Counted(c, seq)
      e == IF RxWindow(d) # TxWindow(d) /\ ~d.windows[RxWindow(d)].done
           THEN EndWindow(d, RxWindow(d), late) ELSE d IN
  IF seq < d.windows[TxWindow(d)].start THEN Credit(d, seq)
  ELSE IF e.exited THEN e
  ELSE Credit(StartNewWindow(e, action), seq)

----------------------------------------------------------------------------
\* Faulty variant: the packet about to be sent is counted as well.
MaySendLess == client.nextTx < MaxSeq /\ 2 * (client.inFlight + 1) < client.cwnd

MaySend == client.nextTx < MaxSeq /\ 2 * client.inFlight < client.cwnd

\* The top of loop().  setblocking(True) has just unset the timeout of the socket: the call
\* returns with an acknowledgement or not at all.
Receive ==
  /\ pc = "receive"
  /\ buffer # <<>>
  /\ \E action \in Actions, late \in BOOLEAN :
       client' = ReceiveAck(client, Head(buffer), action, late)
  /\ buffer' = Tail(buffer)
  /\ pc' = IF client'.exited THEN "exited" ELSE "fill"
  /\ UNCHANGED <<network, lost>>

\* One round of the inner loop: an acknowledgement if there is one, then a packet, also
\* when the acknowledgement has closed the window.
SendAfter(c) ==
  /\ client' = IF c.exited THEN c ELSE SendPacket(c)
  /\ network' = IF c.exited THEN network ELSE Append(network, c.nextTx)
  /\ pc' = IF c.exited THEN "exited" ELSE "fill"

Fill ==
  /\ pc = "fill"
  /\ MaySend
  /\ IF buffer = <<>>
     THEN SendAfter(client) /\ UNCHANGED buffer
     ELSE /\ \E action \in Actions, late \in BOOLEAN :
               SendAfter(ReceiveAck(client, Head(buffer), action, late))
          /\ buffer' = Tail(buffer)
  /\ UNCHANGED lost

\* The loop that would receive what is left in the buffer is never entered (end_loop =
\* False), and the next round of loop() begins.
FillEnds ==
  /\ pc = "fill"
  /\ ~MaySend
  /\ pc' = IF client.endLoop THEN "ended" ELSE "receive"
  /\ UNCHANGED <<client, network, buffer, lost>>

----------------------------------------------------------------------------
\* The destination answers, and the answer reaches the client.
Deliver ==
  /\ network # <<>>
  /\ buffer' = Append(buffer, Head(network))
  /\ network' = Tail(network)
  /\ UNCHANGED <<pc, client, lost>>

\* A full queue drops a packet or an acknowledgement.
Lose ==
  /\ Cardinality(lost) < MaxLost
  /\ \E k \in DOMAIN network :
       /\ lost' = lost \cup {network[k]}
       /\ network' = RemoveAt(network, k)
  /\ UNCHANGED <<pc, client, buffer>>

Next == Receive \/ Fill \/ FillEnds \/ Deliver \/ Lose

Spec == Init /\ [][Next]_vars

----------------------------------------------------------------------------
Underway == Len(network) + Len(buffer)

\* packets_in_flight, which is never counted but computed from the numbers answered, is
\* what is under way and what was lost behind the last answer: neither do losses use the
\* window up for good, nor are there ever more packets out than the source thinks.
InFlightIsExact ==
  client.inFlight = Underway + Cardinality({p \in lost : p >= client.nextRx})

\* An answer is credited to the window that sent its packet, also while the next window
\* is already being filled.
CreditedToSender ==
  \A k \in DOMAIN client.windows : client.windows[k].acked \subseteq client.windows[k].sent

\* When the loss rate of a window is computed the fate of all its packets is known: what
\* is not answered is lost, not late.
LossRateIsExact ==
  \A k \in DOMAIN client.windows :
    client.windows[k].done => client.windows[k].sent \ client.windows[k].acked \subseteq lost

\* end_window never meets a window without an answer, which would end the program, nor one
\* without a packet, by whose number it divides.
EndedWindowsAreMeasured ==
  /\ ~client.exited
  /\ \A k \in DOMAIN client.windows :
       client.windows[k].done => client.windows[k].sent # {} /\ client.windows[k].acked # {}

\* source.py:40, "assert last_window.done": when a window ends, the one before it has ended.
LastWindowDone ==
  \A j, k \in DOMAIN client.windows : j < k /\ client.windows[k].done => client.windows[j].done

\* The bookkeeping of windows, under losses at will: answers and losses are attributed to the
\* right one, and windows end in order, with something to measure (source.py:197-262).
WindowsAreExact ==
  CreditedToSender /\ LossRateIsExact /\ EndedWindowsAreMeasured /\ LastWindowDone

\* The source waits in vain only when the last packet is sent or when a whole window of
\* packets is lost: one loss among others does not stop it.
StallsOnlyOnLostWindow ==
  pc = "receive" /\ Underway = 0 =>
    \/ client.nextTx = MaxSeq
    \/ 2 * Cardinality({p \in lost : p >= client.nextRx}) >= client.cwnd

=============================================================================
