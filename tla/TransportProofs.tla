-------------------------- MODULE TransportProofs --------------------------
(***************************************************************************)
(* Proofs about the two programs that measure and code a stream of         *)
(* packets.  UdpSource, for any number of packets, losses and actions of   *)
(* the agent: the packets in flight are counted exactly, answers and       *)
(* losses are attributed to the right window, and one loss among others    *)
(* does not stop the source.  CodedChain, for any generation size, number  *)
(* of packets, losses and redundancy: no two generations are ever mixed,   *)
(* each packet is delivered once and in the order of the generations, and  *)
(* without loss all of them are.                                           *)
(***************************************************************************)
EXTENDS UdpSource, CodedChain, SequenceLemmas

----------------------------------------------------------------------------
(* UdpSource: the packets on the wire and what the source knows of them.   *)

Window == [start : Nat, sent : SUBSET Nat, acked : SUBSET Nat, done : BOOLEAN]

Client ==
  [nextTx : Nat, nextRx : Nat, inFlight : Int, cwnd : Nat, slowStart : BOOLEAN,
   windows : Seq(Window), endLoop : BOOLEAN, exited : BOOLEAN]

\* Every variable holds a value of its type.
TypeOK ==
  /\ pc \in {"receive", "fill", "ended", "exited"}
  /\ client \in Client
  /\ network \in Seq(Nat) /\ buffer \in Seq(Nat)
  /\ lost \in SUBSET Nat

\* The number of the first packet behind a window.
WindowEnd(c, k) == IF k = Len(c.windows) THEN c.nextTx ELSE c.windows[k + 1].start

\* The numbers of the packets are cut into windows: each one behind the last window but one
\* has ended, and was answered before the window behind it was started.
WindowsTile(c) ==
  LET n == Len(c.windows) IN
  /\ n > 0 /\ c.windows[1].start = 1 /\ c.windows[n].start <= c.nextTx
  /\ \A k \in 1 .. n :
       /\ c.windows[k].sent = c.windows[k].start .. WindowEnd(c, k) - 1
       /\ c.windows[k].done <=> k <= n - 2
       /\ k < n => c.windows[k].start < c.windows[k + 1].start /\ c.windows[k].acked # {}

\* The next answer awaited is behind the first packet of every window but the last, and not
\* behind the first one of the last window.
AnswersAwaited(c) ==
  LET n == Len(c.windows) IN
  /\ 0 < c.nextRx /\ c.nextRx <= c.windows[n].start
  /\ \A k \in 1 .. n - 1 : c.windows[k].start < c.nextRx
  /\ c.nextRx <= c.nextTx
  /\ c.inFlight = c.nextTx - c.nextRx

\* A packet with a number below that of the next answer awaited was answered, and its window
\* knows it, or is gone.
FateKnown(c, gone) ==
  \A k \in 1 .. Len(c.windows) :
    /\ c.windows[k].acked \subseteq c.windows[k].sent
    /\ \A p \in c.windows[k].sent : p < c.nextRx => p \in c.windows[k].acked \cup gone

ClientInv(c, gone) == WindowsTile(c) /\ AnswersAwaited(c) /\ FateKnown(c, gone) /\ ~c.exited

\* Packets and answers under way are in the order of their numbers; with those that are gone
\* they are the packets from the next answer awaited on.
WireIs(net, buf, gone, first, beyond) ==
  /\ Increasing(net) /\ Increasing(buf)
  /\ \A p \in ToSet(buf), q \in ToSet(net) : p < q
  /\ ToSet(buf) \cup ToSet(net) \cup {p \in gone : p >= first} = first .. beyond - 1
  /\ \A p \in gone : p \notin ToSet(buf) \cup ToSet(net) /\ p < beyond

WireInv == WireIs(network, buffer, lost, client.nextRx, client.nextTx)

\* The source blocks only when it may not send.
BlocksWhenFull == pc = "receive" => ~MaySend

SourceInv ==
  TypeOK /\ ClientInv(client, lost) /\ WireInv /\ BlocksWhenFull /\ client.nextTx <= MaxSeq
----------------------------------------------------------------------------
(* What the operations of the client do to its record.                     *)

\* The new size of a window is a whole number of halves.
LEMMA UpdateCwndType ==
  ASSUME NEW cwnd \in Nat, NEW action \in Nat
  PROVE  UpdateCwnd(cwnd, action) \in Nat
<1> DEFINE d == action - 5
           p == (20 + d) * cwnd
<1>1. d \in Int /\ p \in Int
  OBVIOUS
<1>2. CASE d = 0
  BY <1>2 DEF UpdateCwnd
<1>3. CASE d > 0
  <2>1. UpdateCwnd(cwnd, action) = 2 * (Larger(20 * cwnd + 40, p) \div 40)
    BY <1>3 DEF UpdateCwnd
  <2> HIDE DEF p
  <2>2. Larger(20 * cwnd + 40, p) \in Nat
    BY <1>1 DEF Larger
  <2>3. Larger(20 * cwnd + 40, p) \div 40 \in Nat
    BY <2>2
  <2>4. QED
    BY <2>1, <2>3
<1>4. CASE d < 0
  <2>1. UpdateCwnd(cwnd, action) = 2 * Larger(1, Smaller(20 * cwnd - 40, p) \div 40)
    BY <1>1, <1>4 DEF UpdateCwnd
  <2> HIDE DEF p
  <2>2. Smaller(20 * cwnd - 40, p) \in Int
    BY <1>1 DEF Smaller
  <2>3. Smaller(20 * cwnd - 40, p) \div 40 \in Int
    BY <2>2
  <2>4. Larger(1, Smaller(20 * cwnd - 40, p) \div 40) \in Nat
    BY <2>3 DEF Larger
  <2>5. QED
    BY <2>1, <2>4
<1>5. QED
  BY <1>1, <1>2, <1>3, <1>4

\* What the windows of a client are, field by field, and how the last ones are found.
LEMMA WindowFacts ==
  ASSUME NEW c \in Client, NEW gone \in SUBSET Nat, ClientInv(c, gone)
  PROVE  LET V == c.windows
             n == Len(V) IN
         /\ n \in Nat \ {0}
         /\ \A k \in 1 .. n : /\ V[k] \in Window /\ V[k].start \in Nat /\ V[k].done \in BOOLEAN
                              /\ V[k].sent \in SUBSET Nat /\ V[k].acked \in SUBSET V[k].sent
         /\ c.nextTx \in Nat /\ c.nextRx \in Nat /\ c.inFlight = c.nextTx - c.nextRx
         /\ 0 < c.nextRx /\ c.nextRx <= V[n].start /\ V[n].start <= c.nextTx
         /\ \A k \in 1 .. n - 1 : V[k].start < c.nextRx
         /\ V[1].start = 1
         /\ \A k \in 1 .. n : V[k].done <=> k <= n - 2
         /\ \A k \in 1 .. n : k < n =>
              /\ V[k].start < V[k + 1].start /\ V[k].acked # {}
              /\ V[k].sent = V[k].start .. V[k + 1].start - 1
         /\ V[n].sent = V[n].start .. c.nextTx - 1
<1> DEFINE V == c.windows
           n == Len(V)
<1>1. V \in Seq(Window) /\ n \in Nat \ {0} /\ \A k \in 1 .. n : V[k] \in Window
  BY LenProperties, ElementOfSeq DEF Client, ClientInv, WindowsTile
<1>2. \A k \in 1 .. n : /\ V[k].start \in Nat /\ V[k].done \in BOOLEAN
                        /\ V[k].sent \in SUBSET Nat /\ V[k].acked \in SUBSET V[k].sent
  BY <1>1 DEF Window, ClientInv, FateKnown
<1>3. c.nextTx \in Nat /\ c.nextRx \in Nat
  BY DEF Client
<1>4. /\ c.inFlight = c.nextTx - c.nextRx
      /\ 0 < c.nextRx /\ c.nextRx <= V[n].start
      /\ \A k \in 1 .. n - 1 : V[k].start < c.nextRx
  BY DEF ClientInv, AnswersAwaited
<1>5. /\ V[n].start <= c.nextTx /\ V[1].start = 1
      /\ \A k \in 1 .. n : V[k].done <=> k <= n - 2
      /\ \A k \in 1 .. n : k < n => V[k].start < V[k + 1].start /\ V[k].acked # {}
      /\ \A k \in 1 .. n : V[k].sent = V[k].start .. WindowEnd(c, k) - 1
  BY DEF ClientInv, WindowsTile
<1>6. WindowEnd(c, n) = c.nextTx /\ \A k \in 1 .. n : k < n => WindowEnd(c, k) = V[k + 1].start
  BY <1>1 DEF WindowEnd
<1> HIDE DEF V, n
<1>7. V[n].sent = V[n].start .. c.nextTx - 1
  <2>1. n \in 1 .. n
    BY <1>1
  <2>2. QED
    BY <1>5, <1>6, <2>1
<1>8. \A k \in 1 .. n : k < n => V[k].sent = V[k].start .. V[k + 1].start - 1
  BY <1>5, <1>6
<1>9. QED
  BY <1>1, <1>2, <1>3, <1>4, <1>5, <1>7, <1>8 DEF V, n

\* The facts about the windows together make the invariant.
LEMMA WindowFactsSuffice ==
  ASSUME NEW c \in Client, NEW gone \in SUBSET Nat, NEW n \in Nat \ {0}, Len(c.windows) = n,
         c.inFlight = c.nextTx - c.nextRx, ~c.exited,
         0 < c.nextRx, c.nextRx <= c.windows[n].start, c.windows[n].start <= c.nextTx,
         \A k \in 1 .. n - 1 : c.windows[k].start < c.nextRx,
         c.windows[1].start = 1,
         \A k \in 1 .. n : c.windows[k].done <=> k <= n - 2,
         \A k \in 1 .. n : k < n =>
           /\ c.windows[k].start < c.windows[k + 1].start /\ c.windows[k].acked # {}
           /\ c.windows[k].sent = c.windows[k].start .. c.windows[k + 1].start - 1,
         c.windows[n].sent = c.windows[n].start .. c.nextTx - 1,
         FateKnown(c, gone)
  PROVE  ClientInv(c, gone)
<1>1. ASSUME NEW k \in 1 .. n
      PROVE  c.windows[k].sent = c.windows[k].start .. WindowEnd(c, k) - 1
  <2>1. CASE k = n
    BY <2>1 DEF WindowEnd
  <2>2. CASE k # n
    BY <2>2 DEF WindowEnd
  <2>3. QED
    BY <2>1, <2>2
<1>2. WindowsTile(c)
  BY <1>1 DEF WindowsTile
<1>3. c.nextRx <= c.nextTx
  <2>1. c.windows[n] \in Window /\ c.nextRx \in Nat /\ c.nextTx \in Nat
    BY ElementOfSeq DEF Client
  <2>2. c.windows[n].start \in Nat
    BY <2>1 DEF Window
  <2>3. QED
    BY <2>1, <2>2
<1>4. AnswersAwaited(c)
  BY <1>3 DEF AnswersAwaited
<1>5. QED
  BY <1>2, <1>4 DEF ClientInv

\* send_packet adds a packet to the last window.
LEMMA SendPacketKeeps ==
  ASSUME NEW c \in Client, NEW gone \in SUBSET Nat, ClientInv(c, gone)
  PROVE  /\ SendPacket(c) \in Client /\ ClientInv(SendPacket(c), gone)
         /\ SendPacket(c).nextTx = c.nextTx + 1 /\ SendPacket(c).nextRx = c.nextRx
<1> DEFINE r == SendPacket(c)
           V == c.windows
           n == Len(V)
           w == [V[n] EXCEPT !.sent = @ \cup {c.nextTx}]
<1>1. V \in Seq(Window) /\ n \in Nat \ {0} /\ DOMAIN V = 1 .. n
      /\ \A k \in 1 .. n : V[k] \in Window
  BY LenProperties, ElementOfSeq DEF Client, ClientInv, WindowsTile
<1>2. w \in Window /\ w.sent = V[n].sent \cup {c.nextTx} /\ w.start = V[n].start
      /\ w.acked = V[n].acked /\ w.done = V[n].done
  <2>1. V[n] \in Window /\ c.nextTx \in Nat
    BY <1>1 DEF Client
  <2> HIDE DEF V, n
  <2>2. w \in Window
    BY <2>1 DEF Window
  <2>3. w.sent = V[n].sent \cup {c.nextTx} /\ w.start = V[n].start /\ w.acked = V[n].acked
    BY <2>1 DEF Window
  <2>4. w.done = V[n].done
    BY <2>1 DEF Window
  <2>5. QED
    BY <2>2, <2>3, <2>4
<1>3. /\ r \in Client
      /\ r.windows = [V EXCEPT ![n] = w]
      /\ r.nextTx = c.nextTx + 1 /\ r.nextRx = c.nextRx /\ r.inFlight = c.inFlight + 1
      /\ r.exited = c.exited
  <2>1. [V EXCEPT ![n] = w] \in Seq(Window)
    BY <1>1, <1>2, ExceptSeq
  <2> DEFINE W == [V EXCEPT ![n] = w]
  <2>2. r = [c EXCEPT !.windows = W, !.inFlight = @ + 1, !.nextTx = @ + 1]
    BY DEF SendPacket, TxWindow, Client
  <2> HIDE DEF W, r
  <2>3. r \in Client
    <3>1. W \in Seq(Window) /\ c.inFlight + 1 \in Int /\ c.nextTx + 1 \in Nat
      BY <2>1 DEF Client, W
    <3>2. QED
      BY <2>2, <3>1, Zenon DEF Client
  <2>4. /\ r.windows = W /\ r.nextTx = c.nextTx + 1 /\ r.nextRx = c.nextRx
        /\ r.inFlight = c.inFlight + 1
    BY <2>2 DEF Client
  <2>5. r.exited = c.exited
    BY <2>2 DEF Client
  <2>6. QED
    BY <2>3, <2>4, <2>5 DEF W
<1>4. /\ Len(r.windows) = n
      /\ \A k \in 1 .. n : r.windows[k] = IF k = n THEN w ELSE V[k]
  <2>1. /\ Len([V EXCEPT ![n] = w]) = n
        /\ \A k \in 1 .. n : [V EXCEPT ![n] = w][k] = IF k = n THEN w ELSE V[k]
    BY <1>1, <1>2, ExceptSeq
  <2>2. QED
    BY <1>3, <2>1
<1>5. /\ c.nextTx \in Nat /\ c.nextRx \in Nat /\ c.inFlight = c.nextTx - c.nextRx
      /\ 0 < c.nextRx /\ c.nextRx <= V[n].start /\ V[n].start <= c.nextTx
      /\ \A k \in 1 .. n - 1 : V[k].start < c.nextRx
      /\ V[1].start = 1
      /\ \A k \in 1 .. n : V[k].start \in Nat /\ (V[k].done <=> k <= n - 2)
      /\ \A k \in 1 .. n : k < n =>
           /\ V[k].start < V[k + 1].start /\ V[k].acked # {}
           /\ V[k].sent = V[k].start .. V[k + 1].start - 1
      /\ V[n].sent = V[n].start .. c.nextTx - 1
  BY WindowFacts
<1> HIDE DEF r, V, n, w
<1>6. \A k \in 1 .. n : /\ r.windows[k].start = V[k].start /\ r.windows[k].done = V[k].done
                        /\ r.windows[k].acked = V[k].acked
                        /\ k < n => r.windows[k].sent = V[k].sent
  BY <1>2, <1>4
<1>7. n \in 1 .. n /\ (\A k \in 1 .. n : k < n => k + 1 \in 1 .. n) /\ \A k \in 1 .. n - 1 : k \in 1 .. n
  BY <1>1
<1>8. r.windows[n].sent = r.windows[n].start .. r.nextTx - 1
  <2>1. r.windows[n].sent = (V[n].start .. c.nextTx - 1) \cup {c.nextTx}
    BY <1>2, <1>4, <1>5, <1>7
  <2>2. V[n].start \in Nat /\ V[n].start <= c.nextTx
    BY <1>5, <1>7
  <2>3. r.windows[n].start = V[n].start /\ r.nextTx = c.nextTx + 1
    BY <1>3, <1>6, <1>7
  <2>4. QED
    BY <1>5, <2>1, <2>2, <2>3
<1>9. FateKnown(r, gone)
  <2> SUFFICES ASSUME NEW k \in 1 .. n
               PROVE  /\ r.windows[k].acked \subseteq r.windows[k].sent
                      /\ \A p \in r.windows[k].sent :
                           p < c.nextRx => p \in r.windows[k].acked \cup gone
    BY <1>3, <1>4 DEF FateKnown
  <2>1. /\ V[k].acked \subseteq V[k].sent
        /\ \A p \in V[k].sent : p < c.nextRx => p \in V[k].acked \cup gone
    BY DEF ClientInv, FateKnown, V, n
  <2>2. r.windows[k].sent \subseteq V[k].sent \cup {c.nextTx} /\ V[k].sent \subseteq r.windows[k].sent
    BY <1>2, <1>4
  <2>3. c.nextRx <= c.nextTx
    BY <1>5, <1>7
  <2>4. ~(c.nextTx < c.nextRx)
    BY <1>5, <2>3
  <2>5. QED
    BY <1>6, <2>1, <2>2, <2>4
<1>10. /\ \A k \in 1 .. n - 1 : r.windows[k].start < r.nextRx
       /\ 0 < r.nextRx /\ r.nextRx <= r.windows[n].start /\ r.windows[n].start <= r.nextTx
       /\ r.inFlight = r.nextTx - r.nextRx
  <2>1. r.windows[n].start = V[n].start /\ \A k \in 1 .. n - 1 : r.windows[k].start = V[k].start
    BY <1>6, <1>7
  <2>2. V[n].start \in Nat
    BY <1>5, <1>7
  <2>3. QED
    BY <1>3, <1>5, <2>1, <2>2
<1>11. \A k \in 1 .. n : k < n =>
         /\ r.windows[k].start < r.windows[k + 1].start /\ r.windows[k].acked # {}
         /\ r.windows[k].sent = r.windows[k].start .. r.windows[k + 1].start - 1
  BY <1>5, <1>6, <1>7
<1>12. r.windows[1].start = 1 /\ \A k \in 1 .. n : r.windows[k].done <=> k <= n - 2
  <2>1. 1 \in 1 .. n
    BY <1>1
  <2>2. \A k \in 1 .. n : r.windows[k].done = V[k].done
    BY <1>6
  <2>3. \A k \in 1 .. n : V[k].done <=> k <= n - 2
    BY <1>5
  <2>4. \A k \in 1 .. n : r.windows[k].done <=> k <= n - 2
    BY <2>2, <2>3, Zenon
  <2>5. QED
    BY <1>5, <1>6, <2>1, <2>4
<1>13. ~r.exited
  BY <1>3 DEF ClientInv
<1>14. ClientInv(r, gone)
  BY <1>1, <1>3, <1>4, <1>8, <1>9, <1>10, <1>11, <1>12, <1>13, WindowFactsSuffice
<1>15. QED
  BY <1>3, <1>14 DEF r

\* An answer is counted before anything is done with the windows.
LEMMA CountedRecord ==
  ASSUME NEW c \in Client, NEW seq \in Nat
  PROVE  /\ Counted(c, seq) \in Client
         /\ Counted(c, seq).windows = c.windows /\ Counted(c, seq).exited = c.exited
         /\ Counted(c, seq).nextTx = c.nextTx /\ Counted(c, seq).nextRx = seq + 1
         /\ Counted(c, seq).inFlight = c.inFlight - (1 + seq - c.nextRx)
<1> DEFINE f == c.inFlight - (1 + seq - c.nextRx)
           w == IF c.slowStart THEN c.cwnd + 2 ELSE c.cwnd
           r == [c EXCEPT !.inFlight = f, !.nextRx = seq + 1, !.cwnd = w]
<1>1. f \in Int /\ seq + 1 \in Nat /\ c.cwnd \in Nat /\ c.cwnd + 2 \in Nat
  BY DEF Client
<1>2. w \in Nat
  BY <1>1
<1>3. Counted(c, seq) = r
  BY DEF Counted, Client
<1> HIDE DEF f, w
<1>4. r \in Client
  BY <1>1, <1>2, Zenon DEF Client
<1>5. r.windows = c.windows /\ r.nextTx = c.nextTx /\ r.nextRx = seq + 1 /\ r.inFlight = f
  BY DEF Client
<1>6. r.exited = c.exited
  BY DEF Client
<1>7. QED
  BY <1>3, <1>4, <1>5, <1>6 DEF f

\* end_window of a window with an answer marks it as done and does not end the program.
LEMMA EndWindowRecord ==
  ASSUME NEW c \in Client, NEW k \in 1 .. Len(c.windows), NEW late \in BOOLEAN,
         c.windows[k].acked # {}
  PROVE  LET r == EndWindow(c, k, late) IN
         /\ r \in Client /\ Len(r.windows) = Len(c.windows)
         /\ \A j \in 1 .. Len(c.windows) :
              r.windows[j] = IF j = k THEN [c.windows[k] EXCEPT !.done = TRUE] ELSE c.windows[j]
         /\ r.nextTx = c.nextTx /\ r.nextRx = c.nextRx /\ r.inFlight = c.inFlight
         /\ r.exited = c.exited
<1> DEFINE V == c.windows
           w == [V[k] EXCEPT !.done = TRUE]
           W == [V EXCEPT ![k] = w]
           leave == c.slowStart /\ k > 1 /\ Lossy(V[k])
           end == c.endLoop \/ late
           size == IF leave THEN c.cwnd \div 2 ELSE c.cwnd
           slow == c.slowStart /\ ~leave
           r == [c EXCEPT !.windows = W, !.endLoop = end, !.cwnd = size, !.slowStart = slow]
<1>1. EndWindow(c, k, late) = r
  BY DEF EndWindow, Client
<1>2. V \in Seq(Window) /\ V[k] \in Window
  BY ElementOfSeq DEF Client
<1>3. w \in Window
  BY <1>2, Zenon DEF Window
<1>4. /\ W \in Seq(Window) /\ Len(W) = Len(V)
      /\ \A j \in 1 .. Len(V) : W[j] = IF j = k THEN w ELSE V[j]
  BY <1>2, <1>3, ExceptSeq
<1>5. size \in Nat
  <2>1. c.cwnd \in Nat /\ c.cwnd \div 2 \in Nat
    BY DEF Client
  <2>2. QED
    BY <2>1
<1>6. end \in BOOLEAN /\ slow \in BOOLEAN
  BY Zenon DEF Client
<1> HIDE DEF W, end, size, slow
<1>7. r \in Client
  BY <1>4, <1>5, <1>6, Zenon DEF Client
<1>8. r.windows = W /\ r.nextTx = c.nextTx /\ r.nextRx = c.nextRx /\ r.inFlight = c.inFlight
  BY DEF Client
<1>9. r.exited = c.exited
  BY DEF Client
<1> HIDE DEF r
<1>10. QED
  BY <1>1, <1>4, <1>7, <1>8, <1>9

\* A new window stands behind the others.
LEMMA StartNewWindowRecord ==
  ASSUME NEW c \in Client, NEW action \in Nat
  PROVE  LET r == StartNewWindow(c, action) IN
         /\ r \in Client /\ Len(r.windows) = Len(c.windows) + 1
         /\ \A j \in 1 .. Len(c.windows) : r.windows[j] = c.windows[j]
         /\ r.windows[Len(c.windows) + 1] = NewWindow(c.nextTx)
         /\ r.nextTx = c.nextTx /\ r.nextRx = c.nextRx /\ r.inFlight = c.inFlight
         /\ r.exited = c.exited
<1> DEFINE W == Append(c.windows, NewWindow(c.nextTx))
           size == IF c.slowStart THEN c.cwnd ELSE UpdateCwnd(c.cwnd, action)
           r == [c EXCEPT !.cwnd = size, !.windows = W]
<1>1. StartNewWindow(c, action) = r
  BY DEF StartNewWindow, Client
<1>2. c.windows \in Seq(Window) /\ NewWindow(c.nextTx) \in Window
  BY DEF Client, NewWindow, Window
<1>3. /\ W \in Seq(Window) /\ Len(W) = Len(c.windows) + 1
      /\ \A j \in 1 .. Len(c.windows) : W[j] = c.windows[j]
      /\ W[Len(c.windows) + 1] = NewWindow(c.nextTx)
  BY <1>2, AppendProperties
<1>4. size \in Nat
  <2>1. c.cwnd \in Nat /\ UpdateCwnd(c.cwnd, action) \in Nat
    BY UpdateCwndType DEF Client
  <2>2. QED
    BY <2>1
<1> HIDE DEF W, size
<1>5. r \in Client
  BY <1>3, <1>4, Zenon DEF Client
<1>6. r.windows = W /\ r.nextTx = c.nextTx /\ r.nextRx = c.nextRx /\ r.inFlight = c.inFlight
  BY DEF Client
<1>7. r.exited = c.exited
  BY DEF Client
<1> HIDE DEF r
<1>8. QED
  BY <1>1, <1>3, <1>5, <1>6, <1>7

\* An answer is credited to the last window but one, or to the only one.
LEMMA CreditRecord ==
  ASSUME NEW c \in Client, NEW seq \in Nat, Len(c.windows) > 0
  PROVE  LET r == Credit(c, seq)
             k == RxWindow(c) IN
         /\ k \in 1 .. Len(c.windows)
         /\ r \in Client /\ Len(r.windows) = Len(c.windows)
         /\ \A j \in 1 .. Len(c.windows) :
              r.windows[j] = IF j = k THEN [c.windows[k] EXCEPT !.acked = @ \cup {seq}]
                             ELSE c.windows[j]
         /\ r.nextTx = c.nextTx /\ r.nextRx = c.nextRx /\ r.inFlight = c.inFlight
         /\ r.exited = c.exited
<1> DEFINE V == c.windows
           k == RxWindow(c)
           w == [V[k] EXCEPT !.acked = @ \cup {seq}]
           W == [V EXCEPT ![k] = w]
           r == [c EXCEPT !.windows = W]
<1>1. Credit(c, seq) = r
  BY DEF Credit, Client
<1>2. V \in Seq(Window) /\ Len(V) \in Nat
  BY LenProperties DEF Client
<1>3. k \in 1 .. Len(V)
  BY <1>2 DEF RxWindow
<1>4. V[k] \in Window
  BY <1>2, <1>3, ElementOfSeq
<1>5. w \in Window
  <2>1. V[k].acked \cup {seq} \in SUBSET Nat
    BY <1>4 DEF Window
  <2> HIDE DEF V, k
  <2>2. QED
    BY <1>4, <2>1, Zenon DEF Window
<1>6. /\ W \in Seq(Window) /\ Len(W) = Len(V)
      /\ \A j \in 1 .. Len(V) : W[j] = IF j = k THEN w ELSE V[j]
  BY <1>2, <1>3, <1>5, ExceptSeq
<1> HIDE DEF W
<1>7. r \in Client
  BY <1>6, Zenon DEF Client
<1>8. r.windows = W /\ r.nextTx = c.nextTx /\ r.nextRx = c.nextRx /\ r.inFlight = c.inFlight
  BY DEF Client
<1>9. r.exited = c.exited
  BY DEF Client
<1> HIDE DEF r
<1>10. QED
  BY <1>1, <1>3, <1>6, <1>7, <1>8, <1>9

\* An answer to the window that is measured is credited to it (receive_ack, first branch).
LEMMA AnswerToMeasured ==
  ASSUME NEW c \in Client, NEW gone \in SUBSET Nat, ClientInv(c, gone),
         NEW action \in Nat, NEW late \in BOOLEAN,
         NEW seq \in c.nextRx .. c.nextTx - 1, \A p \in c.nextRx .. seq - 1 : p \in gone,
         seq < c.windows[Len(c.windows)].start
  PROVE  LET r == ReceiveAck(c, seq, action, late) IN
         /\ r \in Client /\ ClientInv(r, gone)
         /\ r.nextTx = c.nextTx /\ r.nextRx = seq + 1
<1> DEFINE V == c.windows
           n == Len(V)
           d == Counted(c, seq)
           r == Credit(d, seq)
<1>1. /\ n \in Nat \ {0} /\ n \in 1 .. n /\ 1 \in 1 .. n
      /\ V[1].start = 1
  BY WindowFacts
<1>2. \A k \in 1 .. n : /\ V[k] \in Window /\ V[k].start \in Nat
                        /\ V[k].sent \in SUBSET Nat /\ V[k].acked \in SUBSET V[k].sent
  BY WindowFacts
<1>3. /\ c.nextTx \in Nat /\ c.nextRx \in Nat /\ c.inFlight = c.nextTx - c.nextRx
      /\ 0 < c.nextRx /\ c.nextRx <= V[n].start /\ V[n].start <= c.nextTx
      /\ V[n].start \in Nat /\ V[n].sent = V[n].start .. c.nextTx - 1
  BY <1>1, <1>2, WindowFacts
<1>4. \A k \in 1 .. n - 1 : k \in 1 .. n /\ k + 1 \in 1 .. n /\ V[k].start < c.nextRx
  BY <1>1, WindowFacts
<1>5. \A k \in 1 .. n : V[k].done <=> k <= n - 2
  BY WindowFacts
<1>6. \A k \in 1 .. n : k < n =>
        /\ k + 1 \in 1 .. n /\ V[k].start < V[k + 1].start /\ V[k].acked # {}
        /\ V[k].sent = V[k].start .. V[k + 1].start - 1
  <2>1. \A k \in 1 .. n : k < n =>
          /\ V[k].start < V[k + 1].start /\ V[k].acked # {}
          /\ V[k].sent = V[k].start .. V[k + 1].start - 1
    BY WindowFacts
  <2>2. QED
    BY <1>1, <2>1
<1>7. seq \in Nat /\ c.nextRx <= seq /\ seq < c.nextTx
  BY <1>3
<1>8. n > 1 /\ n - 1 \in 1 .. n - 1 /\ n - 1 \in 1 .. n
  BY <1>1, <1>3, <1>7
<1>9. /\ d \in Client /\ d.windows = V /\ d.exited = c.exited
      /\ d.nextTx = c.nextTx /\ d.nextRx = seq + 1
      /\ d.inFlight = c.inFlight - (1 + seq - c.nextRx)
  BY <1>7, CountedRecord
<1>10. ReceiveAck(c, seq, action, late) = r
  BY <1>9 DEF ReceiveAck, TxWindow
<1> HIDE DEF d
<1>11. RxWindow(d) = n - 1
  BY <1>8, <1>9 DEF RxWindow
<1>12. /\ r \in Client /\ Len(r.windows) = n
       /\ \A k \in 1 .. n :
            r.windows[k] = IF k = n - 1 THEN [V[n - 1] EXCEPT !.acked = @ \cup {seq}] ELSE V[k]
       /\ r.nextTx = c.nextTx /\ r.nextRx = seq + 1 /\ r.exited = c.exited
       /\ r.inFlight = c.inFlight - (1 + seq - c.nextRx)
  <2>1. Len(d.windows) > 0
    BY <1>1, <1>9
  <2>2. /\ r \in Client /\ Len(r.windows) = Len(d.windows)
        /\ \A k \in 1 .. Len(d.windows) :
             r.windows[k] = IF k = RxWindow(d)
                            THEN [d.windows[RxWindow(d)] EXCEPT !.acked = @ \cup {seq}]
                            ELSE d.windows[k]
        /\ r.nextTx = d.nextTx /\ r.nextRx = d.nextRx /\ r.inFlight = d.inFlight
        /\ r.exited = d.exited
    BY <1>7, <1>9, <2>1, CreditRecord
  <2>3. QED
    BY <1>9, <1>11, <2>2
<1> HIDE DEF r, V, n
<1>13. r.windows[n - 1].acked = V[n - 1].acked \cup {seq}
  BY <1>2, <1>8, <1>12 DEF Window
<1>14. \A k \in 1 .. n : r.windows[k].start = V[k].start /\ r.windows[k].sent = V[k].sent
  <2>1. r.windows[n - 1].start = V[n - 1].start /\ r.windows[n - 1].sent = V[n - 1].sent
    BY <1>2, <1>8, <1>12 DEF Window
  <2>2. QED
    BY <1>12, <2>1
<1>15. \A k \in 1 .. n : r.windows[k].done <=> k <= n - 2
  <2>1. r.windows[n - 1].done = V[n - 1].done
    BY <1>2, <1>8, <1>12 DEF Window
  <2>2. \A k \in 1 .. n : r.windows[k].done = V[k].done
    BY <1>12, <2>1
  <2>3. QED
    BY <1>5, <2>2, Zenon
<1>16. \A k \in 1 .. n : k # n - 1 => r.windows[k].acked = V[k].acked
  BY <1>12
<1>17. \A k \in 1 .. n : V[k].acked \subseteq r.windows[k].acked
                         /\ r.windows[k].acked \subseteq V[k].acked \cup {seq}
  BY <1>13, <1>16
<1>18. seq \in V[n - 1].sent
  <2>1. V[n - 1].start < c.nextRx
    BY <1>4, <1>8
  <2>2. V[n - 1].start \in Nat
    BY <1>2, <1>8
  <2>0. n - 1 < n /\ (n - 1) + 1 = n
    BY <1>1
  <2>3. V[n - 1].sent = V[n - 1].start .. V[n].start - 1
    BY <1>6, <1>8, <2>0
  <2>4. seq < V[n].start
    BY DEF V, n
  <2>5. QED
    BY <1>3, <1>7, <2>1, <2>2, <2>3, <2>4
<1>19. FateKnown(r, gone)
  <2> SUFFICES ASSUME NEW k \in 1 .. n
               PROVE  /\ r.windows[k].acked \subseteq r.windows[k].sent
                      /\ \A p \in r.windows[k].sent :
                           p < seq + 1 => p \in r.windows[k].acked \cup gone
    BY <1>12 DEF FateKnown
  <2>1. /\ V[k].acked \subseteq V[k].sent
        /\ \A p \in V[k].sent : p < c.nextRx => p \in V[k].acked \cup gone
    BY DEF ClientInv, FateKnown, V, n
  <2>2. r.windows[k].acked \subseteq r.windows[k].sent
    BY <1>13, <1>14, <1>16, <1>18, <2>1
  <2>3. ASSUME NEW p \in V[k].sent, p < seq + 1 PROVE p \in r.windows[k].acked \cup gone
    <3>1. p \in Nat
      BY <1>2
    <3>2. CASE p < c.nextRx
      BY <1>17, <2>1, <3>2
    <3>3. CASE p = seq
      <4>1. CASE k = n - 1
        BY <1>13, <3>3, <4>1
      <4>2. CASE k = n
        <5>1. V[n].start <= p
          BY <1>3, <3>1, <4>2
        <5>2. seq < V[n].start
          BY DEF V, n
        <5>3. QED
          BY <1>3, <1>7, <3>3, <5>1, <5>2
      <4>3. CASE k < n - 1
        <5>1. k < n /\ k + 1 \in 1 .. n - 1
          BY <1>1, <4>3
        <5>2. V[k].sent = V[k].start .. V[k + 1].start - 1
          BY <1>6, <5>1
        <5>3. V[k + 1].start < c.nextRx /\ V[k + 1].start \in Nat /\ V[k].start \in Nat
          BY <1>2, <1>4, <5>1
        <5>4. p < V[k + 1].start
          BY <3>1, <5>2, <5>3
        <5>5. QED
          BY <1>3, <1>7, <3>1, <3>3, <5>3, <5>4
      <4>4. QED
        BY <1>1, <4>1, <4>2, <4>3
    <3>4. CASE c.nextRx <= p /\ p < seq
      BY <1>3, <1>7, <3>1, <3>4
    <3>5. QED
      BY <1>3, <1>7, <2>3, <3>1, <3>2, <3>3, <3>4
  <2>4. QED
    BY <1>14, <2>2, <2>3
<1>20. /\ r.inFlight = r.nextTx - r.nextRx /\ ~r.exited
       /\ 0 < r.nextRx /\ r.nextRx <= r.windows[n].start /\ r.windows[n].start <= r.nextTx
  <2>1. seq < V[n].start /\ ~c.exited
    BY DEF V, n, ClientInv
  <2>2. r.windows[n].start = V[n].start
    BY <1>1, <1>14
  <2>3. /\ r.nextTx = c.nextTx /\ r.nextRx = seq + 1 /\ r.exited = c.exited
        /\ r.inFlight = c.inFlight - (1 + seq - c.nextRx)
    BY <1>12
  <2>4. QED
    BY <1>3, <1>7, <2>1, <2>2, <2>3
<1>21. ASSUME NEW k \in 1 .. n - 1 PROVE r.windows[k].start < r.nextRx
  <2>1. V[k].start < c.nextRx /\ V[k].start \in Nat /\ r.windows[k].start = V[k].start
    BY <1>2, <1>4, <1>14
  <2>2. r.nextRx = seq + 1
    BY <1>12
  <2>3. QED
    BY <1>3, <1>7, <2>1, <2>2
<1>22. ASSUME NEW k \in 1 .. n, k < n
       PROVE  /\ r.windows[k].start < r.windows[k + 1].start /\ r.windows[k].acked # {}
              /\ r.windows[k].sent = r.windows[k].start .. r.windows[k + 1].start - 1
  BY <1>6, <1>14, <1>17, <1>22
<1>23. r.windows[1].start = 1 /\ r.windows[n].sent = r.windows[n].start .. r.nextTx - 1
  BY <1>1, <1>3, <1>12, <1>14
<1>24. ClientInv(r, gone)
  BY <1>1, <1>12, <1>15, <1>19, <1>20, <1>21, <1>22, <1>23, WindowFactsSuffice
<1>25. QED
  BY <1>10, <1>12, <1>24 DEF r

\* The first answer to the window that sends ends the one before it and starts a new one
\* (receive_ack, second branch).
LEMMA AnswerToSending ==
  ASSUME NEW c \in Client, NEW gone \in SUBSET Nat, ClientInv(c, gone),
         NEW action \in Nat, NEW late \in BOOLEAN,
         NEW seq \in c.nextRx .. c.nextTx - 1, \A p \in c.nextRx .. seq - 1 : p \in gone,
         ~(seq < c.windows[Len(c.windows)].start)
  PROVE  LET r == ReceiveAck(c, seq, action, late) IN
         /\ r \in Client /\ ClientInv(r, gone)
         /\ r.nextTx = c.nextTx /\ r.nextRx = seq + 1
<1> DEFINE V == c.windows
           n == Len(V)
           d == Counted(c, seq)
           e == IF n > 1 THEN EndWindow(d, n - 1, late) ELSE d
           f == StartNewWindow(e, action)
           r == Credit(f, seq)
<1>1. /\ n \in Nat \ {0} /\ n \in 1 .. n /\ 1 \in 1 .. n
      /\ V[1].start = 1
  BY WindowFacts
<1>2. \A k \in 1 .. n : /\ V[k] \in Window /\ V[k].start \in Nat
                        /\ V[k].sent \in SUBSET Nat /\ V[k].acked \in SUBSET V[k].sent
  BY WindowFacts
<1>3. /\ c.nextTx \in Nat /\ c.nextRx \in Nat /\ c.inFlight = c.nextTx - c.nextRx
      /\ 0 < c.nextRx /\ c.nextRx <= V[n].start /\ V[n].start <= c.nextTx
      /\ V[n].start \in Nat /\ V[n].sent = V[n].start .. c.nextTx - 1
  BY <1>1, <1>2, WindowFacts
<1>4. \A k \in 1 .. n - 1 : k \in 1 .. n /\ k + 1 \in 1 .. n /\ V[k].start < c.nextRx
  BY <1>1, WindowFacts
<1>5. \A k \in 1 .. n : V[k].done <=> k <= n - 2
  BY WindowFacts
<1>6. \A k \in 1 .. n : k < n =>
        /\ k + 1 \in 1 .. n /\ V[k].start < V[k + 1].start /\ V[k].acked # {}
        /\ V[k].sent = V[k].start .. V[k + 1].start - 1
  <2>1. \A k \in 1 .. n : k < n =>
          /\ V[k].start < V[k + 1].start /\ V[k].acked # {}
          /\ V[k].sent = V[k].start .. V[k + 1].start - 1
    BY WindowFacts
  <2>2. QED
    BY <1>1, <2>1
<1>7. seq \in Nat /\ c.nextRx <= seq /\ seq < c.nextTx
  BY <1>3
<1>8. ~(seq < V[n].start) /\ ~c.exited
  BY DEF ClientInv
<1>9. /\ d \in Client /\ d.windows = V /\ d.exited = c.exited
      /\ d.nextTx = c.nextTx /\ d.nextRx = seq + 1
      /\ d.inFlight = c.inFlight - (1 + seq - c.nextRx)
      /\ Len(d.windows) = n
  BY <1>7, CountedRecord
<1>10. /\ e \in Client /\ Len(e.windows) = n
       /\ \A k \in 1 .. n :
            e.windows[k] = IF k = n - 1 THEN [V[k] EXCEPT !.done = TRUE] ELSE V[k]
       /\ e.nextTx = c.nextTx /\ e.nextRx = seq + 1 /\ e.exited = c.exited
       /\ e.inFlight = c.inFlight - (1 + seq - c.nextRx)
  <2>1. CASE n > 1
    <3>1. n - 1 \in 1 .. n /\ n - 1 < n
      BY <1>1, <2>1
    <3>2. V[n - 1].acked # {}
      BY <1>6, <3>1
    <3>3. e = EndWindow(d, n - 1, late)
      BY <2>1
    <3> HIDE DEF d, e, V, n
    <3>0. n - 1 \in 1 .. Len(d.windows) /\ d.windows[n - 1].acked # {}
      BY <1>9, <3>1, <3>2
    <3>4. d \in Client
      BY <1>9
    <3>5. /\ e \in Client /\ Len(e.windows) = Len(d.windows)
          /\ \A k \in 1 .. Len(d.windows) :
               e.windows[k] = IF k = n - 1 THEN [d.windows[n - 1] EXCEPT !.done = TRUE]
                              ELSE d.windows[k]
          /\ e.nextTx = d.nextTx /\ e.nextRx = d.nextRx /\ e.inFlight = d.inFlight
          /\ e.exited = d.exited
      BY <3>0, <3>3, <3>4, EndWindowRecord
    <3>6. QED
      BY <1>9, <3>5
  <2>2. CASE ~(n > 1)
    <3>1. e = d
      BY <2>2
    <3> HIDE DEF d, e, V, n
    <3>2. \A k \in 1 .. n : k # n - 1
      BY <1>1, <2>2
    <3>3. QED
      BY <1>9, <3>1, <3>2
  <2>3. QED
    BY <2>1, <2>2
<1>11. ReceiveAck(c, seq, action, late) = r
  <2>1. TxWindow(d) = n
    BY <1>9 DEF TxWindow
  <2>2. RxWindow(d) = IF n > 1 THEN n - 1 ELSE 1
    BY <1>9 DEF RxWindow
  <2>3. n > 1 => ~V[n - 1].done
    <3>1. n > 1 => n - 1 \in 1 .. n /\ ~(n - 1 <= n - 2)
      BY <1>1
    <3>2. QED
      BY <1>5, <3>1
  <2>4. e = IF RxWindow(d) # TxWindow(d) /\ ~d.windows[RxWindow(d)].done
            THEN EndWindow(d, RxWindow(d), late) ELSE d
    <3>1. CASE n > 1
      <4>1. RxWindow(d) = n - 1 /\ n - 1 # n
        BY <1>1, <2>2, <3>1
      <4>2. QED
        BY <1>9, <2>1, <2>3, <3>1, <4>1
    <3>2. CASE ~(n > 1)
      <4>1. RxWindow(d) = TxWindow(d)
        BY <1>1, <2>1, <2>2, <3>2
      <4>2. QED
        BY <3>2, <4>1
    <3>3. QED
      BY <3>1, <3>2
  <2>5. ~e.exited
    BY <1>8, <1>10
  <2> HIDE DEF e
  <2>6. QED
    BY <1>8, <1>9, <2>1, <2>4, <2>5 DEF ReceiveAck
<1> HIDE DEF d, e
<1>12. /\ f \in Client /\ Len(f.windows) = n + 1
       /\ \A k \in 1 .. n : f.windows[k] = e.windows[k]
       /\ f.windows[n + 1] = NewWindow(c.nextTx)
       /\ f.nextTx = c.nextTx /\ f.nextRx = seq + 1 /\ f.exited = c.exited
       /\ f.inFlight = c.inFlight - (1 + seq - c.nextRx)
  <2> HIDE DEF n, V
  <2>1. /\ f \in Client /\ Len(f.windows) = Len(e.windows) + 1
        /\ \A j \in 1 .. Len(e.windows) : f.windows[j] = e.windows[j]
        /\ f.windows[Len(e.windows) + 1] = NewWindow(e.nextTx)
        /\ f.nextTx = e.nextTx /\ f.nextRx = e.nextRx /\ f.inFlight = e.inFlight
        /\ f.exited = e.exited
    <3>1. e \in Client
      BY <1>10
    <3>2. QED
      BY <3>1, StartNewWindowRecord
  <2> HIDE DEF f
  <2>2. QED
    BY <1>10, <2>1
<1> HIDE DEF f
<1>13. RxWindow(f) = n /\ n + 1 > 0
  BY <1>1, <1>12 DEF RxWindow
<1>14. /\ r \in Client /\ Len(r.windows) = n + 1
       /\ \A k \in 1 .. n + 1 :
            r.windows[k] = IF k = n THEN [f.windows[n] EXCEPT !.acked = @ \cup {seq}]
                           ELSE f.windows[k]
       /\ r.nextTx = c.nextTx /\ r.nextRx = seq + 1 /\ r.exited = c.exited
       /\ r.inFlight = c.inFlight - (1 + seq - c.nextRx)
  <2>1. /\ r \in Client /\ Len(r.windows) = Len(f.windows)
        /\ \A k \in 1 .. Len(f.windows) :
             r.windows[k] = IF k = RxWindow(f)
                            THEN [f.windows[RxWindow(f)] EXCEPT !.acked = @ \cup {seq}]
                            ELSE f.windows[k]
        /\ r.nextTx = f.nextTx /\ r.nextRx = f.nextRx /\ r.inFlight = f.inFlight
        /\ r.exited = f.exited
    BY <1>7, <1>12, <1>13, CreditRecord
  <2>2. QED
    BY <1>12, <1>13, <2>1
<1> HIDE DEF r, V, n
<1>15. r.windows[n + 1] = NewWindow(c.nextTx)
  <2>1. n + 1 \in 1 .. n + 1 /\ n + 1 # n
    BY <1>1
  <2>2. r.windows[n + 1] = f.windows[n + 1]
    BY <1>14, <2>1
  <2>3. QED
    BY <1>12, <2>2
<1>16. r.windows[n] = [V[n] EXCEPT !.acked = @ \cup {seq}]
  <2>1. n # n - 1 /\ n # n + 1 /\ n \in 1 .. n + 1
    BY <1>1
  <2>2. e.windows[n] = V[n]
    BY <1>1, <1>10, <2>1
  <2>3. QED
    BY <1>1, <1>12, <1>14, <2>1, <2>2
<1>17. \A k \in 1 .. n - 1 :
         r.windows[k] = IF k = n - 1 THEN [V[k] EXCEPT !.done = TRUE] ELSE V[k]
  <2> SUFFICES ASSUME NEW k \in 1 .. n - 1
               PROVE  r.windows[k] = IF k = n - 1 THEN [V[k] EXCEPT !.done = TRUE] ELSE V[k]
    OBVIOUS
  <2>1. k \in 1 .. n /\ k \in 1 .. n + 1 /\ k # n
    BY <1>1
  <2>2. QED
    BY <1>10, <1>12, <1>14, <2>1
<1>18. /\ r.windows[n + 1].start = c.nextTx /\ r.windows[n + 1].sent = {}
       /\ r.windows[n + 1].acked = {} /\ r.windows[n + 1].done = FALSE
  BY <1>15 DEF NewWindow
<1>19. r.windows[n].acked = V[n].acked \cup {seq}
  BY <1>1, <1>2, <1>16 DEF Window
<1>20. \A k \in 1 .. n : k = n \/ k \in 1 .. n - 1
  BY <1>1
<1>21. \A k \in 1 .. n - 1 : r.windows[k].acked = V[k].acked /\ r.windows[k].start = V[k].start
                             /\ r.windows[k].sent = V[k].sent
  <2> SUFFICES ASSUME NEW k \in 1 .. n - 1
               PROVE  /\ r.windows[k].acked = V[k].acked /\ r.windows[k].start = V[k].start
                      /\ r.windows[k].sent = V[k].sent
    OBVIOUS
  <2>1. V[k] \in Window
    BY <1>2, <1>4
  <2>2. QED
    BY <1>17, <2>1 DEF Window
<1>22. r.windows[n].start = V[n].start /\ r.windows[n].sent = V[n].sent
  BY <1>1, <1>2, <1>16 DEF Window
<1>23. \A k \in 1 .. n : r.windows[k].start = V[k].start /\ r.windows[k].sent = V[k].sent
  BY <1>20, <1>21, <1>22
<1>24. \A k \in 1 .. n + 1 : r.windows[k].done <=> k <= (n + 1) - 2
  <2> SUFFICES ASSUME NEW k \in 1 .. n + 1
               PROVE  r.windows[k].done <=> k <= (n + 1) - 2
    OBVIOUS
  <2>1. CASE k = n + 1
    <3>1. ~(k <= (n + 1) - 2)
      BY <1>1, <2>1
    <3>2. QED
      BY <1>18, <2>1, <3>1
  <2>2. CASE k = n
    <3>1. ~(n <= (n + 1) - 2) /\ ~(n <= n - 2)
      BY <1>1
    <3>2. r.windows[n].done = V[n].done
      BY <1>1, <1>2, <1>16 DEF Window
    <3>3. ~V[n].done
      BY <1>1, <1>5, <3>1
    <3>4. QED
      BY <2>2, <3>1, <3>2, <3>3
  <2>3. CASE k = n - 1
    <3>1. k \in 1 .. n - 1 /\ k \in 1 .. n /\ k <= (n + 1) - 2
      BY <1>1, <2>3
    <3>2. r.windows[k] = [V[k] EXCEPT !.done = TRUE] /\ V[k] \in Window
      BY <1>2, <1>17, <2>3, <3>1
    <3>3. r.windows[k].done
      BY <3>2 DEF Window
    <3>4. QED
      BY <3>1, <3>3
  <2>4. CASE k < n - 1
    <3>1. k \in 1 .. n - 1 /\ k \in 1 .. n /\ k # n - 1 /\ k <= n - 2 /\ k <= (n + 1) - 2
      BY <1>1, <2>4
    <3>2. r.windows[k] = V[k] /\ V[k].done
      BY <1>5, <1>17, <3>1
    <3>3. QED
      BY <3>1, <3>2
  <2>5. QED
    BY <1>1, <2>1, <2>2, <2>3, <2>4
<1>25. \A k \in 1 .. n - 1 : V[k + 1].start <= seq /\ V[k + 1].start \in Nat
  <2> SUFFICES ASSUME NEW k \in 1 .. n - 1
               PROVE  V[k + 1].start <= seq /\ V[k + 1].start \in Nat
    OBVIOUS
  <2>1. k + 1 \in 1 .. n /\ V[k + 1].start \in Nat
    BY <1>2, <1>4
  <2>2. CASE k + 1 = n
    BY <1>3, <1>7, <1>8, <2>1, <2>2
  <2>3. CASE k + 1 \in 1 .. n - 1
    <3>1. V[k + 1].start < c.nextRx
      BY <1>4, <2>3
    <3>2. QED
      BY <1>3, <1>7, <2>1, <3>1
  <2>4. QED
    BY <1>20, <2>1, <2>2, <2>3
<1>26. FateKnown(r, gone)
  <2> SUFFICES ASSUME NEW k \in 1 .. n + 1
               PROVE  /\ r.windows[k].acked \subseteq r.windows[k].sent
                      /\ \A p \in r.windows[k].sent :
                           p < seq + 1 => p \in r.windows[k].acked \cup gone
    BY <1>14 DEF FateKnown
  <2>1. CASE k = n + 1
    BY <1>18, <2>1
  <2>2. CASE k \in 1 .. n
    <3>1. /\ V[k].acked \subseteq V[k].sent
          /\ \A p \in V[k].sent : p < c.nextRx => p \in V[k].acked \cup gone
      BY <2>2 DEF ClientInv, FateKnown, V, n
    <3>2. seq \in V[n].sent
      BY <1>3, <1>7, <1>8
    <3>3. V[k].acked \subseteq r.windows[k].acked
      BY <1>19, <1>20, <1>21, <2>2
    <3>4. r.windows[k].acked \subseteq V[k].sent
      BY <1>19, <1>20, <1>21, <2>2, <3>1, <3>2
    <3>5. ASSUME NEW p \in V[k].sent, p < seq + 1 PROVE p \in r.windows[k].acked \cup gone
      <4>1. p \in Nat
        BY <1>2, <2>2
      <4>2. CASE p < c.nextRx
        BY <3>1, <3>3, <4>2
      <4>3. CASE p = seq
        <5>1. CASE k = n
          BY <1>19, <4>3, <5>1
        <5>2. CASE k \in 1 .. n - 1
          <6>1. V[k].sent = V[k].start .. V[k + 1].start - 1 /\ V[k].start \in Nat
            <7>1. k < n
              BY <1>1, <5>2
            <7>2. QED
              BY <1>2, <1>6, <2>2, <7>1
          <6>2. V[k + 1].start <= seq /\ V[k + 1].start \in Nat
            BY <1>25, <5>2
          <6>3. QED
            BY <1>7, <4>1, <4>3, <6>1, <6>2
        <5>3. QED
          BY <1>20, <2>2, <5>1, <5>2
      <4>4. CASE c.nextRx <= p /\ p < seq
        BY <1>3, <1>7, <4>1, <4>4
      <4>5. QED
        BY <1>3, <1>7, <3>5, <4>1, <4>2, <4>3, <4>4
    <3>6. QED
      BY <1>23, <2>2, <3>4, <3>5
  <2>3. QED
    BY <1>1, <2>1, <2>2
<1>27. \A k \in 1 .. (n + 1) - 1 : r.windows[k].start < r.nextRx
  <2> SUFFICES ASSUME NEW k \in 1 .. (n + 1) - 1 PROVE r.windows[k].start < r.nextRx
    OBVIOUS
  <2>0. k \in 1 .. n
    BY <1>1
  <2>1. k \in 1 .. n /\ r.windows[k].start = V[k].start /\ V[k].start \in Nat
    BY <1>2, <1>23, <2>0
  <2>2. r.nextRx = seq + 1
    BY <1>14
  <2>3. CASE k = n
    BY <1>3, <1>7, <1>8, <2>1, <2>2, <2>3
  <2>4. CASE k \in 1 .. n - 1
    <3>1. V[k].start < c.nextRx
      BY <1>4, <2>4
    <3>2. QED
      BY <1>3, <1>7, <2>1, <2>2, <3>1
  <2>5. QED
    BY <1>20, <2>1, <2>3, <2>4
<1>28. ASSUME NEW k \in 1 .. n + 1, k < n + 1
       PROVE  /\ r.windows[k].start < r.windows[k + 1].start /\ r.windows[k].acked # {}
              /\ r.windows[k].sent = r.windows[k].start .. r.windows[k + 1].start - 1
  <2>1. k \in 1 .. n
    BY <1>1, <1>28
  <2>2. CASE k = n
    <3>1. r.windows[n].start < r.windows[n + 1].start
      BY <1>3, <1>7, <1>8, <1>18, <1>22
    <3>2. QED
      BY <1>3, <1>18, <1>19, <1>22, <2>2, <3>1
  <2>3. CASE k \in 1 .. n - 1
    <3>1. k < n /\ k + 1 \in 1 .. n
      BY <1>1, <2>3
    <3>2. /\ V[k].start < V[k + 1].start /\ V[k].acked # {}
          /\ V[k].sent = V[k].start .. V[k + 1].start - 1
      BY <1>6, <2>1, <3>1
    <3>3. QED
      BY <1>21, <1>23, <2>3, <3>1, <3>2
  <2>4. QED
    BY <1>20, <2>1, <2>2, <2>3
<1>29. /\ r.inFlight = r.nextTx - r.nextRx /\ ~r.exited /\ 0 < r.nextRx
       /\ r.nextRx <= r.windows[n + 1].start /\ r.windows[n + 1].start <= r.nextTx
       /\ r.windows[n + 1].sent = r.windows[n + 1].start .. r.nextTx - 1
  <2>1. /\ r.nextTx = c.nextTx /\ r.nextRx = seq + 1 /\ r.exited = c.exited
        /\ r.inFlight = c.inFlight - (1 + seq - c.nextRx)
    BY <1>14
  <2>2. c.nextTx .. c.nextTx - 1 = {}
    BY <1>3
  <2>3. QED
    BY <1>3, <1>7, <1>8, <1>18, <2>1, <2>2
<1>30. r.windows[1].start = 1 /\ n + 1 \in Nat \ {0}
  BY <1>1, <1>23
<1>31. ClientInv(r, gone)
  BY <1>14, <1>24, <1>26, <1>27, <1>28, <1>29, <1>30, WindowFactsSuffice
<1>32. QED
  BY <1>11, <1>14, <1>31 DEF r

\* receive_ack keeps the bookkeeping in order, whatever the agent does.
LEMMA ReceiveAckKeeps ==
  ASSUME NEW c \in Client, NEW gone \in SUBSET Nat, ClientInv(c, gone),
         NEW action \in Nat, NEW late \in BOOLEAN,
         NEW seq \in c.nextRx .. c.nextTx - 1, \A p \in c.nextRx .. seq - 1 : p \in gone
  PROVE  LET r == ReceiveAck(c, seq, action, late) IN
         /\ r \in Client /\ ClientInv(r, gone)
         /\ r.nextTx = c.nextTx /\ r.nextRx = seq + 1
BY AnswerToMeasured, AnswerToSending

----------------------------------------------------------------------------
(* The wire.                                                               *)

\* The oldest answer tells the fate of the packets before its own.
LEMMA WireTake ==
  ASSUME NEW net \in Seq(Nat), NEW buf \in Seq(Nat), NEW gone \in SUBSET Nat,
         NEW first \in Nat, NEW beyond \in Nat, WireIs(net, buf, gone, first, beyond), buf # <<>>
  PROVE  /\ Head(buf) \in first .. beyond - 1
         /\ \A p \in first .. Head(buf) - 1 : p \in gone
         /\ WireIs(net, Tail(buf), gone, Head(buf) + 1, beyond)
<1> DEFINE seq == Head(buf)
           B == ToSet(buf)
           N == ToSet(net)
<1>1. /\ seq \in B /\ Increasing(Tail(buf))
      /\ ToSet(Tail(buf)) = B \ {seq}
      /\ \A p \in B : seq <= p
  BY IncreasingTail DEF WireIs
<1>2. /\ Increasing(net) /\ \A p \in B, q \in N : p < q
      /\ B \cup N \cup {p \in gone : p >= first} = first .. beyond - 1
      /\ \A p \in gone : p \notin B \cup N /\ p < beyond
  BY DEF WireIs
<1> HIDE DEF seq, B, N
<1>3. seq \in first .. beyond - 1
  BY <1>1, <1>2
<1>4. \A p \in first .. beyond - 1 : p < seq => p \in gone
  <2> SUFFICES ASSUME NEW p \in first .. beyond - 1, p < seq PROVE p \in gone
    OBVIOUS
  <2>1. p \notin B /\ p \notin N
    BY <1>1, <1>2, <1>3
  <2>2. QED
    BY <1>2, <2>1
<1>5. (B \ {seq}) \cup N \cup {p \in gone : p >= seq + 1} = seq + 1 .. beyond - 1
  <2>1. ASSUME NEW p \in (B \ {seq}) \cup N PROVE p \in seq + 1 .. beyond - 1
    <3>1. p \in first .. beyond - 1 /\ p >= seq /\ p # seq
      BY <1>1, <1>2, <1>3
    <3>2. QED
      BY <1>3, <3>1
  <2>2. ASSUME NEW p \in gone, p >= seq + 1 PROVE p \in seq + 1 .. beyond - 1
    BY <1>2, <1>3, <2>2
  <2>3. ASSUME NEW p \in seq + 1 .. beyond - 1
        PROVE  p \in (B \ {seq}) \cup N \cup {q \in gone : q >= seq + 1}
    <3>1. p \in first .. beyond - 1 /\ p # seq /\ p >= seq + 1
      BY <1>3
    <3>2. QED
      BY <1>2, <3>1
  <2>4. QED
    BY <2>1, <2>2, <2>3
<1>6. \A p \in first .. seq - 1 : p \in gone
  BY <1>3, <1>4
<1>7. WireIs(net, Tail(buf), gone, seq + 1, beyond)
  BY <1>1, <1>2, <1>5 DEF WireIs, B, N
<1>8. QED
  BY <1>3, <1>6, <1>7 DEF seq

\* A packet sent has the next number.
LEMMA WireSend ==
  ASSUME NEW net \in Seq(Nat), NEW buf \in Seq(Nat), NEW gone \in SUBSET Nat,
         NEW first \in Nat, NEW beyond \in Nat, WireIs(net, buf, gone, first, beyond), first <= beyond
  PROVE  Append(net, beyond) \in Seq(Nat) /\ WireIs(Append(net, beyond), buf, gone, first, beyond + 1)
<1> DEFINE B == ToSet(buf)
           N == ToSet(net)
<1>1. /\ Increasing(net) /\ Increasing(buf)
      /\ \A p \in B, q \in N : p < q
      /\ B \cup N \cup {p \in gone : p >= first} = first .. beyond - 1
      /\ \A p \in gone : p \notin B \cup N /\ p < beyond
  BY DEF WireIs
<1>2. (\A p \in N : p < beyond) /\ (\A p \in B : p < beyond)
  <2> HIDE DEF B, N
  <2> QED
    BY <1>1
<1>3. /\ Append(net, beyond) \in Seq(Nat) /\ Increasing(Append(net, beyond))
      /\ ToSet(Append(net, beyond)) = N \cup {beyond}
  BY <1>1, <1>2, IncreasingAppend
<1> HIDE DEF B, N
<1>4. B \cup (N \cup {beyond}) \cup {p \in gone : p >= first} = first .. (beyond + 1) - 1
  <2>1. first .. (beyond + 1) - 1 = (first .. beyond - 1) \cup {beyond}
    OBVIOUS
  <2>2. QED
    BY <1>1, <2>1
<1>5. \A p \in gone : p \notin B \cup (N \cup {beyond}) /\ p < beyond + 1
  BY <1>1
<1>6. \A p \in B, q \in N \cup {beyond} : p < q
  BY <1>1, <1>2
<1>7. QED
  BY <1>1, <1>3, <1>4, <1>5, <1>6 DEF WireIs, B, N

\* The oldest packet is answered behind all answers.
LEMMA WireDeliver ==
  ASSUME NEW net \in Seq(Nat), NEW buf \in Seq(Nat), NEW gone \in SUBSET Nat,
         NEW first \in Nat, NEW beyond \in Nat, WireIs(net, buf, gone, first, beyond), net # <<>>
  PROVE  /\ Tail(net) \in Seq(Nat) /\ Append(buf, Head(net)) \in Seq(Nat)
         /\ WireIs(Tail(net), Append(buf, Head(net)), gone, first, beyond)
<1> DEFINE h == Head(net)
           B == ToSet(buf)
           N == ToSet(net)
<1>1. /\ Increasing(net) /\ Increasing(buf)
      /\ \A p \in B, q \in N : p < q
      /\ B \cup N \cup {p \in gone : p >= first} = first .. beyond - 1
      /\ \A p \in gone : p \notin B \cup N /\ p < beyond
  BY DEF WireIs
<1>2. /\ h \in N /\ Tail(net) \in Seq(Nat) /\ Increasing(Tail(net))
      /\ ToSet(Tail(net)) = N \ {h}
      /\ \A p \in N : h <= p
  BY <1>1, IncreasingTail
<1>3. N \subseteq first .. beyond - 1 /\ h \in Nat
  BY <1>1, <1>2
<1>4. /\ Append(buf, h) \in Seq(Nat) /\ Increasing(Append(buf, h))
      /\ ToSet(Append(buf, h)) = B \cup {h}
  BY <1>1, <1>2, <1>3, IncreasingAppend
<1> HIDE DEF h, B, N
<1>5. \A p \in B \cup {h}, q \in N \ {h} : p < q
  BY <1>1, <1>2, <1>3
<1>6. (B \cup {h}) \cup (N \ {h}) = B \cup N
  BY <1>2
<1>7. QED
  BY <1>1, <1>2, <1>4, <1>5, <1>6 DEF WireIs, h, B, N

\* A lost packet leaves the wire.
LEMMA WireLose ==
  ASSUME NEW net \in Seq(Nat), NEW buf \in Seq(Nat), NEW gone \in SUBSET Nat,
         NEW first \in Nat, NEW beyond \in Nat, WireIs(net, buf, gone, first, beyond),
         NEW k \in DOMAIN net
  PROVE  /\ RemoveAt(net, k) \in Seq(Nat) /\ gone \cup {net[k]} \in SUBSET Nat
         /\ WireIs(RemoveAt(net, k), buf, gone \cup {net[k]}, first, beyond)
<1> DEFINE h == net[k]
           B == ToSet(buf)
           N == ToSet(net)
<1>1. /\ Increasing(net) /\ Increasing(buf)
      /\ \A p \in B, q \in N : p < q
      /\ B \cup N \cup {p \in gone : p >= first} = first .. beyond - 1
      /\ \A p \in gone : p \notin B \cup N /\ p < beyond
  BY DEF WireIs
<1>2. /\ h \in N /\ RemoveAt(net, k) \in Seq(Nat) /\ Increasing(RemoveAt(net, k))
      /\ ToSet(RemoveAt(net, k)) = N \ {h}
  BY <1>1, IncreasingRemoveAt
<1> HIDE DEF h, B, N
<1>3. B \cup N \subseteq first .. beyond - 1 /\ h \in first .. beyond - 1
  BY <1>1, <1>2
<1>4. h \in Nat /\ h >= first /\ h < beyond /\ h \notin B
  <2>1. h \in Nat /\ h >= first /\ h < beyond
    BY <1>3
  <2>2. h \notin B
    BY <1>1, <1>2, <2>1
  <2>3. QED
    BY <2>1, <2>2
<1>5. B \cup (N \ {h}) \cup {p \in gone \cup {h} : p >= first} = first .. beyond - 1
  BY <1>1, <1>2, <1>4
<1>6. \A p \in gone \cup {h} : p \notin B \cup (N \ {h}) /\ p < beyond
  BY <1>1, <1>4
<1>7. gone \cup {h} \in SUBSET Nat
  BY <1>4
<1>8. QED
  BY <1>1, <1>2, <1>5, <1>6, <1>7 DEF WireIs, h, B, N

\* What is under way and what is gone behind the last answer adds up to what is in flight.
LEMMA WireCount ==
  ASSUME NEW net \in Seq(Nat), NEW buf \in Seq(Nat), NEW gone \in SUBSET Nat,
         NEW first \in Nat, NEW beyond \in Nat, WireIs(net, buf, gone, first, beyond), first <= beyond
  PROVE  beyond - first = Len(net) + Len(buf) + Cardinality({p \in gone : p >= first})
<1> DEFINE B == ToSet(buf)
           N == ToSet(net)
           G == {p \in gone : p >= first}
<1>1. /\ Increasing(net) /\ Increasing(buf)
      /\ \A p \in B, q \in N : p < q
      /\ B \cup N \cup G = first .. beyond - 1
      /\ \A p \in gone : p \notin B \cup N /\ p < beyond
  BY DEF WireIs
<1>2. /\ IsFiniteSet(B) /\ Cardinality(B) = Len(buf) /\ Len(buf) \in Nat
      /\ IsFiniteSet(N) /\ Cardinality(N) = Len(net) /\ Len(net) \in Nat
  BY <1>1, IncreasingCardinality
<1>3. IsFiniteSet(first .. beyond - 1) /\ Cardinality(first .. beyond - 1) = beyond - first
  <2>1. /\ IsFiniteSet(first .. beyond - 1)
        /\ Cardinality(first .. beyond - 1) =
             IF first > beyond - 1 THEN 0 ELSE (beyond - 1) - first + 1
    BY FS_Interval
  <2>2. QED
    BY <2>1
<1> HIDE DEF B, N
<1>4. G \in SUBSET (first .. beyond - 1) /\ G \cap (B \cup N) = {}
  BY <1>1
<1>5. B \cap N = {}
  <2>1. \A p \in B : p \in Nat
    BY <1>1
  <2>2. QED
    BY <1>1, <2>1
<1>6. IsFiniteSet(G) /\ Cardinality(G) \in Nat
  BY <1>3, <1>4, FS_Subset, FS_CardinalityType
<1> HIDE DEF G
<1>7. IsFiniteSet(B \cup N) /\ Cardinality(B \cup N) = Len(buf) + Len(net)
  <2>1. /\ IsFiniteSet(B \cup N)
        /\ Cardinality(B \cup N) = Cardinality(B) + Cardinality(N) - Cardinality(B \cap N)
    BY <1>2, FS_Union
  <2>2. Cardinality(B \cap N) = 0
    BY <1>5, FS_EmptySet
  <2>3. QED
    BY <1>2, <2>1, <2>2
<1>8. Cardinality((B \cup N) \cup G) = Cardinality(B \cup N) + Cardinality(G) - Cardinality((B \cup N) \cap G)
  BY <1>6, <1>7, FS_Union
<1>9. Cardinality((B \cup N) \cap G) = 0
  <2>1. (B \cup N) \cap G = {}
    BY <1>4
  <2>2. QED
    BY <2>1, FS_EmptySet
<1>10. (B \cup N) \cup G = first .. beyond - 1
  BY <1>1
<1>11. beyond - first = Len(net) + Len(buf) + Cardinality(G)
  <2>1. Cardinality((B \cup N) \cup G) = beyond - first
    BY <1>3, <1>10
  <2>2. Cardinality(B \cup N) = Len(buf) + Len(net) /\ Len(buf) \in Nat /\ Len(net) \in Nat
    BY <1>2, <1>7
  <2>3. Cardinality(G) \in Nat
    BY <1>6
  <2>4. QED
    BY <1>8, <1>9, <2>1, <2>2, <2>3
<1>12. QED
  BY <1>11 DEF G

----------------------------------------------------------------------------
(* The invariant.                                                          *)

\* What a client knows stays true when another packet is gone.
LEMMA GoneGrows ==
  ASSUME NEW c, NEW gone, NEW more, gone \subseteq more, ClientInv(c, gone)
  PROVE  ClientInv(c, more)
BY DEF ClientInv, FateKnown

\* The program starts with one packet sent in the first window.
LEMMA InitHolds ==
  ASSUME Init
  PROVE  SourceInv
<1>1. /\ Fresh \in Client /\ Fresh.windows = <<NewWindow(1)>> /\ Fresh.cwnd = 2
      /\ Fresh.nextTx = 1 /\ Fresh.nextRx = 1 /\ Fresh.inFlight = 0 /\ Fresh.exited = FALSE
  <2>1. NewWindow(1) \in Window
    BY DEF NewWindow, Window
  <2>2. <<NewWindow(1)>> \in Seq(Window)
    BY <2>1
  <2> HIDE DEF NewWindow
  <2>3. QED
    BY <2>2 DEF Fresh, Client
<1>2. /\ Len(Fresh.windows) = 1 /\ Fresh.windows[1] = NewWindow(1)
  BY <1>1
<1>3. /\ NewWindow(1).start = 1 /\ NewWindow(1).sent = {} /\ NewWindow(1).acked = {}
      /\ NewWindow(1).done = FALSE
  BY DEF NewWindow
<1>4. FateKnown(Fresh, {})
  BY <1>2, <1>3 DEF FateKnown
<1>5. \A k \in 1 .. 1 : Fresh.windows[k].done <=> k <= 1 - 2
  BY <1>2, <1>3
<1>6. Fresh.windows[1].sent = Fresh.windows[1].start .. Fresh.nextTx - 1
  <2>1. 1 .. 1 - 1 = {}
    OBVIOUS
  <2>2. QED
    BY <1>1, <1>2, <1>3, <2>1
<1>7. ClientInv(Fresh, {})
  <2>1. \A k \in 1 .. 1 : ~(k < 1)
    OBVIOUS
  <2>2. \A k \in 1 .. 1 - 1 : Fresh.windows[k].start < Fresh.nextRx
    OBVIOUS
  <2>3. /\ Fresh \in Client /\ Len(Fresh.windows) = 1 /\ Fresh.windows[1].start = 1
        /\ Fresh.inFlight = Fresh.nextTx - Fresh.nextRx /\ ~Fresh.exited
        /\ 0 < Fresh.nextRx /\ Fresh.nextRx <= Fresh.windows[1].start
        /\ Fresh.windows[1].start <= Fresh.nextTx
    BY <1>1, <1>2, <1>3
  <2>4. {} \in SUBSET Nat /\ 1 \in Nat \ {0}
    OBVIOUS
  <2> HIDE DEF Fresh
  <2>5. QED
    BY <1>4, <1>5, <1>6, <2>1, <2>2, <2>3, <2>4, WindowFactsSuffice
<1>8. /\ client \in Client /\ ClientInv(client, lost)
      /\ client.nextTx = 2 /\ client.nextRx = 1
  BY <1>1, <1>7, SendPacketKeeps DEF Init
<1>9. client.cwnd = 2 /\ client.inFlight = 1
  <2>1. client.cwnd = 2
    BY <1>1 DEF Init, SendPacket, Client
  <2>2. QED
    BY <1>8, <2>1 DEF ClientInv, AnswersAwaited
<1>10. WireInv
  <2>1. network = <<1>> /\ buffer = <<>> /\ lost = {}
    BY DEF Init
  <2>2. ToSet(<<1>>) = {1} /\ ToSet(<<>>) = {} /\ Increasing(<<1>>) /\ Increasing(<<>>)
    BY DEF ToSet, Increasing
  <2>3. WireIs(<<1>>, <<>>, {}, 1, 2)
    BY <2>2 DEF WireIs
  <2>4. QED
    BY <1>8, <2>1, <2>3 DEF WireInv
<1>11. TypeOK
  BY <1>8 DEF TypeOK, Init
<1>12. BlocksWhenFull /\ client.nextTx <= MaxSeq
  BY <1>8, <1>9, SourceAssumption DEF BlocksWhenFull, MaySend
<1>13. QED
  BY <1>8, <1>10, <1>11, <1>12 DEF SourceInv

\* What an answer, taken out of the buffer, does to a client in order.
LEMMA TakeAnswer ==
  ASSUME SourceInv, buffer # <<>>, NEW action \in Actions, NEW late \in BOOLEAN
  PROVE  LET r == ReceiveAck(client, Head(buffer), action, late) IN
         /\ r \in Client /\ ClientInv(r, lost) /\ ~r.exited /\ r.nextTx = client.nextTx
         /\ Tail(buffer) \in Seq(Nat)
         /\ WireIs(network, Tail(buffer), lost, r.nextRx, r.nextTx)
<1>1. /\ client \in Client /\ network \in Seq(Nat) /\ buffer \in Seq(Nat) /\ lost \in SUBSET Nat
      /\ ClientInv(client, lost)
      /\ WireIs(network, buffer, lost, client.nextRx, client.nextTx)
  BY DEF SourceInv, TypeOK, WireInv
<1>2. client.nextRx \in Nat /\ client.nextTx \in Nat /\ action \in Nat
  BY <1>1, SourceAssumption DEF Client
<1>3. /\ Head(buffer) \in client.nextRx .. client.nextTx - 1
      /\ \A p \in client.nextRx .. Head(buffer) - 1 : p \in lost
      /\ WireIs(network, Tail(buffer), lost, Head(buffer) + 1, client.nextTx)
  BY <1>1, <1>2, WireTake
<1> DEFINE r == ReceiveAck(client, Head(buffer), action, late)
<1>4. /\ r \in Client /\ ClientInv(r, lost)
      /\ r.nextTx = client.nextTx /\ r.nextRx = Head(buffer) + 1
  BY <1>1, <1>2, <1>3, ReceiveAckKeeps
<1>5. Tail(buffer) \in Seq(Nat)
  BY <1>1, HeadTailProperties
<1>6. ~r.exited
  BY <1>4 DEF ClientInv
<1> HIDE DEF r
<1>7. QED
  BY <1>3, <1>4, <1>5, <1>6 DEF r

\* Sending a packet after that, or without an answer.
LEMMA SendKeeps ==
  ASSUME NEW c \in Client, ClientInv(c, lost), lost \in SUBSET Nat, network \in Seq(Nat),
         NEW buf \in Seq(Nat), WireIs(network, buf, lost, c.nextRx, c.nextTx), c.nextTx < MaxSeq,
         SendAfter(c), buffer' = buf, lost' = lost
  PROVE  SourceInv'
<1>1. ~c.exited /\ c.nextRx <= c.nextTx /\ c.nextRx \in Nat /\ c.nextTx \in Nat
  BY DEF ClientInv, AnswersAwaited, Client
<1>2. client' = SendPacket(c) /\ network' = Append(network, c.nextTx) /\ pc' = "fill"
  BY <1>1 DEF SendAfter
<1>3. /\ client' \in Client /\ ClientInv(client', lost')
      /\ client'.nextTx = c.nextTx + 1 /\ client'.nextRx = c.nextRx
  BY <1>2, SendPacketKeeps
<1>4. network' \in Seq(Nat) /\ WireIs(network', buf, lost, c.nextRx, c.nextTx + 1)
  BY <1>1, <1>2, WireSend
<1>5. WireIs(network', buffer', lost', client'.nextRx, client'.nextTx)
  BY <1>3, <1>4
<1>6. client'.nextTx <= MaxSeq
  BY <1>1, <1>3, SourceAssumption
<1>7. TypeOK'
  BY <1>2, <1>3, <1>4 DEF TypeOK
<1>8. BlocksWhenFull'
  BY <1>2 DEF BlocksWhenFull
<1>9. QED
  BY <1>3, <1>5, <1>6, <1>7, <1>8 DEF SourceInv, WireInv

\* The bookkeeping is exact in every state that is reached.
THEOREM SourceCorrect == Spec => []SourceInv
<1>1. Init => SourceInv
  BY InitHolds
<1>2. SourceInv /\ [Next]_vars => SourceInv'
  <2> SUFFICES ASSUME SourceInv, [Next]_vars PROVE SourceInv'
    OBVIOUS
  <2>1. /\ client \in Client /\ network \in Seq(Nat) /\ buffer \in Seq(Nat) /\ lost \in SUBSET Nat
        /\ ClientInv(client, lost)
        /\ WireIs(network, buffer, lost, client.nextRx, client.nextTx)
        /\ client.nextTx <= MaxSeq /\ client.nextRx \in Nat /\ client.nextTx \in Nat
    BY DEF SourceInv, TypeOK, WireInv, Client
  <2>2. CASE Receive
    <3>1. buffer # <<>> /\ buffer' = Tail(buffer) /\ UNCHANGED <<network, lost>>
      BY <2>2 DEF Receive
    <3>2. PICK action \in Actions, late \in BOOLEAN :
            client' = ReceiveAck(client, Head(buffer), action, late)
      BY <2>2 DEF Receive
    <3>3. /\ client' \in Client /\ ClientInv(client', lost) /\ ~client'.exited
          /\ client'.nextTx = client.nextTx /\ Tail(buffer) \in Seq(Nat)
          /\ WireIs(network, Tail(buffer), lost, client'.nextRx, client'.nextTx)
      BY <3>1, <3>2, TakeAnswer
    <3>4. pc' = "fill"
      BY <2>2, <3>3 DEF Receive
    <3>5. TypeOK'
      BY <2>1, <3>1, <3>3, <3>4 DEF TypeOK
    <3>6. WireInv'
      BY <3>1, <3>3 DEF WireInv
    <3>7. QED
      BY <2>1, <3>1, <3>3, <3>4, <3>5, <3>6 DEF SourceInv, BlocksWhenFull
  <2>3. CASE Fill
    <3>1. client.nextTx < MaxSeq /\ lost' = lost
      BY <2>3 DEF Fill, MaySend
    <3>2. CASE buffer = <<>>
      <4>1. SendAfter(client) /\ buffer' = buffer
        BY <2>3, <3>2 DEF Fill
      <4>2. QED
        BY <2>1, <3>1, <4>1, SendKeeps
    <3>3. CASE buffer # <<>>
      <4>1. PICK action \in Actions, late \in BOOLEAN :
              SendAfter(ReceiveAck(client, Head(buffer), action, late))
        BY <2>3, <3>3 DEF Fill
      <4>2. buffer' = Tail(buffer)
        BY <2>3, <3>3 DEF Fill
      <4> DEFINE r == ReceiveAck(client, Head(buffer), action, late)
      <4>3. /\ r \in Client /\ ClientInv(r, lost) /\ r.nextTx = client.nextTx
            /\ Tail(buffer) \in Seq(Nat)
            /\ WireIs(network, Tail(buffer), lost, r.nextRx, r.nextTx)
        BY <3>3, TakeAnswer
      <4>4. SendAfter(r)
        BY <4>1
      <4> HIDE DEF r
      <4>5. QED
        BY <2>1, <3>1, <4>2, <4>3, <4>4, SendKeeps
    <3>4. QED
      BY <3>2, <3>3
  <2>4. CASE FillEnds
    <3>1. /\ ~MaySend /\ pc' \in {"ended", "receive"}
          /\ client' = client /\ network' = network /\ buffer' = buffer /\ lost' = lost
      BY <2>4 DEF FillEnds
    <3>2. BlocksWhenFull'
      BY <3>1 DEF BlocksWhenFull, MaySend
    <3>3. QED
      BY <2>1, <3>1, <3>2 DEF SourceInv, TypeOK, WireInv
  <2>5. CASE Deliver
    <3>1. /\ network # <<>> /\ buffer' = Append(buffer, Head(network)) /\ network' = Tail(network)
          /\ pc' = pc /\ client' = client /\ lost' = lost
      BY <2>5 DEF Deliver
    <3>2. /\ network' \in Seq(Nat) /\ buffer' \in Seq(Nat)
          /\ WireIs(network', buffer', lost, client.nextRx, client.nextTx)
      BY <2>1, <3>1, WireDeliver
    <3>3. TypeOK' /\ BlocksWhenFull'
      BY <2>1, <3>1, <3>2 DEF SourceInv, TypeOK, BlocksWhenFull, MaySend
    <3>4. QED
      BY <2>1, <3>1, <3>2, <3>3 DEF SourceInv, WireInv
  <2>6. CASE Lose
    <3>1. pc' = pc /\ client' = client /\ buffer' = buffer
      BY <2>6 DEF Lose
    <3>2. PICK k \in DOMAIN network :
            lost' = lost \cup {network[k]} /\ network' = RemoveAt(network, k)
      BY <2>6 DEF Lose
    <3>3. /\ network' \in Seq(Nat) /\ lost' \in SUBSET Nat
          /\ WireIs(network', buffer, lost', client.nextRx, client.nextTx)
      BY <2>1, <3>2, WireLose
    <3>4. ClientInv(client, lost')
      BY <2>1, <3>2, GoneGrows
    <3>5. TypeOK' /\ BlocksWhenFull'
      BY <2>1, <3>1, <3>3 DEF SourceInv, TypeOK, BlocksWhenFull, MaySend
    <3>6. QED
      BY <2>1, <3>1, <3>3, <3>4, <3>5 DEF SourceInv, WireInv
  <2>7. CASE UNCHANGED vars
    BY <2>7 DEF vars, SourceInv, TypeOK, WireInv, BlocksWhenFull, MaySend
  <2>8. QED
    BY <2>2, <2>3, <2>4, <2>5, <2>6, <2>7 DEF Next
<1>3. QED
  BY <1>1, <1>2, PTL DEF Spec

----------------------------------------------------------------------------
(* The properties.                                                         *)

\* packets_in_flight is always what is under way and what was lost behind the last answer
\* (source.py: receive_ack, send_packet).
THEOREM InFlightIsExactHolds == Spec => []InFlightIsExact
<1>1. SourceInv => InFlightIsExact
  <2> SUFFICES ASSUME SourceInv PROVE InFlightIsExact
    OBVIOUS
  <2>1. /\ network \in Seq(Nat) /\ buffer \in Seq(Nat) /\ lost \in SUBSET Nat
        /\ client.nextRx \in Nat /\ client.nextTx \in Nat
        /\ WireIs(network, buffer, lost, client.nextRx, client.nextTx)
        /\ client.nextRx <= client.nextTx /\ client.inFlight = client.nextTx - client.nextRx
    BY DEF SourceInv, TypeOK, Client, WireInv, ClientInv, AnswersAwaited
  <2>2. client.nextTx - client.nextRx =
          Len(network) + Len(buffer) + Cardinality({p \in lost : p >= client.nextRx})
    <3> DEFINE first == client.nextRx
               beyond == client.nextTx
    <3>1. /\ network \in Seq(Nat) /\ buffer \in Seq(Nat) /\ lost \in SUBSET Nat
          /\ first \in Nat /\ beyond \in Nat /\ first <= beyond
          /\ WireIs(network, buffer, lost, first, beyond)
      BY <2>1
    <3> HIDE DEF first, beyond
    <3>2. beyond - first = Len(network) + Len(buffer) + Cardinality({p \in lost : p >= first})
      BY <3>1, WireCount
    <3>3. QED
      BY <3>2 DEF first, beyond
  <2>3. QED
    BY <2>1, <2>2 DEF InFlightIsExact, Underway
<1>2. QED
  BY <1>1, SourceCorrect, PTL

\* Windows are credited with the answers to their own packets, have a known fate when their
\* loss rate is computed, and end in order with something to measure (source.py: receive_ack,
\* end_window, start_new_window).
THEOREM WindowsAreExactHolds == Spec => []WindowsAreExact
<1>1. SourceInv => WindowsAreExact
  <2> SUFFICES ASSUME SourceInv PROVE WindowsAreExact
    OBVIOUS
  <2> DEFINE V == client.windows
             n == Len(V)
  <2>1. client \in Client /\ ClientInv(client, lost) /\ lost \in SUBSET Nat
    BY DEF SourceInv, TypeOK
  <2>2. DOMAIN V = 1 .. n
    BY <2>1, LenProperties DEF Client
  <2>3. /\ n \in Nat \ {0}
        /\ \A k \in 1 .. n : /\ V[k].start \in Nat /\ V[k].acked \in SUBSET V[k].sent
                             /\ V[k].sent \in SUBSET Nat
        /\ client.nextRx \in Nat
    BY <2>1, WindowFacts
  <2>4. \A k \in 1 .. n - 1 : V[k].start < client.nextRx
    BY <2>1, WindowFacts
  <2>5. \A k \in 1 .. n : V[k].done <=> k <= n - 2
    BY <2>1, WindowFacts
  <2>6. \A k \in 1 .. n : k < n =>
          /\ V[k].start < V[k + 1].start /\ V[k].acked # {}
          /\ V[k].sent = V[k].start .. V[k + 1].start - 1
    BY <2>1, WindowFacts
  <2>7. \A k \in 1 .. n : \A p \in V[k].sent : p < client.nextRx => p \in V[k].acked \cup lost
    BY <2>1 DEF ClientInv, FateKnown
  <2>8. ~client.exited
    BY <2>1 DEF ClientInv
  <2> HIDE DEF V, n
  <2>9. \A k \in 1 .. n : V[k].done => k <= n - 2 /\ k < n /\ k + 1 \in 1 .. n - 1 /\ k + 1 \in 1 .. n
    BY <2>3, <2>5
  <2>10. \A k \in 1 .. n : V[k].done => V[k].sent \ V[k].acked \subseteq lost
    <3> SUFFICES ASSUME NEW k \in 1 .. n, V[k].done, NEW p \in V[k].sent, p \notin V[k].acked
                 PROVE  p \in lost
      OBVIOUS
    <3>1. k < n /\ k + 1 \in 1 .. n - 1 /\ k + 1 \in 1 .. n
      BY <2>9
    <3>2. V[k].sent = V[k].start .. V[k + 1].start - 1
      BY <2>6, <3>1
    <3>3. V[k + 1].start < client.nextRx /\ V[k + 1].start \in Nat /\ V[k].start \in Nat
      BY <2>3, <2>4, <3>1
    <3>4. p < client.nextRx
      BY <2>3, <3>2, <3>3
    <3>5. QED
      BY <2>7, <3>4
  <2>11. \A k \in 1 .. n : V[k].done => V[k].sent # {} /\ V[k].acked # {}
    BY <2>3, <2>6, <2>9
  <2>12. \A j, k \in 1 .. n : j < k /\ V[k].done => V[j].done
    <3> SUFFICES ASSUME NEW j \in 1 .. n, NEW k \in 1 .. n, j < k, V[k].done PROVE V[j].done
      OBVIOUS
    <3>1. j <= n - 2
      BY <2>3, <2>9
    <3>2. QED
      BY <2>5, <3>1
  <2>13. CreditedToSender
    BY <2>2, <2>3 DEF CreditedToSender, V
  <2>14. LossRateIsExact
    BY <2>2, <2>10 DEF LossRateIsExact, V
  <2>15. EndedWindowsAreMeasured
    BY <2>2, <2>8, <2>11 DEF EndedWindowsAreMeasured, V
  <2>16. LastWindowDone
    BY <2>2, <2>12 DEF LastWindowDone, V
  <2>17. QED
    BY <2>13, <2>14, <2>15, <2>16 DEF WindowsAreExact
<1>2. QED
  BY <1>1, SourceCorrect, PTL

\* The source waits for an answer that cannot come only behind the last packet or when as many
\* packets were lost as its window has (source.py: loop, which blocks without a timeout).
THEOREM StallsOnlyOnLostWindowHolds == Spec => []StallsOnlyOnLostWindow
<1>1. SourceInv /\ InFlightIsExact => StallsOnlyOnLostWindow
  <2> SUFFICES ASSUME SourceInv, InFlightIsExact, pc = "receive", Underway = 0
               PROVE  \/ client.nextTx = MaxSeq
                      \/ 2 * Cardinality({p \in lost : p >= client.nextRx}) >= client.cwnd
    BY DEF StallsOnlyOnLostWindow
  <2> DEFINE g == Cardinality({p \in lost : p >= client.nextRx})
  <2>1. /\ client.nextTx \in Nat /\ client.inFlight \in Int /\ client.cwnd \in Nat
        /\ client.nextTx <= MaxSeq /\ MaxSeq \in Nat
    BY SourceAssumption DEF SourceInv, TypeOK, Client
  <2>2. ~(client.nextTx < MaxSeq) \/ ~(2 * client.inFlight < client.cwnd)
    BY DEF SourceInv, BlocksWhenFull, MaySend
  <2>3. client.inFlight = 0 + g
    BY DEF InFlightIsExact
  <2> HIDE DEF g
  <2>4. g \in Int => client.inFlight = g
    BY <2>3
  <2>5. g \in Int
    <3>1. lost \in SUBSET Nat /\ \A p \in lost : p < client.nextTx
      BY DEF SourceInv, TypeOK, WireInv, WireIs
    <3>2. IsFiniteSet(lost)
      BY <2>1, <3>1, FS_BoundedSetOfNaturals
    <3>3. IsFiniteSet({p \in lost : p >= client.nextRx})
      BY <3>2, FS_Subset
    <3>4. QED
      BY <3>3, FS_CardinalityType DEF g
  <2>6. QED
    BY <2>1, <2>2, <2>4, <2>5 DEF g
<1>2. QED
  BY <1>1, SourceCorrect, InFlightIsExactHolds, PTL

----------------------------------------------------------------------------
(* CodedChain: the loop that deletes from the list it walks.               *)

\* One pass of the loop, and the passes one after the other.
Pass(s, ready) ==
  IF s.pos > Len(s.left) THEN s
  ELSE IF s.left[s.pos] \in ready
  THEN [left |-> RemoveAt(s.left, s.pos), pos |-> s.pos + 1,
        out |-> Append(s.out, s.left[s.pos])]
  ELSE [s EXCEPT !.pos = @ + 1]

Begin(list) == [left |-> list, pos |-> 1, out |-> <<>>]

ArePasses(g, n, list, ready) ==
  g = [k \in 0 .. n |-> IF k = 0 THEN Begin(list) ELSE Pass(g[k - 1], ready)]

\* There are as many passes as one asks for.
LEMMA PassesExist ==
  ASSUME NEW list, NEW ready, NEW n \in Nat
  PROVE  \E g : ArePasses(g, n, list, ready)
<1> DEFINE Missing == {k \in Nat : ~ \E g : ArePasses(g, k, list, ready)}
<1> SUFFICES ASSUME Missing # {} PROVE FALSE
  OBVIOUS
<1>1. PICK m \in Missing : \A k \in Missing : m <= k
  BY NatsHaveLeast
<1>2. m # 0
  <2>1. ArePasses([k \in 0 .. 0 |-> Begin(list)], 0, list, ready)
    BY DEF ArePasses
  <2>2. QED
    BY <2>1
<1>3. m - 1 \in Nat /\ m - 1 \notin Missing
  BY <1>1, <1>2
<1>4. PICK g : ArePasses(g, m - 1, list, ready)
  BY <1>3
<1> DEFINE h == [k \in 0 .. m |-> IF k = m THEN Pass(g[m - 1], ready) ELSE g[k]]
<1>5. \A k \in 0 .. m - 1 : h[k] = g[k] /\ g[k] = IF k = 0 THEN Begin(list) ELSE Pass(g[k - 1], ready)
  BY <1>1, <1>3, <1>4 DEF ArePasses
<1>6. \A k \in 0 .. m : h[k] = IF k = 0 THEN Begin(list) ELSE Pass(h[k - 1], ready)
  <2>1. h[m] = Pass(h[m - 1], ready)
    BY <1>1, <1>2, <1>3
  <2>2. \A k \in 0 .. m - 1 : k = 0 \/ k - 1 \in 0 .. m - 1
    BY <1>1, <1>3
  <2>3. \A k \in 0 .. m : k = m \/ k \in 0 .. m - 1
    BY <1>1, <1>3
  <2> HIDE DEF h
  <2>4. QED
    BY <1>2, <1>5, <2>1, <2>2, <2>3
<1>7. h = [k \in 0 .. m |-> IF k = 0 THEN Begin(list) ELSE Pass(h[k - 1], ready)]
  <2>1. h = [k \in 0 .. m |-> h[k]]
    OBVIOUS
  <2> HIDE DEF h
  <2>2. QED
    BY <1>6, <2>1, Zenon
<1>8. ArePasses(h, m, list, ready)
  BY <1>7 DEF ArePasses
<1>9. QED
  BY <1>1, <1>8

LEMMA SweepIsPasses ==
  ASSUME NEW list, Len(list) \in Nat, NEW ready
  PROVE  \E g : ArePasses(g, Len(list), list, ready) /\ Sweep(list, ready) = g[Len(list)]
<1> DEFINE g == CHOOSE f : ArePasses(f, Len(list), list, ready)
<1>1. ArePasses(g, Len(list), list, ready)
  BY PassesExist
<1>2. Sweep(list, ready) = g[Len(list)]
  BY DEF Sweep, ArePasses, Begin, Pass
<1>3. QED
  BY <1>1, <1>2

Distinct(s) == \A i, j \in DOMAIN s : s[i] = s[j] => i = j

\* Deleting an element at its position, and adding a new one at the end.
LEMMA DeleteDistinct ==
  ASSUME NEW T, NEW s \in Seq(T), NEW k \in 1 .. Len(s), Distinct(s)
  PROVE  /\ RemoveAt(s, k) \in Seq(T) /\ Len(RemoveAt(s, k)) = Len(s) - 1
         /\ Distinct(RemoveAt(s, k))
         /\ ToSet(RemoveAt(s, k)) = ToSet(s) \ {s[k]}
         /\ \A i \in 1 .. k - 1 : RemoveAt(s, k)[i] = s[i]
<1> DEFINE r == RemoveAt(s, k)
           From0(i) == IF i < k THEN i ELSE i + 1
<1>1. /\ Len(s) \in Nat /\ DOMAIN s = 1 .. Len(s)
      /\ r \in Seq(T) /\ Len(r) = Len(s) - 1
      /\ \A i \in 1 .. Len(s) - 1 : r[i] = IF i < k THEN s[i] ELSE s[i + 1]
  BY RemoveAtProperties, LenProperties
<1>2. DOMAIN r = 1 .. Len(s) - 1
  BY <1>1, LenProperties
<1> HIDE DEF r
<1>3. \A i \in DOMAIN r : From0(i) \in DOMAIN s /\ From0(i) # k /\ r[i] = s[From0(i)]
  BY <1>1, <1>2
<1>4. \A i, j \in DOMAIN r : From0(i) = From0(j) => i = j
  BY <1>2
<1>5. \A i \in DOMAIN s : i # k => \E j \in DOMAIN r : From0(j) = i
  <2> SUFFICES ASSUME NEW i \in DOMAIN s, i # k PROVE \E j \in DOMAIN r : From0(j) = i
    OBVIOUS
  <2>1. CASE i < k
    BY <1>1, <1>2, <2>1
  <2>2. CASE i > k
    <3>1. i - 1 \in DOMAIN r /\ From0(i - 1) = i
      BY <1>1, <1>2, <2>2
    <3>2. QED
      BY <3>1
  <2>3. QED
    BY <1>1, <2>1, <2>2
<1> HIDE DEF From0
<1>6. Distinct(r)
  BY <1>3, <1>4 DEF Distinct
<1>7. ToSet(r) = ToSet(s) \ {s[k]}
  <2>1. ASSUME NEW x \in ToSet(r) PROVE x \in ToSet(s) \ {s[k]}
    BY <1>1, <1>3 DEF Distinct, ToSet
  <2>2. ASSUME NEW x \in ToSet(s) \ {s[k]} PROVE x \in ToSet(r)
    <3>1. PICK i \in DOMAIN s : s[i] = x /\ i # k
      BY DEF ToSet
    <3>2. PICK j \in DOMAIN r : From0(j) = i
      BY <1>5, <3>1
    <3>3. QED
      BY <1>3, <3>1, <3>2 DEF ToSet
  <2>3. QED
    BY <2>1, <2>2
<1>8. \A i \in 1 .. k - 1 : r[i] = s[i]
  BY <1>1
<1>9. QED
  BY <1>1, <1>6, <1>7, <1>8 DEF r

LEMMA AppendDistinct ==
  ASSUME NEW T, NEW s \in Seq(T), NEW x \in T, Distinct(s), x \notin ToSet(s)
  PROVE  /\ Append(s, x) \in Seq(T) /\ Len(Append(s, x)) = Len(s) + 1
         /\ Distinct(Append(s, x))
         /\ ToSet(Append(s, x)) = ToSet(s) \cup {x}
<1> DEFINE r == Append(s, x)
<1>1. /\ Len(s) \in Nat /\ DOMAIN s = 1 .. Len(s)
      /\ r \in Seq(T) /\ Len(r) = Len(s) + 1
      /\ \A i \in 1 .. Len(s) : r[i] = s[i]
      /\ r[Len(s) + 1] = x
  BY AppendProperties, LenProperties
<1>2. DOMAIN r = 1 .. Len(s) + 1
  BY <1>1, LenProperties
<1> HIDE DEF r
<1>3. \A i \in DOMAIN r : i = Len(s) + 1 \/ (i \in DOMAIN s /\ r[i] = s[i])
  BY <1>1, <1>2
<1>4. DOMAIN s \subseteq DOMAIN r /\ Len(s) + 1 \in DOMAIN r
  BY <1>1, <1>2
<1>5. QED
  BY <1>1, <1>3, <1>4 DEF Distinct, ToSet, r

\* After k passes: what is left and what was sent make up the list; the elements that are ready
\* and were passed over are no more than those that were sent.
Passed(s, ready) == {s.left[i] : i \in {j \in DOMAIN s.left : j < s.pos}} \cap ready

PassInv(s, k, list, ready, T) ==
  /\ s.left \in Seq(T) /\ s.out \in Seq(T) /\ s.pos \in Nat \ {0}
  /\ s.pos = k + 1 \/ s.pos > Len(s.left)
  /\ Len(s.left) + Len(s.out) = Len(list)
  /\ Distinct(s.left) /\ Distinct(s.out)
  /\ ToSet(s.left) \cup ToSet(s.out) = ToSet(list)
  /\ ToSet(s.left) \cap ToSet(s.out) = {}
  /\ ToSet(s.out) \subseteq ready
  /\ IsFiniteSet(Passed(s, ready)) /\ Cardinality(Passed(s, ready)) <= Len(s.out)

LEMMA BeginInv ==
  ASSUME NEW T, NEW list \in Seq(T), NEW ready, Distinct(list)
  PROVE  PassInv(Begin(list), 0, list, ready, T)
<1> DEFINE s == Begin(list)
<1>1. s.left = list /\ s.out = <<>> /\ s.pos = 1
  BY DEF Begin
<1>2. ToSet(<<>>) = {} /\ Distinct(<<>>) /\ <<>> \in Seq(T) /\ Len(<<>>) = 0
  BY DEF ToSet, Distinct
<1>3. Passed(s, ready) = {}
  <2>1. DOMAIN list = 1 .. Len(list) /\ Len(list) \in Nat
    BY LenProperties
  <2>2. {j \in DOMAIN list : j < 1} = {}
    BY <2>1
  <2>3. QED
    BY <1>1, <2>2 DEF Passed
<1>4. Len(list) \in Nat
  BY LenProperties
<1> HIDE DEF s
<1>5. PassInv(s, 0, list, ready, T)
  BY <1>1, <1>2, <1>3, <1>4, FS_EmptySet DEF PassInv
<1>6. QED
  BY <1>5 DEF s

LEMMA PassKeepsInv ==
  ASSUME NEW T, NEW list \in Seq(T), NEW ready, NEW k \in Nat, NEW s, PassInv(s, k, list, ready, T)
  PROVE  PassInv(Pass(s, ready), k + 1, list, ready, T)
<1>1. Len(s.left) \in Nat /\ DOMAIN s.left = 1 .. Len(s.left) /\ Len(s.out) \in Nat
  BY LenProperties DEF PassInv
<1>2. CASE s.pos > Len(s.left)
  BY <1>2 DEF Pass, PassInv
<1>3. CASE s.pos <= Len(s.left) /\ s.left[s.pos] \in ready
  <2> DEFINE t == [left |-> RemoveAt(s.left, s.pos), pos |-> s.pos + 1,
                   out |-> Append(s.out, s.left[s.pos])]
             x == s.left[s.pos]
             rest == RemoveAt(s.left, s.pos)
  <2>1. Pass(s, ready) = t /\ t.left = rest /\ t.pos = s.pos + 1 /\ t.out = Append(s.out, x)
    BY <1>1, <1>3 DEF Pass, PassInv
  <2>2. /\ s.pos \in 1 .. Len(s.left) /\ x \in ToSet(s.left) /\ x \in T /\ s.pos = k + 1
        /\ s.left \in Seq(T) /\ Distinct(s.left) /\ s.out \in Seq(T) /\ Distinct(s.out)
        /\ x \notin ToSet(s.out)
    <3>1. /\ s.left \in Seq(T) /\ Distinct(s.left) /\ s.out \in Seq(T) /\ Distinct(s.out)
          /\ s.pos \in Nat \ {0} /\ (s.pos = k + 1 \/ s.pos > Len(s.left))
          /\ ToSet(s.left) \cap ToSet(s.out) = {}
      BY DEF PassInv
    <3>2. s.pos \in 1 .. Len(s.left) /\ s.pos = k + 1
      BY <1>1, <1>3, <3>1
    <3>3. x \in ToSet(s.left) /\ x \in T
      BY <1>1, <3>1, <3>2, ElementOfSeq DEF ToSet
    <3>4. QED
      BY <3>1, <3>2, <3>3
  <2>3. /\ rest \in Seq(T) /\ Len(rest) = Len(s.left) - 1 /\ Distinct(rest)
        /\ ToSet(rest) = ToSet(s.left) \ {x}
        /\ \A i \in 1 .. s.pos - 1 : rest[i] = s.left[i]
    <3>1. s.left \in Seq(T) /\ s.pos \in 1 .. Len(s.left) /\ Distinct(s.left)
      BY <2>2
    <3> DEFINE l == s.left
               p == s.pos
    <3> HIDE DEF l, p
    <3>2. l \in Seq(T) /\ p \in 1 .. Len(l) /\ Distinct(l)
      BY <3>1 DEF l, p
    <3>3. /\ RemoveAt(l, p) \in Seq(T) /\ Len(RemoveAt(l, p)) = Len(l) - 1
          /\ Distinct(RemoveAt(l, p))
          /\ ToSet(RemoveAt(l, p)) = ToSet(l) \ {l[p]}
          /\ \A i \in 1 .. p - 1 : RemoveAt(l, p)[i] = l[i]
      BY ONLY <3>2, DeleteDistinct
    <3>4. QED
      BY <3>3 DEF l, p
  <2>4. /\ t.out \in Seq(T) /\ Len(t.out) = Len(s.out) + 1 /\ Distinct(t.out)
        /\ ToSet(t.out) = ToSet(s.out) \cup {x}
    BY <2>1, <2>2, AppendDistinct
  <2>5. DOMAIN rest = 1 .. Len(s.left) - 1
    BY <2>3, LenProperties
  <2> HIDE DEF rest, x, t
  <2>6. Passed(t, ready) \subseteq Passed(s, ready) \cup {rest[s.pos]}
    <3> SUFFICES ASSUME NEW i \in DOMAIN rest, i < s.pos + 1, i # s.pos
                 PROVE  i \in DOMAIN s.left /\ i < s.pos /\ rest[i] = s.left[i]
      BY <2>1 DEF Passed
    <3>1. QED
      BY <1>1, <2>2, <2>3, <2>5
  <2>7. IsFiniteSet(Passed(t, ready)) /\ Cardinality(Passed(t, ready)) <= Len(s.out) + 1
    <3> DEFINE P == Passed(s, ready)
               Q == P \cup {rest[s.pos]}
    <3>1. IsFiniteSet(P) /\ Cardinality(P) <= Len(s.out) /\ Cardinality(P) \in Nat
      BY FS_CardinalityType DEF PassInv
    <3>2. IsFiniteSet(Q) /\ Cardinality(Q) <= Cardinality(P) + 1 /\ Cardinality(Q) \in Nat
      <4> HIDE DEF P
      <4>1. /\ IsFiniteSet(Q)
            /\ Cardinality(Q) = IF rest[s.pos] \in P THEN Cardinality(P) ELSE Cardinality(P) + 1
        BY <3>1, FS_AddElement
      <4>2. QED
        BY <3>1, <4>1
    <3> HIDE DEF P, Q
    <3>3. Passed(t, ready) \in SUBSET Q
      BY <2>6 DEF P, Q
    <3>4. IsFiniteSet(Passed(t, ready)) /\ Cardinality(Passed(t, ready)) <= Cardinality(Q)
          /\ Cardinality(Passed(t, ready)) \in Nat
      BY <3>2, <3>3, FS_Subset, FS_CardinalityType
    <3>5. QED
      BY <1>1, <3>1, <3>2, <3>4
  <2>8. PassInv(t, k + 1, list, ready, T)
    <3>1. /\ t.left \in Seq(T) /\ t.out \in Seq(T) /\ t.pos \in Nat \ {0} /\ t.pos = k + 1 + 1
          /\ Distinct(t.left) /\ Distinct(t.out)
      BY <2>1, <2>2, <2>3, <2>4
    <3>2. Len(t.left) + Len(t.out) = Len(list)
      <4>1. Len(s.left) + Len(s.out) = Len(list)
        BY DEF PassInv
      <4>2. Len(t.left) = Len(s.left) - 1 /\ Len(t.out) = Len(s.out) + 1
        BY <2>1, <2>3, <2>4
      <4>3. \A a, b \in Nat : (a - 1) + (b + 1) = a + b
        OBVIOUS
      <4>4. QED
        BY <1>1, <4>1, <4>2, <4>3
    <3>3. /\ ToSet(t.left) \cup ToSet(t.out) = ToSet(list)
          /\ ToSet(t.left) \cap ToSet(t.out) = {}
      BY <2>1, <2>2, <2>3, <2>4 DEF PassInv
    <3>4. ToSet(t.out) \subseteq ready
      BY <1>3, <2>4 DEF PassInv, x
    <3>5. QED
      BY <2>4, <2>7, <3>1, <3>2, <3>3, <3>4 DEF PassInv
  <2>9. QED
    BY <2>1, <2>8
<1>4. CASE s.pos <= Len(s.left) /\ s.left[s.pos] \notin ready
  <2> DEFINE t == [s EXCEPT !.pos = @ + 1]
  <2>1. Pass(s, ready) = t /\ t.left = s.left /\ t.pos = s.pos + 1 /\ t.out = s.out
    BY <1>1, <1>4 DEF Pass, PassInv
  <2>2. Passed(t, ready) = Passed(s, ready)
    <3>1. \A i \in DOMAIN s.left : i < s.pos + 1 <=> i < s.pos \/ i = s.pos
      BY <1>1 DEF PassInv
    <3> HIDE DEF t
    <3>2. QED
      BY <1>4, <2>1, <3>1 DEF Passed
  <2> HIDE DEF t
  <2>3. t.pos \in Nat \ {0} /\ t.pos = k + 1 + 1
    BY <1>1, <1>4, <2>1 DEF PassInv
  <2>4. PassInv(t, k + 1, list, ready, T)
    BY <2>1, <2>2, <2>3 DEF PassInv
  <2>5. QED
    BY <2>1, <2>4
<1>5. s.pos > Len(s.left) \/ s.pos <= Len(s.left)
  BY <1>1 DEF PassInv
<1>6. QED
  BY <1>2, <1>3, <1>4, <1>5

\* The loop sends elements that are ready and leaves the others, each once; what is ready and
\* left nevertheless is no more than what is sent.
LEMMA SweepProperties ==
  ASSUME NEW T, NEW list \in Seq(T), NEW ready, Distinct(list)
  PROVE  LET sw == Sweep(list, ready) IN
         /\ sw.left \in Seq(T) /\ sw.out \in Seq(T)
         /\ Distinct(sw.left) /\ Distinct(sw.out)
         /\ Len(sw.left) + Len(sw.out) = Len(list)
         /\ ToSet(sw.left) \cup ToSet(sw.out) = ToSet(list)
         /\ ToSet(sw.left) \cap ToSet(sw.out) = {}
         /\ ToSet(sw.out) \subseteq ready
         /\ Cardinality(ToSet(sw.left) \cap ready) <= Len(sw.out)
         /\ IsFiniteSet(ToSet(sw.left) \cap ready)
<1>1. Len(list) \in Nat
  BY LenProperties
<1>2. PICK g : ArePasses(g, Len(list), list, ready) /\ Sweep(list, ready) = g[Len(list)]
  BY <1>1, SweepIsPasses
<1>3. \A k \in 0 .. Len(list) : g[k] = IF k = 0 THEN Begin(list) ELSE Pass(g[k - 1], ready)
  BY <1>2 DEF ArePasses
<1>4. \A k \in 0 .. Len(list) : PassInv(g[k], k, list, ready, T)
  <2> DEFINE Bad == {k \in 0 .. Len(list) : ~PassInv(g[k], k, list, ready, T)}
  <2> SUFFICES ASSUME Bad # {} PROVE FALSE
    OBVIOUS
  <2>1. Bad \in SUBSET Nat
    BY <1>1
  <2>2. PICK m \in Bad : \A k \in Bad : m <= k
    <3> HIDE DEF Bad
    <3>1. QED
      BY <2>1, NatsHaveLeast
  <2>3. m \in Nat /\ m \in 0 .. Len(list) /\ ~PassInv(g[m], m, list, ready, T)
    BY <1>1
  <2>4. m # 0
    <3>1. g[0] = Begin(list)
      BY <1>1, <1>3
    <3>2. QED
      BY <2>3, <3>1, BeginInv
  <2>5. m - 1 \in Nat /\ m - 1 \in 0 .. Len(list) /\ m - 1 \notin Bad
    BY <1>1, <2>2, <2>3, <2>4
  <2>6. PassInv(g[m - 1], m - 1, list, ready, T) /\ g[m] = Pass(g[m - 1], ready)
    BY <1>3, <2>3, <2>4, <2>5
  <2>7. PassInv(g[m], (m - 1) + 1, list, ready, T)
    BY <2>5, <2>6, PassKeepsInv
  <2>8. (m - 1) + 1 = m
    BY <2>3
  <2>9. QED
    BY <2>3, <2>7, <2>8
<1> DEFINE sw == Sweep(list, ready)
<1>5. PassInv(sw, Len(list), list, ready, T)
  BY <1>1, <1>2, <1>4
<1> HIDE DEF sw
<1>6. /\ Len(sw.left) \in Nat /\ Len(sw.out) \in Nat /\ DOMAIN sw.left = 1 .. Len(sw.left)
      /\ Len(sw.left) + Len(sw.out) = Len(list)
  BY <1>5, LenProperties DEF PassInv
<1>7. sw.pos > Len(sw.left) /\ sw.pos \in Nat
  <2>1. sw.pos = Len(list) + 1 \/ sw.pos > Len(sw.left)
    BY <1>5 DEF PassInv
  <2>2. QED
    <3>1. \A a, b, c \in Nat : a + b = c => c + 1 > a
      OBVIOUS
    <3>2. Len(list) + 1 > Len(sw.left)
      BY <1>1, <1>6, <3>1
    <3>3. QED
      BY <1>5, <2>1, <3>2 DEF PassInv
<1>8. Passed(sw, ready) = ToSet(sw.left) \cap ready
  <2>1. {j \in DOMAIN sw.left : j < sw.pos} = DOMAIN sw.left
    BY <1>6, <1>7
  <2>2. QED
    BY <2>1 DEF Passed, ToSet
<1> DEFINE K == ToSet(sw.left) \cap ready
<1>9. IsFiniteSet(K) /\ Cardinality(K) <= Len(sw.out)
  BY <1>5, <1>8 DEF PassInv
<1>10. QED
  BY <1>5, <1>9 DEF PassInv, sw

----------------------------------------------------------------------------
(* Generations and rows.                                                   *)

\* The generation of the whole transfer that packet n is in, and its place there; 0 stands for
\* no packet at all.
AgeOf(n) == IF n = 0 THEN 0 ELSE Age(n)
Place(n) == n - AgeOf(n) * Symbols
Number(a) == a % (MaxGeneration + 1)

LEMMA Division ==
  ASSUME NEW S \in Nat, S > 0, NEW x \in Nat
  PROVE  x \div S \in Nat /\ x % S \in 0 .. S - 1 /\ x = S * (x \div S) + (x % S)
OBVIOUS

LEMMA RemainderOfNext ==
  ASSUME NEW a \in Nat, NEW m \in Nat
  PROVE  /\ a % (m + 1) \in 0 .. m
         /\ (a + 1) % (m + 1) = IF a % (m + 1) = m THEN 0 ELSE (a % (m + 1)) + 1
         /\ a <= m => a % (m + 1) = a
OBVIOUS

LEMMA AgeProperties ==
  /\ AgeOf(0) = 0 /\ Place(0) = 0
  /\ \A n \in Nat : AgeOf(n) \in Nat /\ Place(n) \in 0 .. Symbols
  /\ \A n \in Nat \ {0} : AgeOf(n) = Age(n) /\ Place(n) \in Indices
<1>1. ASSUME NEW n \in Nat \ {0} PROVE Age(n) \in Nat /\ n - Age(n) * Symbols \in 1 .. Symbols
  <2>1. Symbols \in Nat /\ Symbols > 0 /\ n - 1 \in Nat
    BY ChainAssumption
  <2>2. /\ Age(n) \in Nat /\ (n - 1) % Symbols \in 0 .. Symbols - 1
        /\ n - 1 = Symbols * Age(n) + ((n - 1) % Symbols)
    BY <2>1, Division DEF Age
  <2> DEFINE P == Age(n) * Symbols
  <2>3. \A x, y \in Nat : x * y \in Nat /\ x * y = y * x
    OBVIOUS
  <2>4. P \in Nat /\ n - 1 = P + ((n - 1) % Symbols)
    BY <2>1, <2>2, <2>3
  <2> HIDE DEF P
  <2>5. n - P \in 1 .. Symbols
    BY <2>1, <2>2, <2>4
  <2>6. QED
    BY <2>2, <2>5 DEF P
<1>2. AgeOf(0) = 0 /\ Place(0) = 0
  BY ChainAssumption DEF AgeOf, Place
<1>3. QED
  BY <1>1, <1>2, ChainAssumption DEF AgeOf, Place, Indices

LEMMA AgeOfPlace ==
  ASSUME NEW a \in Nat, NEW i \in Indices
  PROVE  a * Symbols + i \in Nat \ {0} /\ AgeOf(a * Symbols + i) = a /\ Place(a * Symbols + i) = i
<1>1. Age(a * Symbols + i) = a
  BY ChainAssumption DEF Age, Indices
<1>2. a * Symbols \in Nat /\ i \in Nat \ {0}
  BY ChainAssumption DEF Indices
<1>3. QED
  BY <1>1, <1>2 DEF AgeOf, Place

LEMMA AgeIsMonotone ==
  ASSUME NEW m \in Nat, NEW n \in Nat, m <= n
  PROVE  AgeOf(m) <= AgeOf(n)
<1>1. m # 0 => Age(m) <= Age(n)
  BY ChainAssumption DEF Age
<1>2. QED
  BY <1>1, AgeProperties DEF AgeOf

\* The next packet is at the next place, or begins a generation.
LEMMA NextPacket ==
  ASSUME NEW n \in Nat
  PROVE  \/ AgeOf(n + 1) = AgeOf(n) /\ Place(n + 1) = Place(n) + 1 /\ Place(n) # Symbols
         \/ AgeOf(n + 1) = AgeOf(n) + 1 /\ Place(n + 1) = 1 /\ Place(n) = Symbols
<1> DEFINE a == AgeOf(n)
           i == Place(n)
<1>1. a \in Nat /\ i \in 0 .. Symbols /\ n = a * Symbols + i /\ a * Symbols \in Nat
  <2>1. a \in Nat /\ i \in 0 .. Symbols /\ i = n - a * Symbols
    BY AgeProperties DEF Place
  <2>2. a * Symbols \in Nat
    BY <2>1, ChainAssumption
  <2>3. \A P \in Nat : n = P + (n - P)
    OBVIOUS
  <2>4. QED
    BY <2>1, <2>2, <2>3
<1> HIDE DEF a, i
<1>2. CASE i # Symbols
  <2>1. i + 1 \in Indices /\ n + 1 = a * Symbols + (i + 1)
    BY <1>1, <1>2, ChainAssumption DEF Indices
  <2>2. QED
    BY <1>1, <1>2, <2>1, AgeOfPlace DEF a, i
<1>3. CASE i = Symbols
  <2>1. 1 \in Indices /\ a + 1 \in Nat
    BY <1>1, ChainAssumption DEF Indices
  <2>2. (a + 1) * Symbols = a * Symbols + Symbols
    BY <1>1, ChainAssumption
  <2>3. n + 1 = (a + 1) * Symbols + 1
    BY <1>1, <1>3, <2>2, ChainAssumption
  <2>4. QED
    BY <1>3, <2>1, <2>3, AgeOfPlace DEF a, i
<1>4. QED
  BY <1>2, <1>3

\* The numbers in the header follow each other, and the last one is followed by 0.
LEMMA NumberProperties ==
  /\ \A a \in Nat : /\ Number(a) \in 0 .. MaxGeneration
                    /\ Number(a + 1) = NextGeneration(Number(a))
  /\ \A a \in 0 .. MaxGeneration : Number(a) = a
<1> USE ChainAssumption
<1>1. ASSUME NEW a \in Nat
      PROVE  /\ Number(a) \in 0 .. MaxGeneration
             /\ Number(a + 1) = NextGeneration(Number(a))
             /\ a <= MaxGeneration => Number(a) = a
  <2>1. /\ Number(a) \in 0 .. MaxGeneration
        /\ Number(a + 1) = IF Number(a) = MaxGeneration THEN 0 ELSE Number(a) + 1
        /\ a <= MaxGeneration => Number(a) = a
    BY RemainderOfNext DEF Number
  <2>2. QED
    BY <2>1 DEF NextGeneration
<1>2. QED
  BY <1>1

\* A combination of the symbols c of generation a.
Row(a, c) == [coef |-> c, data |-> {a * Symbols + i : i \in c}]
Rows(a, C) == {Row(a, c) : c \in SUBSET C}

\* The sum of two combinations of a generation is one of the generation.
LEMMA SumOfRows ==
  ASSUME NEW a \in Nat, NEW C \in SUBSET Indices, NEW c \in SUBSET C, NEW e \in SUBSET C
  PROVE  Sum(Row(a, c), Row(a, e)) = Row(a, Plus(c, e)) /\ Plus(c, e) \in SUBSET C
<1>1. \A i, j \in Indices : a * Symbols + i = a * Symbols + j => i = j
  BY AgeOfPlace
<1> DEFINE D(b) == {a * Symbols + i : i \in b}
<1>2. Plus(D(c), D(e)) = D(Plus(c, e))
  <2>1. ASSUME NEW x \in Plus(D(c), D(e)) PROVE x \in D(Plus(c, e))
    <3>1. CASE x \in D(c) /\ x \notin D(e)
      <4>1. PICK i \in c : x = a * Symbols + i
        BY <3>1
      <4>2. i \notin e
        BY <3>1, <4>1
      <4>3. QED
        BY <4>1, <4>2 DEF Plus
    <3>2. CASE x \in D(e) /\ x \notin D(c)
      <4>1. PICK i \in e : x = a * Symbols + i
        BY <3>2
      <4>2. i \notin c
        BY <3>2, <4>1
      <4>3. QED
        BY <4>1, <4>2 DEF Plus
    <3>3. QED
      BY <3>1, <3>2 DEF Plus
  <2>2. ASSUME NEW x \in D(Plus(c, e)) PROVE x \in Plus(D(c), D(e))
    <3>1. PICK i \in Plus(c, e) : x = a * Symbols + i
      OBVIOUS
    <3>2. CASE i \in c /\ i \notin e
      <4>1. x \in D(c)
        BY <3>1, <3>2
      <4>2. x \notin D(e)
        BY <1>1, <3>1, <3>2
      <4>3. QED
        BY <4>1, <4>2 DEF Plus
    <3>3. CASE i \in e /\ i \notin c
      <4>1. x \in D(e)
        BY <3>1, <3>3
      <4>2. x \notin D(c)
        BY <1>1, <3>1, <3>3
      <4>3. QED
        BY <4>1, <4>2 DEF Plus
    <3>4. QED
      BY <3>1, <3>2, <3>3 DEF Plus
  <2> HIDE DEF D
  <2>3. QED
    BY <2>1, <2>2
<1>3. Row(a, c).coef = c /\ Row(a, e).coef = e /\ Row(a, c).data = D(c) /\ Row(a, e).data = D(e)
  BY DEF Row
<1>4. Plus(c, e) \in SUBSET C
  BY DEF Plus
<1>5. Row(a, Plus(c, e)) = [coef |-> Plus(c, e), data |-> D(Plus(c, e))]
  BY DEF Row
<1> HIDE DEF D
<1>6. QED
  BY <1>2, <1>3, <1>4, <1>5 DEF Sum

LEMMA ExtendedRows ==
  ASSUME NEW a \in Nat, NEW C \in SUBSET Indices, NEW space, space \subseteq Rows(a, C),
         NEW r \in Rows(a, C)
  PROVE  Extended(space, r) \subseteq Rows(a, C)
<1>1. PICK e \in SUBSET C : r = Row(a, e)
  BY DEF Rows
<1>2. ASSUME NEW s \in space PROVE Sum(r, s) \in Rows(a, C)
  <2>1. PICK c \in SUBSET C : s = Row(a, c)
    BY DEF Rows
  <2>2. Sum(Row(a, e), Row(a, c)) = Row(a, Plus(e, c)) /\ Plus(e, c) \in SUBSET C
    BY SumOfRows
  <2>3. QED
    BY <1>1, <2>1, <2>2 DEF Rows
<1>3. QED
  BY <1>2 DEF Extended

LEMMA ZeroIsRow ==
  ASSUME NEW a \in Nat, NEW C
  PROVE  {Zero} \subseteq Rows(a, C)
<1>1. Row(a, {}) = Zero
  BY DEF Row, Zero
<1>2. Row(a, {}) \in Rows(a, C)
  BY DEF Rows
<1>3. QED
  BY <1>1, <1>2

\* What has one coefficient is one packet.
LEMMA SymbolIsPacket ==
  ASSUME NEW a \in Nat, NEW space, space \subseteq Rows(a, Indices), NEW i \in Decodable(space)
  PROVE  i \in Indices /\ Symbol(space, i) = {a * Symbols + i}
<1>1. i \in Indices /\ \E s \in space : s.coef = {i}
  BY DEF Decodable
<1> DEFINE s == CHOOSE x \in space : x.coef = {i}
<1>2. s \in space /\ s.coef = {i}
  BY <1>1
<1> HIDE DEF s
<1>3. PICK c \in SUBSET Indices : s = Row(a, c)
  BY <1>2 DEF Rows
<1>4. c = {i} /\ s.data = {a * Symbols + j : j \in c}
  BY <1>2, <1>3 DEF Row
<1>5. s.data = {a * Symbols + i}
  BY <1>4
<1>6. QED
  BY <1>1, <1>5 DEF Symbol, s

----------------------------------------------------------------------------
(* Types, the encoder's block, and what each step puts on the links.       *)

RowType == [coef : SUBSET Indices, data : SUBSET Nat]
FrameType == [gen : Nat, row : RowType]

ChainTypeOK ==
  /\ recoding \in BOOLEAN /\ systematic \in BOOLEAN
  /\ next \in Nat \ {0} /\ lostFrames \in Nat
  /\ block \in Seq(Nat)
  /\ generation \in [Coders -> Nat]
  /\ redundancy \in [{"encoder", "recoder"} -> Nat]
  /\ link \in [{"recoder", "decoder"} -> Seq(FrameType)]
  /\ recoder \subseteq RowType /\ decoder \subseteq RowType
  /\ undecoded \in Seq(Indices) /\ Distinct(undecoded) /\ Len(undecoded) <= Symbols
  /\ delivered \in Seq(SUBSET Nat)

\* The block holds the packets of the generation of the next packet, up to that one.
BlockInv ==
  /\ Place(next) = Len(block) + 1
  /\ \A i \in DOMAIN block : block[i] = AgeOf(next) * Symbols + i
  /\ generation["encoder"] = Number(AgeOf(next))

LEMMA RowIsTyped ==
  ASSUME NEW a \in Nat, NEW c \in SUBSET Indices
  PROVE  Row(a, c) \in RowType
<1>1. \A i \in c : a * Symbols + i \in Nat
  BY AgeOfPlace
<1>2. QED
  BY <1>1 DEF Row, RowType

LEMMA SumIsTyped ==
  /\ Zero \in RowType
  /\ \A r, s \in RowType : Sum(r, s) \in RowType
BY DEF Zero, Sum, Plus, RowType

\* A sequence that another one is appended to.
LEMMA Joined ==
  ASSUME NEW T, NEW s \in Seq(T), NEW t \in Seq(T)
  PROVE  /\ s \o t \in Seq(T) /\ Len(s \o t) = Len(s) + Len(t)
         /\ Len(s) \in Nat /\ Len(t) \in Nat
         /\ DOMAIN s = 1 .. Len(s) /\ DOMAIN t = 1 .. Len(t) /\ DOMAIN (s \o t) = 1 .. Len(s) + Len(t)
         /\ \A i \in 1 .. Len(s) : (s \o t)[i] = s[i]
         /\ \A i \in 1 .. Len(t) : (s \o t)[Len(s) + i] = t[i]
<1>1. /\ s \o t \in Seq(T) /\ Len(s \o t) = Len(s) + Len(t)
      /\ \A i \in 1 .. Len(s) + Len(t) : (s \o t)[i] = IF i <= Len(s) THEN s[i] ELSE t[i - Len(s)]
  BY ConcatProperties
<1>2. /\ Len(s) \in Nat /\ Len(t) \in Nat
      /\ DOMAIN s = 1 .. Len(s) /\ DOMAIN t = 1 .. Len(t) /\ DOMAIN (s \o t) = 1 .. Len(s \o t)
  BY <1>1, LenProperties
<1>3. \A i \in 1 .. Len(t) : Len(s) + i \in 1 .. Len(s) + Len(t) /\ ~(Len(s) + i <= Len(s))
                             /\ (Len(s) + i) - Len(s) = i
  BY <1>2
<1>4. \A i \in 1 .. Len(s) : i \in 1 .. Len(s) + Len(t) /\ i <= Len(s)
  BY <1>2
<1>5. QED
  BY <1>1, <1>2, <1>3, <1>4

\* A sequence whose first element is taken.
LEMMA Taken ==
  ASSUME NEW T, NEW s \in Seq(T), s # <<>>
  PROVE  /\ Tail(s) \in Seq(T) /\ Len(Tail(s)) = Len(s) - 1 /\ Len(s) \in Nat \ {0}
         /\ DOMAIN s = 1 .. Len(s) /\ DOMAIN Tail(s) = 1 .. Len(s) - 1
         /\ Head(s) = s[1] /\ Head(s) \in T
         /\ \A i \in 1 .. Len(s) - 1 : Tail(s)[i] = s[i + 1]
<1>1. /\ Tail(s) \in Seq(T) /\ Len(Tail(s)) = Len(s) - 1
      /\ Head(s) = s[1] /\ Head(s) \in T
      /\ \A i \in 1 .. Len(Tail(s)) : Tail(s)[i] = s[i + 1]
  BY HeadTailProperties
<1>2. Len(s) \in Nat \ {0} /\ DOMAIN s = 1 .. Len(s) /\ DOMAIN Tail(s) = 1 .. Len(Tail(s))
  BY <1>1, LenProperties, EmptySeq
<1>3. QED
  BY <1>1, <1>2

\* The frames g that the encoder writes of packet n, with the coefficients f.
Written(g, f, n) ==
  /\ g \in Seq(FrameType) /\ Len(g) \in Nat \ {0}
  /\ f \in [1 .. Len(g) -> SUBSET (1 .. Place(n))]
  /\ \A k \in 1 .. Len(g) : g[k].gen = Number(AgeOf(n)) /\ g[k].row = Row(AgeOf(n), f[k])
  /\ systematic => f[1] = {Place(n)}

LEMMA EncodeSends ==
  ASSUME ChainTypeOK, BlockInv, Encode
  PROVE  \E f, g : Written(g, f, next) /\ link' = [link EXCEPT !["recoder"] = @ \o g]
<1> DEFINE stored == Append(block, next)
           number == IF Len(stored) = Symbols THEN 1 + redundancy["encoder"] ELSE 1
           a == AgeOf(next)
<1>1. /\ stored \in Seq(Nat) /\ Len(stored) = Len(block) + 1 /\ Len(block) \in Nat
      /\ \A i \in 1 .. Len(block) : stored[i] = block[i]
      /\ stored[Len(block) + 1] = next
  BY AppendProperties, LenProperties DEF ChainTypeOK
<1>2. DOMAIN stored = 1 .. Place(next) /\ DOMAIN block = 1 .. Len(block) /\ Len(stored) = Place(next)
  BY <1>1, LenProperties DEF BlockInv, ChainTypeOK
<1>3. a \in Nat /\ Place(next) \in Indices /\ next = a * Symbols + Place(next)
  <2>1. a \in Nat /\ Place(next) \in Indices /\ next \in Nat
    BY AgeProperties DEF ChainTypeOK
  <2>2. \A P \in Nat : next = P + (next - P)
    BY <2>1
  <2>3. a * Symbols \in Nat
    BY <2>1, ChainAssumption
  <2>4. QED
    BY <2>1, <2>2, <2>3 DEF Place
<1>4. number \in Nat \ {0}
  BY DEF ChainTypeOK
<1> HIDE DEF stored
<1>5. \A i \in 1 .. Place(next) : stored[i] = a * Symbols + i
  <2>1. \A i \in 1 .. Place(next) : i \in 1 .. Len(block) \/ i = Place(next)
    BY <1>1, <1>2
  <2> HIDE DEF a
  <2>2. QED
    BY <1>1, <1>2, <1>3, <2>1 DEF BlockInv, a
<1> HIDE DEF number
<1>6. PICK f \in Payloads(stored, number) :
        link' = [link EXCEPT !["recoder"] =
                   @ \o [k \in 1 .. number |->
                           [gen |-> generation["encoder"], row |-> Payload(stored, f[k])]]]
  BY DEF Encode, stored, number
<1>7. /\ f \in [1 .. number -> SUBSET (1 .. Place(next))]
      /\ systematic => f[1] = {Place(next)}
  BY <1>2, <1>6 DEF Payloads
<1> DEFINE g == [k \in 1 .. number |-> [gen |-> generation["encoder"], row |-> Payload(stored, f[k])]]
<1>8. ASSUME NEW k \in 1 .. number
      PROVE  /\ g[k].gen = Number(a) /\ g[k].row = Row(a, f[k]) /\ g[k] \in FrameType
  <2>1. f[k] \in SUBSET (1 .. Place(next)) /\ 1 .. Place(next) \subseteq Indices
    BY <1>3, <1>7, ChainAssumption DEF Indices
  <2>2. {stored[i] : i \in f[k]} = {a * Symbols + i : i \in f[k]}
    BY <1>5, <2>1
  <2>3. Payload(stored, f[k]) = Row(a, f[k])
    BY <2>2 DEF Payload, Row
  <2>4. Row(a, f[k]) \in RowType
    BY <1>3, <2>1, RowIsTyped
  <2>5. g[k] = [gen |-> Number(a), row |-> Row(a, f[k])]
    BY <2>3 DEF BlockInv
  <2>6. Number(a) \in Nat
    BY <1>3, NumberProperties
  <2> HIDE DEF g, a
  <2>7. QED
    BY <2>4, <2>5, <2>6 DEF FrameType
<1>9. g \in Seq(FrameType) /\ Len(g) = number
  <2>1. \A k \in 1 .. number : g[k] \in FrameType
    BY <1>8
  <2>2. g = [k \in 1 .. number |-> g[k]]
    OBVIOUS
  <2> HIDE DEF g
  <2>3. QED
    BY <1>4, <2>1, <2>2, IsASeq
<1> HIDE DEF g
<1>10. QED
  <2>1. Written(g, f, next)
    BY <1>4, <1>7, <1>8, <1>9 DEF Written
  <2>2. QED
    BY <1>6, <2>1 DEF g

LEMMA RecodeSends ==
  ASSUME ChainTypeOK, Recode
  PROVE  LET f == Head(link["recoder"]) IN
         /\ link["recoder"] # <<>> /\ f \in FrameType
         /\ recoder' = Extended(Known(f.gen, recoder), f.row) /\ recoder' \subseteq RowType
         /\ \E g \in Seq(FrameType) :
              /\ Len(g) > 1 /\ g[1] = f
              /\ \A k \in 2 .. Len(g) : g[k].gen = f.gen /\ g[k].row \in recoder'
              /\ link' = [recoder |-> Tail(link["recoder"]), decoder |-> link["decoder"] \o g]
<1> DEFINE f == Head(link["recoder"])
           number == redundancy["recoder"] + 1
<1>1. link["recoder"] \in Seq(FrameType) /\ link["decoder"] \in Seq(FrameType) /\ link["recoder"] # <<>>
  BY DEF ChainTypeOK, Recode
<1>2. f \in FrameType
  BY <1>1, Taken
<1>3. number \in Nat \ {0}
  BY DEF ChainTypeOK
<1>4. recoder' = Extended(Known(f.gen, recoder), f.row)
  BY DEF Recode
<1>5. recoder' \subseteq RowType
  <2>1. Known(f.gen, recoder) \subseteq RowType
    BY SumIsTyped DEF Known, ChainTypeOK
  <2>2. f.row \in RowType
    BY <1>2 DEF FrameType
  <2>3. QED
    BY <1>4, <2>1, <2>2, SumIsTyped DEF Extended
<1> HIDE DEF f, number
<1>6. PICK rows \in [1 .. number -> recoder'] :
        link' = [recoder |-> Tail(link["recoder"]),
                 decoder |-> link["decoder"] \o <<f>>
                               \o [k \in 1 .. number |-> [gen |-> f.gen, row |-> rows[k]]]]
  BY <1>4 DEF Recode, f, number
<1> DEFINE t == [k \in 1 .. number |-> [gen |-> f.gen, row |-> rows[k]]]
           g == <<f>> \o t
<1>7. t \in Seq(FrameType) /\ Len(t) = number /\ \A k \in 1 .. number : t[k] = [gen |-> f.gen, row |-> rows[k]]
  <2>1. \A k \in 1 .. number : [gen |-> f.gen, row |-> rows[k]] \in FrameType
    BY <1>2, <1>5 DEF FrameType
  <2>2. QED
    BY <1>3, <2>1, IsASeq
<1> HIDE DEF t
<1>8. <<f>> \in Seq(FrameType) /\ Len(<<f>>) = 1 /\ <<f>>[1] = f
  BY <1>2
<1>9. /\ g \in Seq(FrameType) /\ Len(g) = 1 + number
      /\ \A i \in 1 .. 1 : g[i] = <<f>>[i]
      /\ \A i \in 1 .. number : g[1 + i] = t[i]
  BY <1>7, <1>8, Joined
<1>10. (link["decoder"] \o <<f>>) \o t = link["decoder"] \o g
  <2> DEFINE one == <<f>>
  <2>1. one \in Seq(FrameType)
    BY <1>8
  <2> HIDE DEF one
  <2>2. \A u, v, w \in Seq(FrameType) : (u \o v) \o w = u \o (v \o w)
    BY ConcatAssociative
  <2>3. link["decoder"] \in Seq(FrameType) /\ t \in Seq(FrameType)
    BY <1>1, <1>7
  <2>4. (link["decoder"] \o one) \o t = link["decoder"] \o (one \o t)
    BY <2>1, <2>2, <2>3
  <2>5. QED
    BY <2>4 DEF one
<1> HIDE DEF g
<1>11. g[1] = f /\ Len(g) > 1
  BY <1>3, <1>8, <1>9
<1>12. ASSUME NEW k \in 2 .. Len(g) PROVE g[k].gen = f.gen /\ g[k].row \in recoder'
  <2>1. k - 1 \in 1 .. number /\ 1 + (k - 1) = k
    BY <1>3, <1>9
  <2>2. g[k] = [gen |-> f.gen, row |-> rows[k - 1]]
    BY <1>7, <1>9, <2>1
  <2>3. QED
    BY <2>1, <2>2
<1>13. QED
  BY <1>1, <1>2, <1>4, <1>5, <1>6, <1>9, <1>10, <1>11, <1>12 DEF f, t

\* What the decoder knows, and has to send, when it has looked at a generation number.
Before(g) == IF Restarts(g) THEN {Zero} ELSE decoder
Unsent(g) == IF Restarts(g) THEN AllIndices ELSE undecoded

\* What a frame makes of them, when the symbols at out are sent.
Decoding(before, list, out) ==
  /\ list \in Seq(Indices) /\ Distinct(list) /\ Len(list) <= Symbols
  /\ decoder' = Learned(before, Head(link["decoder"]).row)
  /\ undecoded' \in Seq(Indices) /\ Distinct(undecoded') /\ Len(undecoded') <= Symbols
  /\ out \in Seq(Indices) /\ Distinct(out)
  /\ ToSet(undecoded') \cup ToSet(out) = ToSet(list)
  /\ ToSet(undecoded') \cap ToSet(out) = {}
  /\ ToSet(out) \subseteq Decodable(decoder')
  /\ IsFiniteSet(ToSet(undecoded') \cap Decodable(decoder'))
  /\ Cardinality(ToSet(undecoded') \cap Decodable(decoder')) <= Len(out)
  /\ delivered' = delivered \o [k \in DOMAIN out |-> Symbol(decoder', out[k])]

LEMMA AllIndicesList ==
  /\ AllIndices \in Seq(Indices) /\ Distinct(AllIndices) /\ Len(AllIndices) = Symbols
  /\ ToSet(AllIndices) = Indices
<1>1. AllIndices = [i \in 1 .. Symbols |-> i] /\ Symbols \in Nat
  BY ChainAssumption DEF AllIndices, Indices
<1>2. AllIndices \in Seq(Indices)
  BY <1>1, IsASeq DEF Indices
<1>3. Len(AllIndices) = Symbols
  BY <1>1, <1>2, LenProperties
<1>4. QED
  BY <1>1, <1>2, <1>3 DEF Distinct, ToSet, Indices

LEMMA DecodeGives ==
  ASSUME ChainTypeOK, Decode
  PROVE  LET f == Head(link["decoder"]) IN
         /\ link["decoder"] # <<>> /\ f \in FrameType
         /\ \E out : Decoding(Before(f.gen), Unsent(f.gen), out)
         /\ link' = [link EXCEPT !["decoder"] = Tail(@)]
         /\ generation' = IF Restarts(f.gen) THEN [generation EXCEPT !["decoder"] = f.gen] ELSE generation
<1> DEFINE f == Head(link["decoder"])
           list == Unsent(f.gen)
           sw == Sweep(list, Decodable(decoder'))
<1>1. link["decoder"] # <<>> /\ f \in FrameType
  BY Taken DEF ChainTypeOK, Decode
<1>2. /\ decoder' = Learned(Before(f.gen), f.row)
      /\ undecoded' = Sweep(list, Decodable(decoder')).left
      /\ delivered' = delivered \o [k \in DOMAIN sw.out |-> Symbol(decoder', sw.out[k])]
  BY DEF Decode, Before, Unsent
<1>3. list \in Seq(Indices) /\ Distinct(list) /\ Len(list) <= Symbols /\ Len(list) \in Nat
  BY AllIndicesList, LenProperties, ChainAssumption DEF Unsent, ChainTypeOK
<1> DEFINE ready == Decodable(decoder')
<1> HIDE DEF list, ready, f
<1>4. LET w == Sweep(list, ready) IN
      /\ w.left \in Seq(Indices) /\ w.out \in Seq(Indices)
      /\ Distinct(w.left) /\ Distinct(w.out)
      /\ Len(w.left) + Len(w.out) = Len(list)
      /\ ToSet(w.left) \cup ToSet(w.out) = ToSet(list)
      /\ ToSet(w.left) \cap ToSet(w.out) = {}
      /\ ToSet(w.out) \subseteq ready
      /\ Cardinality(ToSet(w.left) \cap ready) <= Len(w.out)
      /\ IsFiniteSet(ToSet(w.left) \cap ready)
  BY <1>3, SweepProperties
<1>5. sw = Sweep(list, ready)
  BY DEF ready
<1> HIDE DEF sw
<1>6. undecoded' = sw.left
  BY <1>2, <1>5 DEF ready
<1>7. /\ sw.left \in Seq(Indices) /\ sw.out \in Seq(Indices)
      /\ Distinct(sw.left) /\ Distinct(sw.out)
      /\ Len(sw.left) + Len(sw.out) = Len(list)
      /\ ToSet(sw.left) \cup ToSet(sw.out) = ToSet(list)
      /\ ToSet(sw.left) \cap ToSet(sw.out) = {}
      /\ ToSet(sw.out) \subseteq ready
      /\ Cardinality(ToSet(sw.left) \cap ready) <= Len(sw.out)
      /\ IsFiniteSet(ToSet(sw.left) \cap ready)
  BY <1>4, <1>5
<1>8. Len(undecoded') <= Symbols
  <2>1. \A a, b, c \in Nat : a + b = c => a <= c
    OBVIOUS
  <2>2. Len(sw.left) \in Nat /\ Len(sw.out) \in Nat
    BY <1>7, LenProperties
  <2>3. QED
    <3>1. Len(sw.left) + Len(sw.out) = Len(list) /\ Len(list) \in Nat /\ Len(list) <= Symbols
      BY <1>3, <1>7
    <3>2. Len(sw.left) <= Len(list)
      BY <2>1, <2>2, <3>1
    <3>3. Len(sw.left) <= Symbols
      BY <2>2, <3>1, <3>2, ChainAssumption
    <3>4. QED
      BY <1>6, <3>3
<1>9. Decoding(Before(f.gen), list, sw.out)
  BY <1>2, <1>3, <1>6, <1>7, <1>8 DEF Decoding, ready, f
<1>10. /\ link' = [link EXCEPT !["decoder"] = Tail(@)]
       /\ generation' = IF Restarts(f.gen) THEN [generation EXCEPT !["decoder"] = f.gen] ELSE generation
  BY DEF Decode, f
<1>11. QED
  BY <1>1, <1>9, <1>10 DEF f, list

\* The symbols that are sent are a sequence after those sent before.
LEMMA DecodeDelivers ==
  ASSUME ChainTypeOK, NEW before, NEW list, NEW out, Decoding(before, list, out)
  PROVE  /\ Len(delivered) \in Nat /\ DOMAIN delivered = 1 .. Len(delivered)
         /\ Len(out) \in Nat /\ DOMAIN out = 1 .. Len(out)
         /\ DOMAIN delivered' = 1 .. Len(delivered) + Len(out)
         /\ \A k \in 1 .. Len(delivered) : delivered'[k] = delivered[k]
         /\ \A k \in 1 .. Len(out) : delivered'[Len(delivered) + k] = Symbol(decoder', out[k])
<1> DEFINE t == [k \in DOMAIN out |-> Symbol(decoder', out[k])]
           T == ToSet(delivered) \cup ToSet(t)
<1>1. Len(out) \in Nat /\ DOMAIN out = 1 .. Len(out)
  BY LenProperties DEF Decoding
<1>2. delivered \in Seq(SUBSET Nat) /\ DOMAIN delivered = 1 .. Len(delivered) /\ Len(delivered) \in Nat
  BY LenProperties DEF ChainTypeOK
<1>3. delivered \in Seq(T)
  <2>1. \A k \in 1 .. Len(delivered) : delivered[k] \in T
    BY <1>2 DEF ToSet
  <2>2. delivered = [k \in 1 .. Len(delivered) |-> delivered[k]]
    BY <1>2, LenProperties
  <2> HIDE DEF T
  <2>3. QED
    BY <1>2, <2>1, <2>2, IsASeq
<1>4. t \in Seq(T) /\ Len(t) = Len(out)
  <2>1. \A k \in 1 .. Len(out) : t[k] \in T
    BY <1>1 DEF ToSet
  <2>2. t = [k \in 1 .. Len(out) |-> t[k]]
    BY <1>1
  <2> HIDE DEF T, t
  <2>3. QED
    BY <1>1, <2>1, <2>2, IsASeq
<1>5. delivered' = delivered \o t
  BY DEF Decoding
<1>6. \A k \in 1 .. Len(out) : t[k] = Symbol(decoder', out[k])
  BY <1>1
<1> HIDE DEF t, T
<1>7. /\ delivered \o t \in Seq(T) /\ Len(delivered \o t) = Len(delivered) + Len(t)
      /\ Len(t) \in Nat /\ DOMAIN t = 1 .. Len(t)
      /\ DOMAIN (delivered \o t) = 1 .. Len(delivered) + Len(t)
      /\ \A i \in 1 .. Len(delivered) : (delivered \o t)[i] = delivered[i]
      /\ \A i \in 1 .. Len(t) : (delivered \o t)[Len(delivered) + i] = t[i]
  <2>1. t \in Seq(T) /\ delivered \in Seq(T)
    BY <1>3, <1>4
  <2>2. QED
    BY ONLY <2>1, Joined
<1>8. QED
  BY <1>1, <1>2, <1>4, <1>5, <1>6, <1>7

ChainBase == ChainTypeOK /\ BlockInv

LEMMA EmptyIsSeq == \A T : <<>> \in Seq(T)
OBVIOUS

LEMMA LinksAreTyped ==
  ASSUME NEW S, NEW a \in S, NEW b \in S
  PROVE  [recoder |-> a, decoder |-> b] \in [{"recoder", "decoder"} -> S]
OBVIOUS

LEMMA NothingDecodable == Decodable({Zero}) = {}
BY DEF Decodable, Zero

LEMMA InitBase == ChainInit => ChainBase
<1> SUFFICES ASSUME ChainInit PROVE ChainBase
  OBVIOUS
<1>1. ChainTypeOK
  <2>1. delivered \in Seq(SUBSET Nat) /\ block \in Seq(Nat)
    BY EmptyIsSeq DEF ChainInit
  <2>2. link \in [{"recoder", "decoder"} -> Seq(FrameType)]
    BY EmptyIsSeq, LinksAreTyped DEF ChainInit
  <2>3. redundancy \in [{"encoder", "recoder"} -> Nat] /\ generation \in [Coders -> Nat]
    BY ChainAssumption DEF ChainInit, Coders
  <2>4. recoder \subseteq RowType /\ decoder \subseteq RowType
    BY SumIsTyped DEF ChainInit
  <2>5. undecoded \in Seq(Indices) /\ Distinct(undecoded) /\ Len(undecoded) <= Symbols
    BY AllIndicesList, ChainAssumption DEF ChainInit
  <2>6. QED
    BY <2>1, <2>2, <2>3, <2>4, <2>5 DEF ChainInit, ChainTypeOK
<1>2. BlockInv
  <2>1. AgeOf(1) = 0 /\ Place(1) = 1
    <3>1. \/ AgeOf(0 + 1) = 0 /\ Place(0 + 1) = 1
          \/ 0 = Symbols
      BY AgeProperties, NextPacket
    <3>2. QED
      BY <3>1, ChainAssumption
  <2>2. Number(0) = 0
    BY NumberProperties, ChainAssumption
  <2>3. QED
    BY <2>1, <2>2 DEF ChainInit, BlockInv, Coders
<1>3. QED
  BY <1>1, <1>2 DEF ChainBase

\* The block is filled packet by packet, and emptied when it is full.
LEMMA EncodeKeepsBlock ==
  ASSUME ChainTypeOK, BlockInv, Encode
  PROVE  /\ block' \in Seq(Nat) /\ BlockInv'
         /\ next' = next + 1 /\ generation' \in [Coders -> Nat]
<1> DEFINE stored == Append(block, next)
<1>1. /\ stored \in Seq(Nat) /\ Len(stored) = Len(block) + 1 /\ Len(block) \in Nat
      /\ \A i \in 1 .. Len(block) : stored[i] = block[i]
      /\ stored[Len(block) + 1] = next
      /\ DOMAIN block = 1 .. Len(block)
  BY AppendProperties, LenProperties DEF ChainTypeOK
<1>2. DOMAIN stored = 1 .. Len(block) + 1
  BY <1>1, LenProperties
<1>3. AgeOf(next) \in Nat /\ Place(next) \in Indices /\ next \in Nat
  BY AgeProperties DEF ChainTypeOK
<1>4. \/ AgeOf(next + 1) = AgeOf(next) /\ Place(next + 1) = Place(next) + 1 /\ Place(next) # Symbols
      \/ AgeOf(next + 1) = AgeOf(next) + 1 /\ Place(next + 1) = 1 /\ Place(next) = Symbols
  BY <1>3, NextPacket
<1>5. /\ next' = next + 1
      /\ block' = IF Len(stored) = Symbols THEN <<>> ELSE stored
      /\ generation' = IF Len(stored) = Symbols
                       THEN [generation EXCEPT !["encoder"] = NextGeneration(@)] ELSE generation
  BY DEF Encode
<1> HIDE DEF stored
<1>6. Place(next) = Len(stored) /\ generation["encoder"] = Number(AgeOf(next))
  BY <1>1 DEF BlockInv
<1>7. CASE Len(stored) = Symbols
  <2>1. block' = <<>> /\ Place(next') = 1 /\ AgeOf(next') = AgeOf(next) + 1
    BY <1>4, <1>5, <1>6, <1>7, ChainAssumption
  <2>2. generation' = [generation EXCEPT !["encoder"] = Number(AgeOf(next) + 1)]
    BY <1>3, <1>5, <1>6, <1>7, NumberProperties
  <2>3. Number(AgeOf(next) + 1) \in Nat
    BY <1>3, NumberProperties
  <2>4. generation' \in [Coders -> Nat] /\ generation'["encoder"] = Number(AgeOf(next'))
    BY <2>1, <2>2, <2>3 DEF ChainTypeOK, Coders
  <2>5. Len(<<>>) = 0 /\ DOMAIN <<>> = {}
    OBVIOUS
  <2>6. BlockInv'
    BY <2>1, <2>4, <2>5 DEF BlockInv
  <2>7. QED
    BY <1>5, <2>1, <2>4, <2>6, EmptyIsSeq
<1>8. CASE Len(stored) # Symbols
  <2>1. block' = stored /\ Place(next') = Len(stored) + 1 /\ AgeOf(next') = AgeOf(next)
        /\ generation' = generation
    BY <1>4, <1>5, <1>6, <1>8
  <2>2. stored[Len(block) + 1] = AgeOf(next) * Symbols + (Len(block) + 1)
    <3>1. \A P \in Nat : next = P + (next - P)
      BY <1>3
    <3>2. AgeOf(next) * Symbols \in Nat
      BY <1>3, ChainAssumption
    <3>3. next = AgeOf(next) * Symbols + Place(next)
      BY <3>1, <3>2 DEF Place
    <3>4. QED
      BY <1>1, <1>6, <3>3
  <2>3. \A i \in DOMAIN stored : stored[i] = AgeOf(next) * Symbols + i
    <3>1. \A i \in DOMAIN stored : i \in 1 .. Len(block) \/ i = Len(block) + 1
      BY <1>1, <1>2
    <3>2. QED
      BY <1>1, <2>2, <3>1 DEF BlockInv
  <2>4. BlockInv'
    BY <1>6, <2>1, <2>3 DEF BlockInv
  <2>5. QED
    BY <1>1, <1>5, <2>1, <2>4 DEF ChainTypeOK
<1>9. QED
  BY <1>7, <1>8

LEMMA EncodeKeepsBase ==
  ASSUME ChainBase, Encode
  PROVE  ChainBase'
<1>1. /\ UNCHANGED <<recoding, systematic, redundancy, recoder, decoder, undecoded, delivered, lostFrames>>
      /\ block' \in Seq(Nat) /\ BlockInv' /\ next' = next + 1 /\ generation' \in [Coders -> Nat]
  BY EncodeKeepsBlock DEF Encode, ChainBase
<1>2. link' \in [{"recoder", "decoder"} -> Seq(FrameType)]
  <2>1. PICK g \in Seq(FrameType) : link' = [link EXCEPT !["recoder"] = @ \o g]
    BY EncodeSends DEF ChainBase, Written
  <2>2. link["recoder"] \o g \in Seq(FrameType)
    BY Joined DEF ChainBase, ChainTypeOK
  <2>3. QED
    BY <2>1, <2>2 DEF ChainBase, ChainTypeOK
<1>3. ChainTypeOK'
  BY <1>1, <1>2 DEF ChainBase, ChainTypeOK
<1>4. QED
  BY <1>1, <1>3 DEF ChainBase

LEMMA OamKeepsBase ==
  ASSUME ChainBase, OamEncoder \/ OamRecoder
  PROVE  ChainBase'
<1>1. UNCHANGED <<recoding, systematic, next, block, generation, link, recoder, decoder,
                  undecoded, delivered, lostFrames>>
  BY DEF OamEncoder, OamRecoder
<1>2. redundancy' \in [{"encoder", "recoder"} -> Nat]
  <2>1. CASE OamEncoder
    BY <2>1, ChainAssumption DEF OamEncoder, ChainBase, ChainTypeOK
  <2>2. CASE OamRecoder
    <3>1. 2^24 \in Nat /\ 2^24 > 0 /\ 2^8 \in Nat /\ 2^8 > 0
      OBVIOUS
    <3>2. \A r, s, t \in Nat : s > 0 /\ t > 0 => (r \div s) % t \in Nat
      OBVIOUS
    <3>3. PICK r \in OamValues : redundancy' = [redundancy EXCEPT !["recoder"] = (r \div 2^24) % 2^8]
      BY <2>2 DEF OamRecoder
    <3>4. r \in Nat
      BY ChainAssumption
    <3>5. (r \div 2^24) % 2^8 \in Nat
      BY <3>1, <3>2, <3>4
    <3>6. QED
      BY <3>3, <3>5 DEF ChainBase, ChainTypeOK
  <2>3. QED
    BY <2>1, <2>2
<1>3. QED
  BY <1>1, <1>2 DEF ChainBase, ChainTypeOK, BlockInv

LEMMA RelayKeepsBase ==
  ASSUME ChainBase, Forward \/ Recode \/ \E c \in {"recoder", "decoder"} : LoseFrame(c)
  PROVE  ChainBase'
<1>1. /\ UNCHANGED <<recoding, systematic, next, block, redundancy, decoder, undecoded, delivered>>
      /\ generation'["encoder"] = generation["encoder"]
  BY DEF Forward, Recode, LoseFrame, ChainBase, ChainTypeOK, Coders
<1>2. /\ link["recoder"] \in Seq(FrameType) /\ link["decoder"] \in Seq(FrameType)
      /\ link["recoder"] # <<>> => Tail(link["recoder"]) \in Seq(FrameType) /\ Head(link["recoder"]) \in FrameType
      /\ link["decoder"] # <<>> => Tail(link["decoder"]) \in Seq(FrameType)
  BY Taken DEF ChainBase, ChainTypeOK
<1>3. CASE Forward
  <2>1. link' \in [{"recoder", "decoder"} -> Seq(FrameType)]
    <3>1. Append(link["decoder"], Head(link["recoder"])) \in Seq(FrameType)
      BY <1>2, <1>3, AppendProperties DEF Forward
    <3>2. QED
      BY <1>2, <1>3, <3>1, LinksAreTyped DEF Forward
  <2>2. generation' = generation /\ recoder' = recoder /\ lostFrames' = lostFrames
    BY <1>3 DEF Forward
  <2>3. QED
    BY <1>1, <2>1, <2>2 DEF ChainBase, ChainTypeOK, BlockInv
<1>4. CASE Recode
  <2>1. recoder' \subseteq RowType /\ Head(link["recoder"]).gen \in Nat /\ link["recoder"] # <<>>
    BY <1>4, RecodeSends DEF ChainBase, FrameType
  <2>2. PICK g \in Seq(FrameType) :
          link' = [recoder |-> Tail(link["recoder"]), decoder |-> link["decoder"] \o g]
    BY <1>4, RecodeSends DEF ChainBase
  <2>3. link["decoder"] \o g \in Seq(FrameType)
    BY <1>2, Joined
  <2>4. link' \in [{"recoder", "decoder"} -> Seq(FrameType)]
    BY <1>2, <2>1, <2>2, <2>3, LinksAreTyped
  <2>5. generation' \in [Coders -> Nat] /\ lostFrames' = lostFrames
    BY <1>4, <2>1 DEF Recode, ChainBase, ChainTypeOK
  <2>6. QED
    BY <1>1, <2>1, <2>4, <2>5 DEF ChainBase, ChainTypeOK, BlockInv
<1>5. CASE \E c \in {"recoder", "decoder"} : LoseFrame(c)
  <2>1. link' \in [{"recoder", "decoder"} -> Seq(FrameType)]
    BY <1>2, <1>5 DEF LoseFrame, ChainBase, ChainTypeOK
  <2>2. generation' = generation /\ recoder' = recoder /\ lostFrames' = lostFrames + 1
    BY <1>5 DEF LoseFrame
  <2>3. QED
    BY <1>1, <2>1, <2>2 DEF ChainBase, ChainTypeOK, BlockInv
<1>6. QED
  BY <1>3, <1>4, <1>5

LEMMA DecodeKeepsBase ==
  ASSUME ChainBase, Decode
  PROVE  ChainBase'
<1> DEFINE f == Head(link["decoder"])
<1>1. /\ link["decoder"] # <<>> /\ f \in FrameType
      /\ link' = [link EXCEPT !["decoder"] = Tail(@)]
      /\ generation' = IF Restarts(f.gen) THEN [generation EXCEPT !["decoder"] = f.gen] ELSE generation
  BY DecodeGives DEF ChainBase
<1>2. PICK out : Decoding(Before(f.gen), Unsent(f.gen), out)
  BY DecodeGives DEF ChainBase
<1>3. UNCHANGED <<recoding, systematic, next, block, redundancy, recoder, lostFrames>>
  BY DEF Decode
<1>4. link' \in [{"recoder", "decoder"} -> Seq(FrameType)]
  <2>1. Tail(link["decoder"]) \in Seq(FrameType)
    BY <1>1, Taken DEF ChainBase, ChainTypeOK
  <2>2. QED
    BY <1>1, <2>1 DEF ChainBase, ChainTypeOK
<1>5. generation' \in [Coders -> Nat] /\ generation'["encoder"] = generation["encoder"]
  BY <1>1 DEF ChainBase, ChainTypeOK, FrameType, Coders
<1>6. decoder' \subseteq RowType
  <2>1. Before(f.gen) \subseteq RowType /\ f.row \in RowType
    BY <1>1, SumIsTyped DEF Before, ChainBase, ChainTypeOK, FrameType
  <2>2. QED
    BY <1>2, <2>1, SumIsTyped DEF Decoding, Learned, Extended
<1>7. delivered' \in Seq(SUBSET Nat)
  <2> DEFINE t == [k \in DOMAIN out |-> Symbol(decoder', out[k])]
  <2>1. Len(out) \in Nat /\ DOMAIN out = 1 .. Len(out) /\ ToSet(out) \subseteq Decodable(decoder')
    BY <1>2, LenProperties DEF Decoding
  <2>2. ASSUME NEW k \in 1 .. Len(out) PROVE Symbol(decoder', out[k]) \in SUBSET Nat
    <3>1. out[k] \in Decodable(decoder')
      BY <2>1 DEF ToSet
    <3>2. \E s \in decoder' : s.coef = {out[k]}
      BY <3>1 DEF Decodable
    <3>3. (CHOOSE s \in decoder' : s.coef = {out[k]}) \in decoder'
      BY <3>2
    <3>4. QED
      BY <1>6, <3>3 DEF Symbol, RowType
  <2>3. t \in Seq(SUBSET Nat)
    BY <2>1, <2>2, IsASeq
  <2> HIDE DEF t
  <2>4. delivered \o t \in Seq(SUBSET Nat)
    BY <2>3, Joined DEF ChainBase, ChainTypeOK
  <2>5. QED
    BY <1>2, <2>4 DEF Decoding, t
<1>8. ChainTypeOK'
  BY <1>2, <1>3, <1>4, <1>5, <1>6, <1>7 DEF ChainBase, ChainTypeOK, Decoding
<1>9. QED
  BY <1>3, <1>5, <1>8 DEF ChainBase, BlockInv

LEMMA NextKeepsBase == ChainBase /\ [ChainNext]_chainVars => ChainBase'
<1>1. ASSUME ChainBase, UNCHANGED chainVars PROVE ChainBase'
  BY <1>1 DEF chainVars, ChainBase, ChainTypeOK, BlockInv
<1>2. QED
  BY <1>1, EncodeKeepsBase, OamKeepsBase, RelayKeepsBase, DecodeKeepsBase DEF ChainNext

----------------------------------------------------------------------------
(* Frames and the packets they were written after.                         *)

\* The frames fs of a link were written when the encoder had got the packets s, one after the
\* other, and are combinations of one generation each.
IsFrame(f, n) ==
  n # 0 /\ f.gen = Number(AgeOf(n)) /\ f.row \in Rows(AgeOf(n), Indices)

OnLink(s, fs) ==
  /\ s \in Seq(Nat) /\ Len(s) = Len(fs)
  /\ \A k \in DOMAIN s : IsFrame(fs[k], s[k])
  /\ \A i, j \in DOMAIN s : i <= j => s[i] <= s[j]

Copies(n, l) == [k \in 1 .. l |-> n]

LEMMA OnLinkTail ==
  ASSUME NEW fs \in Seq(FrameType), fs # <<>>, NEW s, OnLink(s, fs)
  PROVE  /\ OnLink(Tail(s), Tail(fs)) /\ s # <<>> /\ s[1] \in Nat \ {0}
         /\ IsFrame(Head(fs), s[1])
         /\ ToSet(s) = ToSet(Tail(s)) \cup {s[1]}
         /\ \A x \in ToSet(s) : s[1] <= x
<1>1. /\ Tail(fs) \in Seq(FrameType) /\ Len(Tail(fs)) = Len(fs) - 1 /\ Len(fs) \in Nat \ {0}
      /\ Head(fs) = fs[1]
      /\ \A i \in 1 .. Len(fs) - 1 : Tail(fs)[i] = fs[i + 1]
  BY Taken
<1>2. s # <<>> /\ s \in Seq(Nat) /\ Len(s) = Len(fs)
  BY <1>1 DEF OnLink
<1>3. /\ Tail(s) \in Seq(Nat) /\ Len(Tail(s)) = Len(s) - 1
      /\ DOMAIN s = 1 .. Len(s) /\ DOMAIN Tail(s) = 1 .. Len(s) - 1
      /\ \A i \in 1 .. Len(s) - 1 : Tail(s)[i] = s[i + 1]
      /\ s[1] \in Nat
  BY <1>2, Taken
<1> DEFINE t == Tail(s)
           ft == Tail(fs)
<1> HIDE DEF t, ft
<1>4. \A i \in DOMAIN t : i + 1 \in DOMAIN s /\ t[i] = s[i + 1] /\ ft[i] = fs[i + 1]
  BY <1>1, <1>2, <1>3 DEF t, ft
<1>5. OnLink(t, ft)
  <2>1. t \in Seq(Nat) /\ Len(t) = Len(ft) /\ DOMAIN t \subseteq Nat
    BY <1>1, <1>2, <1>3 DEF t, ft
  <2>2. \A i, j \in DOMAIN t : i <= j => i + 1 <= j + 1
    BY <2>1
  <2>3. QED
    BY <1>4, <2>1, <2>2 DEF OnLink
<1>6. 1 \in DOMAIN s /\ \A i \in DOMAIN s : 1 <= i
  BY <1>1, <1>2, <1>3
<1>7. IsFrame(Head(fs), s[1]) /\ \A x \in ToSet(s) : s[1] <= x
  BY <1>1, <1>6 DEF OnLink, ToSet
<1>8. ToSet(s) = ToSet(t) \cup {s[1]}
  <2>1. \A i \in DOMAIN s : i = 1 \/ (i - 1 \in DOMAIN t /\ t[i - 1] = s[i])
    BY <1>1, <1>2, <1>3 DEF t
  <2>2. QED
    BY <1>4, <1>6, <2>1 DEF ToSet
<1>9. s[1] # 0
  BY <1>7 DEF IsFrame
<1>10. QED
  BY <1>2, <1>3, <1>5, <1>7, <1>8, <1>9 DEF t, ft

\* Frames g written after packet n, sent one after the other.
Batch(g, n) ==
  g \in Seq(FrameType) /\ Len(g) # 0 /\ \A k \in 1 .. Len(g) : IsFrame(g[k], n)

NoneAfter(s, n) == \A x \in ToSet(s) : x <= n

LEMMA OnLinkAppend ==
  ASSUME NEW fs \in Seq(FrameType), NEW s, OnLink(s, fs), NEW n \in Nat, NoneAfter(s, n),
         NEW g, Batch(g, n)
  PROVE  /\ OnLink(s \o Copies(n, Len(g)), fs \o g)
         /\ ToSet(s \o Copies(n, Len(g))) = ToSet(s) \cup {n}
<1> DEFINE c == Copies(n, Len(g))
<1>1. g \in Seq(FrameType) /\ Len(g) \in Nat /\ Len(g) # 0
  BY LenProperties DEF Batch
<1>2. c \in Seq(Nat) /\ Len(c) = Len(g) /\ \A k \in 1 .. Len(g) : c[k] = n
  BY <1>1, IsASeq DEF Copies
<1>3. s \in Seq(Nat) /\ Len(s) = Len(fs)
  BY DEF OnLink
<1> HIDE DEF c
<1> DEFINE t == s \o c
           ft == fs \o g
<1>4. /\ t \in Seq(Nat) /\ Len(t) = Len(s) + Len(c) /\ Len(s) \in Nat
      /\ DOMAIN s = 1 .. Len(s) /\ DOMAIN t = 1 .. Len(s) + Len(c)
      /\ \A i \in 1 .. Len(s) : t[i] = s[i]
      /\ \A i \in 1 .. Len(c) : t[Len(s) + i] = c[i]
  <2>1. s \in Seq(Nat) /\ c \in Seq(Nat)
    BY <1>2, <1>3
  <2>2. /\ s \o c \in Seq(Nat) /\ Len(s \o c) = Len(s) + Len(c)
        /\ Len(s) \in Nat /\ DOMAIN s = 1 .. Len(s) /\ DOMAIN (s \o c) = 1 .. Len(s) + Len(c)
        /\ \A i \in 1 .. Len(s) : (s \o c)[i] = s[i]
        /\ \A i \in 1 .. Len(c) : (s \o c)[Len(s) + i] = c[i]
    BY ONLY <2>1, Joined
  <2>3. QED
    BY <2>2
<1>5. /\ Len(ft) = Len(fs) + Len(g)
      /\ \A i \in 1 .. Len(fs) : ft[i] = fs[i]
      /\ \A i \in 1 .. Len(g) : ft[Len(fs) + i] = g[i]
  BY <1>1, Joined
<1> HIDE DEF t, ft
<1>6. \A i \in DOMAIN t : \/ i \in DOMAIN s /\ t[i] = s[i] /\ ft[i] = fs[i]
                          \/ /\ i \notin DOMAIN s /\ t[i] = n
                             /\ i - Len(s) \in 1 .. Len(g) /\ ft[i] = g[i - Len(s)]
  <2> SUFFICES ASSUME NEW i \in DOMAIN t
               PROVE  \/ i \in DOMAIN s /\ t[i] = s[i] /\ ft[i] = fs[i]
                      \/ /\ i \notin DOMAIN s /\ t[i] = n
                         /\ i - Len(s) \in 1 .. Len(g) /\ ft[i] = g[i - Len(s)]
    OBVIOUS
  <2>1. CASE i \in 1 .. Len(s)
    BY <1>3, <1>4, <1>5, <2>1
  <2>2. CASE i \notin 1 .. Len(s)
    <3>1. i - Len(s) \in 1 .. Len(g) /\ Len(s) + (i - Len(s)) = i
      BY <1>1, <1>2, <1>4, <2>2
    <3>2. t[i] = c[i - Len(s)] /\ ft[i] = g[i - Len(s)]
      BY <1>2, <1>3, <1>4, <1>5, <3>1
    <3>3. QED
      BY <1>2, <1>4, <2>2, <3>1, <3>2
  <2>3. QED
    BY <2>1, <2>2
<1>7. \A i \in DOMAIN t : IsFrame(ft[i], t[i])
  BY <1>6 DEF OnLink, Batch
<1>8. ASSUME NEW i \in DOMAIN t, NEW j \in DOMAIN t, i <= j PROVE t[i] <= t[j]
  <2>1. j \in DOMAIN s => i \in DOMAIN s
    BY <1>4, <1>8
  <2>2. \A x \in DOMAIN s : s[x] <= n
    BY DEF ToSet, NoneAfter
  <2>3. QED
    BY <1>6, <1>8, <2>1, <2>2 DEF OnLink
<1>9. ToSet(t) = ToSet(s) \cup {n}
  <2>1. Len(s) + 1 \in DOMAIN t /\ Len(s) + 1 \notin DOMAIN s /\ DOMAIN s \subseteq DOMAIN t
    BY <1>1, <1>2, <1>4
  <2>2. t[Len(s) + 1] = n
    BY <1>6, <2>1
  <2>3. ASSUME NEW x \in ToSet(t) PROVE x \in ToSet(s) \cup {n}
    <3>1. PICK i \in DOMAIN t : t[i] = x
      BY DEF ToSet
    <3>2. QED
      BY <1>6, <3>1 DEF ToSet
  <2>4. ASSUME NEW x \in ToSet(s) PROVE x \in ToSet(t)
    <3>1. PICK i \in DOMAIN s : s[i] = x
      BY DEF ToSet
    <3>2. i \in DOMAIN t /\ t[i] = x
      BY <1>6, <2>1, <3>1
    <3>3. QED
      BY <3>2 DEF ToSet
  <2>5. n \in ToSet(t)
    BY <2>1, <2>2 DEF ToSet
  <2>6. QED
    BY <2>3, <2>4, <2>5
<1>10. OnLink(t, ft)
  BY <1>2, <1>3, <1>4, <1>5, <1>7, <1>8 DEF OnLink
<1>11. QED
  BY <1>9, <1>10 DEF t, ft, c

\* The last packet of s, or m if there is none.
Newest(m, s) == IF s = <<>> THEN m ELSE s[Len(s)]

\* A frame with the coefficients c, written after packet n: it is the first one of the packet
\* that follows m and holds it alone, or packet n is m, and c is no news after packet m.
Follows(m, n, c) == c \subseteq 1 .. Place(n) /\ (n = m \/ (n = m + 1 /\ c = {Place(n)}))

\* So does each frame on a link follow the one before, the first one m.
Follow(m, s, fs) ==
  \A k \in DOMAIN s : Follows(IF k = 1 THEN m ELSE s[k - 1], s[k], fs[k].row.coef)

LEMMA FollowTail ==
  ASSUME NEW fs \in Seq(FrameType), NEW s \in Seq(Nat), s # <<>>, Len(s) = Len(fs),
         NEW m \in Nat, Follow(m, s, fs)
  PROVE  /\ Follows(m, s[1], Head(fs).row.coef)
         /\ Follow(s[1], Tail(s), Tail(fs))
         /\ Newest(s[1], Tail(s)) = Newest(m, s)
<1>1. /\ Tail(s) \in Seq(Nat) /\ Len(Tail(s)) = Len(s) - 1 /\ Len(s) \in Nat \ {0}
      /\ DOMAIN s = 1 .. Len(s) /\ DOMAIN Tail(s) = 1 .. Len(s) - 1
      /\ \A i \in 1 .. Len(s) - 1 : Tail(s)[i] = s[i + 1]
  BY Taken
<1>2. fs # <<>>
  BY <1>1
<1>3. /\ Head(fs) = fs[1]
      /\ \A i \in 1 .. Len(fs) - 1 : Tail(fs)[i] = fs[i + 1]
  BY <1>2, Taken
<1>4. Follows(m, s[1], Head(fs).row.coef)
  BY <1>1, <1>3 DEF Follow
<1> DEFINE t == Tail(s)
           ft == Tail(fs)
<1>5. ASSUME NEW k \in DOMAIN t
      PROVE  Follows(IF k = 1 THEN s[1] ELSE t[k - 1], t[k], ft[k].row.coef)
  <2>1. k + 1 \in DOMAIN s /\ k + 1 # 1 /\ (k + 1) - 1 = k /\ t[k] = s[k + 1] /\ ft[k] = fs[k + 1]
    BY <1>1, <1>3
  <2>2. s[k] = IF k = 1 THEN s[1] ELSE t[k - 1]
    BY <1>1
  <2>3. Follows(s[k], s[k + 1], fs[k + 1].row.coef)
    BY <2>1 DEF Follow
  <2>4. QED
    BY <2>1, <2>2, <2>3
<1>6. Newest(s[1], t) = Newest(m, s)
  <2>1. CASE Len(s) = 1
    <3>1. t = <<>>
      BY <1>1, <2>1, EmptySeq
    <3>2. QED
      BY <2>1, <3>1 DEF Newest
  <2>2. CASE Len(s) # 1
    <3>0. Len(s) - 1 \in 1 .. Len(s) - 1 /\ (Len(s) - 1) + 1 = Len(s)
      BY <1>1, <2>2
    <3>1. Len(s) - 1 \in DOMAIN t /\ t # <<>> /\ (Len(s) - 1) + 1 = Len(s)
      <4>1. DOMAIN <<>> = {} /\ DOMAIN t = 1 .. Len(s) - 1
        BY <1>1
      <4> HIDE DEF t
      <4>2. QED
        BY <3>0, <4>1
    <3>2. t[Len(s) - 1] = s[Len(s)] /\ Len(t) = Len(s) - 1
      BY <1>1, <3>1
    <3> HIDE DEF t
    <3>3. QED
      BY <3>1, <3>2 DEF Newest
  <2>3. QED
    BY <2>1, <2>2
<1>7. QED
  BY <1>4, <1>5, <1>6 DEF Follow

\* Frames g written after packet n follow m.
BatchFollows(m, g, n) ==
  /\ Follows(m, n, g[1].row.coef)
  /\ \A k \in 2 .. Len(g) : g[k].row.coef \subseteq 1 .. Place(n)

LEMMA FollowAppend ==
  ASSUME NEW fs \in Seq(FrameType), NEW s, OnLink(s, fs),
         NEW m \in Nat, Follow(m, s, fs), NEW n \in Nat,
         NEW g, Batch(g, n), BatchFollows(Newest(m, s), g, n)
  PROVE  /\ Follow(m, s \o Copies(n, Len(g)), fs \o g)
         /\ Newest(m, s \o Copies(n, Len(g))) = n
<1> DEFINE c == Copies(n, Len(g))
<1>0. g \in Seq(FrameType) /\ s \in Seq(Nat) /\ Len(s) = Len(fs)
  BY DEF Batch, OnLink
<1>1. Len(g) \in Nat \ {0}
  BY <1>0, LenProperties DEF Batch
<1>2. c \in Seq(Nat) /\ Len(c) = Len(g) /\ \A k \in 1 .. Len(g) : c[k] = n
  BY <1>1, IsASeq DEF Copies
<1> HIDE DEF c
<1> DEFINE t == s \o c
           ft == fs \o g
<1>3. /\ t \in Seq(Nat) /\ Len(t) = Len(s) + Len(c) /\ Len(s) \in Nat
      /\ DOMAIN s = 1 .. Len(s) /\ DOMAIN t = 1 .. Len(s) + Len(c)
      /\ \A i \in 1 .. Len(s) : t[i] = s[i]
      /\ \A i \in 1 .. Len(c) : t[Len(s) + i] = c[i]
  <2>1. s \in Seq(Nat) /\ c \in Seq(Nat)
    BY <1>0, <1>2
  <2>2. /\ s \o c \in Seq(Nat) /\ Len(s \o c) = Len(s) + Len(c)
        /\ Len(s) \in Nat /\ DOMAIN s = 1 .. Len(s) /\ DOMAIN (s \o c) = 1 .. Len(s) + Len(c)
        /\ \A i \in 1 .. Len(s) : (s \o c)[i] = s[i]
        /\ \A i \in 1 .. Len(c) : (s \o c)[Len(s) + i] = c[i]
    BY ONLY <2>1, Joined
  <2>3. QED
    BY <2>2
<1>4. /\ \A i \in 1 .. Len(fs) : ft[i] = fs[i]
      /\ \A i \in 1 .. Len(g) : ft[Len(fs) + i] = g[i]
  BY <1>0, Joined
<1> HIDE DEF t, ft
<1>5. Newest(m, t) = n
  <2>1. Len(t) \in DOMAIN t /\ t[Len(t)] = n
    <3>1. Len(t) = Len(s) + Len(g) /\ Len(g) \in 1 .. Len(c)
      BY <1>1, <1>2, <1>3
    <3>2. \A a \in Nat, b \in Nat \ {0} : a + b \in 1 .. a + b
      OBVIOUS
    <3>3. Len(t) \in DOMAIN t
      BY <1>1, <1>2, <1>3, <3>1, <3>2
    <3>4. t[Len(s) + Len(g)] = n
      BY <1>2, <1>3, <3>1
    <3>5. QED
      BY <3>1, <3>3, <3>4
  <2>2. t # <<>>
    BY <2>1
  <2>3. QED
    BY <2>1, <2>2 DEF Newest
<1>6. ASSUME NEW k \in DOMAIN t
      PROVE  Follows(IF k = 1 THEN m ELSE t[k - 1], t[k], ft[k].row.coef)
  <2>1. CASE k \in 1 .. Len(s)
    <3>1. t[k] = s[k] /\ ft[k] = fs[k] /\ k \in DOMAIN s
      BY <1>0, <1>3, <1>4, <2>1
    <3>2. k # 1 => t[k - 1] = s[k - 1]
      BY <1>3, <2>1
    <3>3. QED
      BY <3>1, <3>2 DEF Follow
  <2>2. CASE k = Len(s) + 1
    <3>1. t[k] = n /\ ft[k] = g[1]
      <4>1. 1 \in 1 .. Len(g)
        BY <1>1
      <4>2. t[Len(s) + 1] = n
        BY <1>2, <1>3, <4>1
      <4>3. ft[Len(fs) + 1] = g[1]
        BY <1>4, <4>1
      <4>4. QED
        BY <1>0, <2>2, <4>2, <4>3
    <3>2. (IF k = 1 THEN m ELSE t[k - 1]) = Newest(m, s)
      <4>1. CASE s = <<>>
        <5>1. Len(s) = 0
          BY <4>1
        <5>2. QED
          BY <2>2, <4>1, <5>1 DEF Newest
      <4>2. CASE s # <<>>
        <5>1. Len(s) # 0
          BY <1>3, <4>2, EmptySeq
        <5>2. k # 1 /\ k - 1 = Len(s) /\ t[k - 1] = s[Len(s)]
          BY <1>3, <2>2, <5>1
        <5>3. QED
          BY <4>2, <5>2 DEF Newest
      <4>3. QED
        BY <4>1, <4>2
    <3>3. QED
      BY <3>1, <3>2 DEF BatchFollows
  <2>3. CASE k \notin 1 .. Len(s) /\ k # Len(s) + 1
    <3>1. /\ k - Len(s) \in 2 .. Len(g) /\ Len(s) + (k - Len(s)) = k
          /\ (k - Len(s)) - 1 \in 1 .. Len(g) /\ Len(s) + ((k - Len(s)) - 1) = k - 1 /\ k # 1
      <4>1. \A a, b \in Nat : \A i \in 1 .. a + b : i \notin 1 .. a /\ i # a + 1 =>
              /\ i - a \in 2 .. b /\ a + (i - a) = i
              /\ (i - a) - 1 \in 1 .. b /\ a + ((i - a) - 1) = i - 1 /\ i # 1
        OBVIOUS
      <4> DEFINE a == Len(s)
                 b == Len(g)
      <4>2. /\ k \in 1 .. a + b /\ a \in Nat /\ b \in Nat /\ k \notin 1 .. a /\ k # a + 1
        BY <1>1, <1>2, <1>3, <2>3
      <4> HIDE DEF a, b
      <4>3. /\ k - a \in 2 .. b /\ a + (k - a) = k
            /\ (k - a) - 1 \in 1 .. b /\ a + ((k - a) - 1) = k - 1 /\ k # 1
        BY ONLY <4>1, <4>2
      <4>4. QED
        BY <4>3 DEF a, b
    <3>2. k - Len(s) \in 1 .. Len(g)
      BY <3>1
    <3>3. t[k] = n /\ t[k - 1] = n /\ ft[k] = g[k - Len(s)]
      <4>1. t[Len(s) + (k - Len(s))] = n
        BY <1>2, <1>3, <3>2
      <4>2. t[Len(s) + ((k - Len(s)) - 1)] = n
        BY <1>2, <1>3, <3>1
      <4>3. ft[Len(s) + (k - Len(s))] = g[k - Len(s)]
        BY <1>0, <1>4, <3>2
      <4>4. QED
        BY <1>0, <3>1, <4>1, <4>2, <4>3
    <3>4. g[k - Len(s)].row.coef \subseteq 1 .. Place(n)
      BY <3>1 DEF BatchFollows
    <3>5. QED
      BY <3>1, <3>3, <3>4 DEF Follows
  <2>4. QED
    BY <2>1, <2>2, <2>3
<1>7. QED
  BY <1>5, <1>6 DEF Follow, t, ft, c

----------------------------------------------------------------------------
(* What the coders know of the packets.                                    *)

\* As long as the generation numbers tell the generations apart.
Steady ==
  \/ \A p \in 1 .. next - 1 : Age(p) <= MaxGeneration
  \/ ~recoding /\ lostFrames < Symbols

\* The frames on the links stand for the packets d and r, the last one decoded for packet h:
\* the packets are passed on in their order.
Numbers(d, r, h) ==
  /\ OnLink(d, link["decoder"]) /\ OnLink(r, link["recoder"])
  /\ h \in Nat /\ h < next
  /\ \A x \in ToSet(d) \cup ToSet(r) : h <= x /\ x < next
  /\ \A x \in ToSet(d), y \in ToSet(r) : x <= y

\* A packet of a later generation that no frame on the links was written after: each of them
\* stands for a frame that was lost.
Missed(d, r, h) == {p \in 1 .. next - 1 : AgeOf(p) > AgeOf(h) /\ p \notin ToSet(d) \cup ToSet(r)}

FewMissed(d, r, h) == Cardinality(Missed(d, r, h)) <= lostFrames

\* The recoder holds combinations of one generation, none of a later one than it will get.
RecoderInv(r) ==
  IF recoding
  THEN /\ recoder \subseteq Rows(generation["recoder"], Indices)
       /\ generation["recoder"] <= AgeOf(next)
       /\ \A y \in ToSet(r) : generation["recoder"] <= AgeOf(y)
  ELSE recoder = {Zero}

DecoderInv(h) ==
  /\ generation["decoder"] = Number(AgeOf(h))
  /\ decoder \subseteq Rows(AgeOf(h), Indices)

\* What was delivered are packets of the generations so far, those of this one no longer to be
\* decoded; each once and generation after generation.
Sent(p, h) ==
  p # 0 /\ AgeOf(p) <= AgeOf(h) /\ (AgeOf(p) = AgeOf(h) => Place(p) \notin ToSet(undecoded))

DeliveredInv(h) ==
  /\ \A k \in DOMAIN delivered : \E p \in Nat : delivered[k] = {p} /\ Sent(p, h)
  /\ \A j, k \in DOMAIN delivered : j < k =>
       /\ delivered[j] # delivered[k]
       /\ \A p \in delivered[j], q \in delivered[k] : AgeOf(p) <= AgeOf(q)

\* Without loss each coder knows all combinations of the packets of the generation so far.
LosslessInv(d, r, h) ==
  /\ Follow(h, d, link["decoder"]) /\ Follow(Newest(h, d), r, link["recoder"])
  /\ Newest(Newest(h, d), r) = next - 1
  /\ recoding => /\ generation["recoder"] = AgeOf(Newest(h, d))
                 /\ recoder \subseteq Rows(AgeOf(Newest(h, d)), 1 .. Place(Newest(h, d)))
  /\ decoder = Rows(AgeOf(h), 1 .. Place(h))
  /\ ToSet(undecoded) = {i \in Indices : i > Place(h)}
  /\ UNION ToSet(delivered) = 1 .. h

Consistent(d, r, h) ==
  /\ Numbers(d, r, h) /\ FewMissed(d, r, h)
  /\ RecoderInv(r) /\ DecoderInv(h) /\ DeliveredInv(h)
  /\ systematic /\ lostFrames = 0 => LosslessInv(d, r, h)

ChainInv == ChainBase /\ (Steady => \E d, r, h : Consistent(d, r, h))

LEMMA SteadyBefore ==
  ASSUME ChainTypeOK, ChainNext, Steady'
  PROVE  Steady
<1>1. /\ recoding' = recoding
      /\ next' = next \/ next' = next + 1
      /\ lostFrames' = lostFrames \/ lostFrames' = lostFrames + 1
  BY DEF ChainNext, Encode, OamEncoder, Forward, Recode, OamRecoder, Decode, LoseFrame
<1>2. next \in Nat /\ lostFrames \in Nat /\ Symbols \in Nat
  BY ChainAssumption DEF ChainTypeOK
<1>3. CASE \A p \in 1 .. next' - 1 : Age(p) <= MaxGeneration
  BY <1>1, <1>2, <1>3 DEF Steady
<1>4. CASE ~recoding' /\ lostFrames' < Symbols
  BY <1>1, <1>2, <1>4 DEF Steady
<1>5. QED
  BY <1>3, <1>4 DEF Steady

LEMMA MissedIsFinite ==
  ASSUME NEW d, NEW r, NEW h, next \in Nat
  PROVE  IsFiniteSet(Missed(d, r, h)) /\ Cardinality(Missed(d, r, h)) \in Nat
<1>1. IsFiniteSet(1 .. next - 1)
  BY FS_Interval
<1>2. Missed(d, r, h) \in SUBSET (1 .. next - 1)
  BY DEF Missed
<1>3. QED
  BY <1>1, <1>2, FS_Subset, FS_CardinalityType

\* No more packets are missed, or one more when a frame is lost.
LEMMA StillFewMissed ==
  ASSUME ChainTypeOK, NEW d, NEW r, NEW h, FewMissed(d, r, h),
         NEW M \in SUBSET Missed(d, r, h)
  PROVE  Cardinality(M) <= lostFrames
<1> DEFINE S == Missed(d, r, h)
<1>1. IsFiniteSet(S) /\ Cardinality(S) \in Nat /\ Cardinality(S) <= lostFrames /\ lostFrames \in Nat
  BY MissedIsFinite DEF ChainTypeOK, FewMissed
<1> HIDE DEF S
<1>2. M \in SUBSET S
  BY DEF S
<1>3. Cardinality(M) <= Cardinality(S) /\ IsFiniteSet(M)
  BY <1>1, <1>2, FS_Subset
<1>4. Cardinality(M) \in Nat
  BY <1>3, FS_CardinalityType
<1>5. QED
  BY <1>1, <1>3, <1>4

LEMMA OneMoreMissed ==
  ASSUME ChainTypeOK, NEW d, NEW r, NEW h, FewMissed(d, r, h),
         NEW n, NEW M \in SUBSET (Missed(d, r, h) \cup {n})
  PROVE  Cardinality(M) <= lostFrames + 1
<1> DEFINE S == Missed(d, r, h)
           Q == S \cup {n}
<1>1. IsFiniteSet(S) /\ Cardinality(S) \in Nat /\ Cardinality(S) <= lostFrames /\ lostFrames \in Nat
  BY MissedIsFinite DEF ChainTypeOK, FewMissed
<1>2. IsFiniteSet(Q) /\ Cardinality(Q) \in Nat /\ Cardinality(Q) <= Cardinality(S) + 1
  <2> HIDE DEF S
  <2>1. /\ IsFiniteSet(Q)
        /\ Cardinality(Q) = IF n \in S THEN Cardinality(S) ELSE Cardinality(S) + 1
    BY <1>1, FS_AddElement
  <2>2. QED
    BY <1>1, <2>1
<1>3. M \in SUBSET Q
  OBVIOUS
<1> HIDE DEF S, Q
<1>4. Cardinality(M) <= Cardinality(Q) /\ Cardinality(M) \in Nat
  BY <1>2, <1>3, FS_Subset, FS_CardinalityType
<1>5. QED
  BY <1>1, <1>2, <1>4

LEMMA InitIsConsistent == ChainInit => Consistent(<<>>, <<>>, 0)
<1> SUFFICES ASSUME ChainInit PROVE Consistent(<<>>, <<>>, 0)
  OBVIOUS
<1>1. ToSet(<<>>) = {} /\ DOMAIN <<>> = {} /\ Len(<<>>) = 0 /\ <<>> \in Seq(Nat)
  BY EmptyIsSeq DEF ToSet
<1>2. AgeOf(0) = 0 /\ Place(0) = 0 /\ AgeOf(1) \in Nat
  BY AgeProperties
<1>3. Numbers(<<>>, <<>>, 0)
  BY <1>1 DEF ChainInit, Numbers, OnLink
<1>4. FewMissed(<<>>, <<>>, 0)
  <2>1. 1 .. next - 1 = {} /\ lostFrames = 0
    BY DEF ChainInit
  <2>2. Missed(<<>>, <<>>, 0) = {}
    BY <2>1 DEF Missed
  <2>3. QED
    BY <2>1, <2>2, FS_EmptySet DEF FewMissed
<1>5. {Zero} \subseteq Rows(0, Indices)
  BY ZeroIsRow
<1>6. generation["recoder"] = 0 /\ generation["decoder"] = 0
  BY DEF ChainInit, Coders
<1>7. RecoderInv(<<>>)
  BY <1>1, <1>2, <1>5, <1>6 DEF ChainInit, RecoderInv
<1>8. DecoderInv(0)
  <2>1. Number(0) = 0
    BY NumberProperties, ChainAssumption
  <2>2. QED
    BY <1>2, <1>5, <1>6, <2>1 DEF ChainInit, DecoderInv
<1>9. DeliveredInv(0)
  BY <1>1 DEF ChainInit, DeliveredInv
<1>10. LosslessInv(<<>>, <<>>, 0)
  <2>1. Newest(0, <<>>) = 0 /\ Newest(Newest(0, <<>>), <<>>) = 0
    BY DEF Newest
  <2>2. Follow(0, <<>>, link["decoder"]) /\ Follow(0, <<>>, link["recoder"])
    BY <1>1 DEF Follow
  <2>3. 1 .. Place(0) = {} /\ 1 .. 0 = {}
    BY <1>2
  <2>4. Rows(0, {}) = {Zero}
    BY DEF Rows, Row, Zero
  <2>5. \A i \in Indices : i > 0
    BY ChainAssumption DEF Indices
  <2>6. recoder = {Zero} /\ decoder = {Zero} /\ undecoded = AllIndices /\ delivered = <<>> /\ next - 1 = 0
    BY DEF ChainInit
  <2>7. UNION ToSet(delivered) = 1 .. 0
    BY <1>1, <2>3, <2>6
  <2>8. QED
    BY <1>2, <1>6, <2>1, <2>2, <2>3, <2>4, <2>5, <2>6, <2>7, AllIndicesList DEF LosslessInv
<1>11. QED
  BY <1>3, <1>4, <1>7, <1>8, <1>9, <1>10 DEF Consistent

\* The encoder writes frames of the next packet.
LEMMA EncodeIsConsistent ==
  ASSUME ChainBase, Encode, NEW d, NEW r, NEW h, Consistent(d, r, h)
  PROVE  \E x : Consistent(d, x, h)'
<1>0. ChainTypeOK /\ BlockInv
  BY DEF ChainBase
<1>1. PICK n : n = next
  OBVIOUS
<1>2. PICK f, g : Written(g, f, next) /\ link' = [link EXCEPT !["recoder"] = @ \o g]
  BY <1>0, EncodeSends
<1>3. Written(g, f, n)
  BY <1>1, <1>2
<1>4. /\ g \in Seq(FrameType) /\ Len(g) \in Nat \ {0}
      /\ f \in [1 .. Len(g) -> SUBSET (1 .. Place(n))]
      /\ \A k \in 1 .. Len(g) : g[k].gen = Number(AgeOf(n)) /\ g[k].row = Row(AgeOf(n), f[k])
      /\ systematic => f[1] = {Place(n)}
      /\ link' = [link EXCEPT !["recoder"] = @ \o g]
  BY <1>2, <1>3 DEF Written
<1>5. /\ UNCHANGED <<recoding, systematic, recoder, decoder, undecoded, delivered, lostFrames>>
      /\ next' = n + 1 /\ n \in Nat \ {0}
      /\ generation'["recoder"] = generation["recoder"]
      /\ generation'["decoder"] = generation["decoder"]
      /\ link'["decoder"] = link["decoder"] /\ link'["recoder"] = link["recoder"] \o g
  BY <1>0, <1>1, <1>4 DEF Encode, ChainTypeOK, Coders
<1>6. /\ Numbers(d, r, h) /\ FewMissed(d, r, h) /\ RecoderInv(r) /\ DecoderInv(h) /\ DeliveredInv(h)
      /\ systematic /\ lostFrames = 0 => LosslessInv(d, r, h)
  BY DEF Consistent
<1>7. AgeOf(n) \in Nat /\ 1 .. Place(n) \subseteq Indices
  <2>1. Place(n) \in Indices /\ AgeOf(n) \in Nat
    BY <1>5, AgeProperties
  <2>2. QED
    BY <2>1, ChainAssumption DEF Indices
<1>8. \A k \in 1 .. Len(g) : IsFrame(g[k], n) /\ g[k].row.coef = f[k] /\ f[k] \subseteq 1 .. Place(n)
  <2> SUFFICES ASSUME NEW k \in 1 .. Len(g)
               PROVE  IsFrame(g[k], n) /\ g[k].row.coef = f[k] /\ f[k] \subseteq 1 .. Place(n)
    OBVIOUS
  <2>1. f[k] \in SUBSET (1 .. Place(n))
    BY <1>4
  <2>2. g[k].row = Row(AgeOf(n), f[k]) /\ g[k].gen = Number(AgeOf(n))
    BY <1>4
  <2>3. Row(AgeOf(n), f[k]) \in Rows(AgeOf(n), Indices)
    BY <1>7, <2>1 DEF Rows
  <2>4. Row(AgeOf(n), f[k]).coef = f[k]
    BY DEF Row
  <2>5. QED
    BY <1>5, <2>1, <2>2, <2>3, <2>4 DEF IsFrame
<1>9. link["recoder"] \in Seq(FrameType) /\ link["decoder"] \in Seq(FrameType)
  BY <1>0 DEF ChainTypeOK
<1>10. OnLink(r, link["recoder"]) /\ r \in Seq(Nat) /\ Len(r) = Len(link["recoder"])
  BY <1>6 DEF Numbers, OnLink
<1>11. NoneAfter(r, n)
  <2>1. ToSet(r) \subseteq Nat
    BY <1>10, ElementOfSeq, LenProperties DEF ToSet
  <2>2. QED
    BY <1>1, <1>5, <1>6, <2>1 DEF Numbers, NoneAfter
<1> DEFINE x == r \o Copies(n, Len(g))
<1>12. Batch(g, n) /\ OnLink(x, link["recoder"] \o g) /\ ToSet(x) = ToSet(r) \cup {n}
  <2>1. Batch(g, n)
    BY <1>4, <1>8 DEF Batch
  <2> DEFINE fs == link["recoder"]
  <2>2. fs \in Seq(FrameType) /\ OnLink(r, fs) /\ n \in Nat /\ NoneAfter(r, n)
    BY <1>5, <1>9, <1>10, <1>11
  <2> HIDE DEF fs
  <2>3. /\ OnLink(r \o Copies(n, Len(g)), fs \o g)
        /\ ToSet(r \o Copies(n, Len(g))) = ToSet(r) \cup {n}
    BY ONLY <2>1, <2>2, OnLinkAppend
  <2>4. QED
    BY <2>1, <2>3 DEF fs
<1> HIDE DEF x
<1>13. d \in Seq(Nat) /\ ToSet(d) \subseteq Nat /\ ToSet(r) \subseteq Nat /\ h \in Nat
  <2>1. d \in Seq(Nat) /\ h \in Nat
    BY <1>6 DEF Numbers, OnLink
  <2>2. QED
    BY <1>10, <2>1, ElementOfSeq, LenProperties DEF ToSet
<1>14. Numbers(d, x, h)'
  <2>1. OnLink(d, link'["decoder"]) /\ OnLink(x, link'["recoder"])
    BY <1>5, <1>6, <1>12 DEF Numbers
  <2>2. h < n + 1 /\ \A y \in ToSet(d) \cup ToSet(r) \cup {n} : h <= y /\ y < n + 1
    BY <1>1, <1>5, <1>6, <1>13 DEF Numbers
  <2>3. \A y \in ToSet(d), z \in ToSet(r) \cup {n} : y <= z
    BY <1>1, <1>5, <1>6, <1>13 DEF Numbers
  <2>4. QED
    BY <1>5, <1>12, <1>13, <2>1, <2>2, <2>3 DEF Numbers
<1>15. FewMissed(d, x, h)'
  <2>1. Missed(d, x, h)' \subseteq Missed(d, r, h)
    <3>1. \A p \in 1 .. (n + 1) - 1 : p = n \/ p \in 1 .. n - 1
      BY <1>5
    <3>2. QED
      BY <1>1, <1>5, <1>12, <3>1 DEF Missed
  <2>2. PICK M : M = Missed(d, x, h)'
    OBVIOUS
  <2>3. Cardinality(M) <= lostFrames
    BY <1>0, <1>6, <2>1, <2>2, StillFewMissed
  <2>4. QED
    BY <1>5, <2>2, <2>3 DEF FewMissed
<1>16. RecoderInv(x)'
  <2>1. AgeOf(n) <= AgeOf(n + 1) /\ AgeOf(n + 1) \in Nat
    <3>1. n \in Nat /\ n + 1 \in Nat /\ n <= n + 1
      BY <1>5
    <3>2. QED
      BY <3>1, AgeIsMonotone, AgeProperties
  <2>2. recoding => generation["recoder"] \in Nat /\ generation["recoder"] <= AgeOf(n)
    BY <1>0, <1>1, <1>6 DEF RecoderInv, ChainTypeOK, Coders
  <2>3. recoding => generation["recoder"] <= AgeOf(n + 1)
    BY <1>7, <2>1, <2>2
  <2>4. QED
    BY <1>5, <1>6, <1>12, <2>2, <2>3 DEF RecoderInv
<1>17. DecoderInv(h)' /\ DeliveredInv(h)'
  BY <1>5, <1>6 DEF DecoderInv, DeliveredInv, Sent
<1>18. ASSUME systematic, lostFrames = 0 PROVE LosslessInv(d, x, h)'
  <2>1. LosslessInv(d, r, h)
    BY <1>6, <1>18
  <2> DEFINE m == Newest(h, d)
  <2>2. /\ Follow(h, d, link["decoder"]) /\ Follow(m, r, link["recoder"])
        /\ Newest(m, r) = n - 1
    BY <1>1, <2>1 DEF LosslessInv
  <2>3. m \in Nat
    <3>1. d # <<>> => d[Len(d)] \in Nat
      <4>1. d # <<>> => Len(d) \in 1 .. Len(d)
        BY <1>13, LenProperties, EmptySeq
      <4>2. QED
        BY <1>13, <4>1, ElementOfSeq
    <3>2. QED
      BY <1>13, <3>1 DEF Newest
  <2>4. Follows(Newest(m, r), n, g[1].row.coef)
    <3>1. g[1].row.coef = {Place(n)} /\ {Place(n)} \subseteq 1 .. Place(n)
      <4>1. g[1].row.coef = f[1] /\ f[1] \subseteq 1 .. Place(n)
        BY <1>4, <1>8
      <4>2. QED
        BY <1>4, <1>18, <4>1
    <3>2. n = (n - 1) + 1
      BY <1>5
    <3>3. QED
      BY <2>2, <3>1, <3>2 DEF Follows
  <2> HIDE DEF m
  <2>5. BatchFollows(Newest(m, r), g, n)
    BY <1>4, <1>8, <2>4 DEF BatchFollows
  <2>6. Follow(m, x, link["recoder"] \o g) /\ Newest(m, x) = n
    <3> DEFINE fs == link["recoder"]
    <3>1. /\ fs \in Seq(FrameType) /\ OnLink(r, fs) /\ m \in Nat /\ Follow(m, r, fs) /\ n \in Nat
          /\ Batch(g, n) /\ BatchFollows(Newest(m, r), g, n)
      BY <1>5, <1>9, <1>10, <1>12, <2>2, <2>3, <2>5
    <3> HIDE DEF fs
    <3>2. /\ Follow(m, r \o Copies(n, Len(g)), fs \o g)
          /\ Newest(m, r \o Copies(n, Len(g))) = n
      BY ONLY <3>1, FollowAppend
    <3>3. QED
      BY <3>2 DEF x, fs
  <2>7. n = (n + 1) - 1
    BY <1>5
  <2>8. QED
    BY <1>5, <2>1, <2>2, <2>6, <2>7 DEF LosslessInv, m
<1>19. QED
  <2>1. Consistent(d, x, h)'
    BY <1>5, <1>14, <1>15, <1>16, <1>17, <1>18 DEF Consistent
  <2>2. QED
    BY <2>1

\* Nothing here depends on the redundancies.
LEMMA OamIsConsistent ==
  ASSUME UNCHANGED <<recoding, systematic, next, generation, link, recoder, decoder,
                     undecoded, delivered, lostFrames>>,
         NEW d, NEW r, NEW h, Consistent(d, r, h)
  PROVE  Consistent(d, r, h)'
BY DEF Consistent, Numbers, FewMissed, Missed, RecoderInv, DecoderInv, DeliveredInv, Sent, LosslessInv

LEMMA SeqOfNumbers ==
  ASSUME NEW s \in Seq(Nat)
  PROVE  ToSet(s) \subseteq Nat /\ \A m \in Nat : Newest(m, s) \in Nat
<1>1. ToSet(s) \subseteq Nat
  BY ElementOfSeq, LenProperties DEF ToSet
<1>2. s # <<>> => Len(s) \in 1 .. Len(s)
  BY LenProperties, EmptySeq
<1>3. s # <<>> => s[Len(s)] \in Nat
  BY <1>2, ElementOfSeq
<1>4. QED
  BY <1>1, <1>3 DEF Newest

\* The recoder puts frames of the packet of the frame it took on the other link.
LEMMA RelayMoves ==
  ASSUME ChainTypeOK, NEW d, NEW r, NEW h, Numbers(d, r, h), FewMissed(d, r, h),
         link["recoder"] # <<>>, NEW n, n = r[1], NEW g, Batch(g, n),
         link' = [recoder |-> Tail(link["recoder"]), decoder |-> link["decoder"] \o g],
         next' = next, lostFrames' = lostFrames
  PROVE  /\ Numbers(d \o Copies(n, Len(g)), Tail(r), h)'
         /\ FewMissed(d \o Copies(n, Len(g)), Tail(r), h)'
<1> DEFINE x == d \o Copies(n, Len(g))
           y == Tail(r)
<1>1. /\ link["recoder"] \in Seq(FrameType) /\ link["decoder"] \in Seq(FrameType)
      /\ OnLink(r, link["recoder"]) /\ OnLink(d, link["decoder"])
  BY DEF Numbers, ChainTypeOK
<1>2. /\ OnLink(y, Tail(link["recoder"])) /\ n \in Nat \ {0}
      /\ ToSet(r) = ToSet(y) \cup {n} /\ \A z \in ToSet(r) : n <= z
  BY <1>1, OnLinkTail
<1>3. /\ d \in Seq(Nat) /\ ToSet(d) \subseteq Nat /\ r \in Seq(Nat) /\ ToSet(r) \subseteq Nat
      /\ h \in Nat /\ next \in Nat
  BY <1>1, SeqOfNumbers DEF OnLink, Numbers, ChainTypeOK
<1>4. NoneAfter(d, n)
  BY <1>2 DEF Numbers, NoneAfter
<1>5. OnLink(x, link["decoder"] \o g) /\ ToSet(x) = ToSet(d) \cup {n}
  BY <1>1, <1>2, <1>4, OnLinkAppend
<1> HIDE DEF x, y
<1>6. ToSet(x) \cup ToSet(y) = ToSet(d) \cup ToSet(r)
  BY <1>2, <1>5
<1>7. \A u \in ToSet(x), v \in ToSet(y) : u <= v
  BY <1>2, <1>5 DEF Numbers
<1>8. Numbers(x, y, h)'
  <2>1. OnLink(x, link'["decoder"]) /\ OnLink(y, link'["recoder"])
    BY <1>2, <1>5
  <2>2. QED
    BY <1>3, <1>6, <1>7, <2>1 DEF Numbers
<1>9. FewMissed(x, y, h)'
  BY <1>6 DEF FewMissed, Missed
<1>10. QED
  BY <1>8, <1>9 DEF x, y

LEMMA ForwardIsConsistent ==
  ASSUME ChainBase, Forward, NEW d, NEW r, NEW h, Consistent(d, r, h)
  PROVE  \E x, y : Consistent(x, y, h)'
<1>0. ChainTypeOK
  BY DEF ChainBase
<1>1. PICK n : n = r[1]
  OBVIOUS
<1>2. PICK f : f = Head(link["recoder"])
  OBVIOUS
<1>3. /\ Numbers(d, r, h) /\ FewMissed(d, r, h) /\ RecoderInv(r) /\ DecoderInv(h) /\ DeliveredInv(h)
      /\ systematic /\ lostFrames = 0 => LosslessInv(d, r, h)
  BY DEF Consistent
<1>4. /\ link["recoder"] \in Seq(FrameType) /\ link["decoder"] \in Seq(FrameType)
      /\ link["recoder"] # <<>> /\ OnLink(r, link["recoder"]) /\ OnLink(d, link["decoder"])
  BY <1>0, <1>3 DEF Numbers, ChainTypeOK, Forward
<1>5. f \in FrameType /\ IsFrame(f, n) /\ n \in Nat
  BY <1>1, <1>2, <1>4, Taken, OnLinkTail
<1> DEFINE g == <<f>>
<1>6. g \in Seq(FrameType) /\ Len(g) = 1 /\ g[1] = f
  BY <1>5
<1> HIDE DEF g
<1>7. Batch(g, n)
  <2>1. \A k \in 1 .. Len(g) : k = 1
    BY <1>6
  <2>2. QED
    BY <1>5, <1>6, <2>1 DEF Batch
<1>8. link' = [recoder |-> Tail(link["recoder"]), decoder |-> link["decoder"] \o g]
  BY <1>2, <1>4, <1>5, AppendIsConcat DEF Forward, g
<1>9. UNCHANGED <<recoding, systematic, next, generation, recoder, decoder, undecoded, delivered, lostFrames>>
      /\ ~recoding
  BY DEF Forward
<1> DEFINE x == d \o Copies(n, Len(g))
           y == Tail(r)
<1>10. Numbers(x, y, h)' /\ FewMissed(x, y, h)'
  BY <1>0, <1>1, <1>3, <1>4, <1>7, <1>8, <1>9, RelayMoves
<1>11. RecoderInv(y)' /\ DecoderInv(h)' /\ DeliveredInv(h)'
  <2> HIDE DEF y
  <2>1. QED
    BY <1>3, <1>9 DEF RecoderInv, DecoderInv, DeliveredInv, Sent
<1>12. ASSUME systematic, lostFrames = 0 PROVE LosslessInv(x, y, h)'
  <2> DEFINE m == Newest(h, d)
  <2>1. LosslessInv(d, r, h)
    BY <1>3, <1>12
  <2>2. /\ Follow(h, d, link["decoder"]) /\ Follow(m, r, link["recoder"])
        /\ Newest(m, r) = next - 1
    BY <2>1 DEF LosslessInv
  <2>3. d \in Seq(Nat) /\ r \in Seq(Nat) /\ Len(r) = Len(link["recoder"]) /\ h \in Nat /\ m \in Nat
        /\ r # <<>>
    BY <1>3, <1>4, SeqOfNumbers, OnLinkTail DEF Numbers, OnLink
  <2> HIDE DEF m
  <2>4. /\ Follows(m, n, f.row.coef) /\ Follow(n, y, Tail(link["recoder"])) /\ Newest(n, y) = Newest(m, r)
    BY <1>1, <1>2, <1>4, <2>2, <2>3, FollowTail
  <2>5. BatchFollows(m, g, n)
    <3>1. 2 .. Len(g) = {}
      BY <1>6
    <3>2. QED
      BY <1>6, <2>4, <3>1 DEF BatchFollows
  <2>6. Follow(h, x, link["decoder"] \o g) /\ Newest(h, x) = n
    BY <1>4, <1>5, <1>7, <2>2, <2>3, <2>5, FollowAppend DEF m
  <2> HIDE DEF x, y
  <2>7. link'["decoder"] = link["decoder"] \o g /\ link'["recoder"] = Tail(link["recoder"])
    BY <1>8
  <2>8. QED
    BY <1>9, <2>1, <2>2, <2>4, <2>6, <2>7 DEF LosslessInv
<1> HIDE DEF x, y
<1>13. Consistent(x, y, h)'
  BY <1>9, <1>10, <1>11, <1>12 DEF Consistent
<1>14. QED
  BY <1>13

\* When the numbers have not begun again, the number of a generation is its age.
LEMMA NumberIsAge ==
  ASSUME ChainTypeOK, Steady, recoding, NEW n \in 1 .. next - 1
  PROVE  Number(AgeOf(n)) = AgeOf(n)
<1>1. n \in Nat \ {0} /\ Age(n) <= MaxGeneration
  BY DEF Steady, ChainTypeOK
<1>2. AgeOf(n) = Age(n) /\ AgeOf(n) \in Nat
  BY <1>1, AgeProperties
<1>3. AgeOf(n) \in 0 .. MaxGeneration
  BY <1>1, <1>2, ChainAssumption
<1>4. QED
  BY <1>3, NumberProperties

\* A recoder that has taken a frame of packet n holds combinations of its generation, of the
\* symbols C if all it gets are combinations of those.
LEMMA RecodeLearns ==
  ASSUME ChainTypeOK, Recode, NEW n \in Nat \ {0}, NEW C \in SUBSET Indices,
         NEW f, f = Head(link["recoder"]), f.gen = AgeOf(n), f.row \in Rows(AgeOf(n), C),
         generation["recoder"] <= AgeOf(n),
         generation["recoder"] = AgeOf(n) => recoder \subseteq Rows(AgeOf(n), C)
  PROVE  /\ recoder' \subseteq Rows(AgeOf(n), C)
         /\ generation'["recoder"] = AgeOf(n) /\ generation'["decoder"] = generation["decoder"]
<1>1. recoder' = Extended(Known(f.gen, recoder), f.row)
  BY RecodeSends
<1>2. generation' = [generation EXCEPT !["recoder"] = IF f.gen > @ THEN f.gen ELSE @]
  BY DEF Recode
<1>3. AgeOf(n) \in Nat /\ generation["recoder"] \in Nat /\ generation \in [Coders -> Nat]
  BY AgeProperties DEF ChainTypeOK, Coders
<1>4. Known(f.gen, recoder) \subseteq Rows(AgeOf(n), C)
  <2>1. CASE f.gen > generation["recoder"]
    BY <1>3, <2>1, ZeroIsRow DEF Known
  <2>2. CASE ~(f.gen > generation["recoder"])
    BY <1>3, <2>2 DEF Known
  <2>3. QED
    BY <2>1, <2>2
<1>5. recoder' \subseteq Rows(AgeOf(n), C)
  BY <1>1, <1>3, <1>4, ExtendedRows
<1>6. generation'["recoder"] = AgeOf(n) /\ generation'["decoder"] = generation["decoder"]
  BY <1>2, <1>3 DEF Coders
<1>7. QED
  BY <1>5, <1>6

LEMMA RecodeIsConsistent ==
  ASSUME ChainBase, Steady, Recode, NEW d, NEW r, NEW h, Consistent(d, r, h)
  PROVE  \E x, y : Consistent(x, y, h)'
<1>0. ChainTypeOK
  BY DEF ChainBase
<1>1. PICK n : n = r[1]
  OBVIOUS
<1>2. PICK f : f = Head(link["recoder"])
  OBVIOUS
<1>3. /\ Numbers(d, r, h) /\ FewMissed(d, r, h) /\ RecoderInv(r) /\ DecoderInv(h) /\ DeliveredInv(h)
      /\ systematic /\ lostFrames = 0 => LosslessInv(d, r, h)
  BY DEF Consistent
<1>4. /\ link["recoder"] \in Seq(FrameType) /\ link["decoder"] \in Seq(FrameType)
      /\ link["recoder"] # <<>> /\ OnLink(r, link["recoder"]) /\ OnLink(d, link["decoder"])
  BY <1>0, <1>3 DEF Numbers, ChainTypeOK, Recode
<1>5. PICK g \in Seq(FrameType) :
        /\ Len(g) > 1 /\ g[1] = f
        /\ \A k \in 2 .. Len(g) : g[k].gen = f.gen /\ g[k].row \in recoder'
        /\ link' = [recoder |-> Tail(link["recoder"]), decoder |-> link["decoder"] \o g]
  BY <1>0, <1>2, RecodeSends
<1>6. UNCHANGED <<recoding, systematic, next, decoder, undecoded, delivered, lostFrames>> /\ recoding
  BY DEF Recode
<1>7. /\ IsFrame(f, n) /\ n \in Nat \ {0} /\ OnLink(Tail(r), Tail(link["recoder"]))
      /\ ToSet(r) = ToSet(Tail(r)) \cup {n} /\ \A z \in ToSet(r) : n <= z
  BY <1>1, <1>2, <1>4, OnLinkTail
<1>8. r \in Seq(Nat) /\ ToSet(r) \subseteq Nat /\ n \in 1 .. next - 1 /\ next \in Nat
  <2>1. r \in Seq(Nat) /\ ToSet(r) \subseteq Nat /\ n \in ToSet(r) /\ next \in Nat
    BY <1>0, <1>4, <1>7, SeqOfNumbers DEF OnLink, ChainTypeOK
  <2>2. n < next
    BY <1>3, <2>1 DEF Numbers
  <2>3. QED
    BY <1>7, <2>1, <2>2
<1>9. f.gen = AgeOf(n) /\ f.row \in Rows(AgeOf(n), Indices) /\ AgeOf(n) \in Nat
  BY <1>0, <1>6, <1>7, <1>8, NumberIsAge, AgeProperties DEF IsFrame
<1>10. /\ recoder \subseteq Rows(generation["recoder"], Indices)
       /\ generation["recoder"] <= AgeOf(n)
  BY <1>3, <1>6, <1>7 DEF RecoderInv
<1>11. /\ recoder' \subseteq Rows(AgeOf(n), Indices)
       /\ generation'["recoder"] = AgeOf(n) /\ generation'["decoder"] = generation["decoder"]
  BY <1>0, <1>2, <1>7, <1>9, <1>10, RecodeLearns
<1>12. \A k \in 1 .. Len(g) : k = 1 \/ k \in 2 .. Len(g)
  BY LenProperties
<1>13. Batch(g, n)
  <2>1. ASSUME NEW k \in 1 .. Len(g) PROVE IsFrame(g[k], n)
    BY <1>5, <1>7, <1>11, <1>12 DEF IsFrame
  <2>2. Len(g) # 0
    BY <1>5
  <2>3. QED
    BY <2>1, <2>2 DEF Batch
<1> DEFINE x == d \o Copies(n, Len(g))
           y == Tail(r)
<1>14. Numbers(x, y, h)' /\ FewMissed(x, y, h)'
  BY <1>0, <1>1, <1>3, <1>4, <1>5, <1>6, <1>13, RelayMoves
<1>15. RecoderInv(y)' /\ DecoderInv(h)' /\ DeliveredInv(h)'
  <2>1. \A z \in ToSet(y) : AgeOf(n) <= AgeOf(z)
    BY <1>7, <1>8, AgeIsMonotone
  <2>2. AgeOf(n) <= AgeOf(next)
    BY <1>8, AgeIsMonotone
  <2> HIDE DEF y
  <2>3. QED
    BY <1>3, <1>6, <1>11, <2>1, <2>2 DEF RecoderInv, DecoderInv, DeliveredInv, Sent
<1>16. ASSUME systematic, lostFrames = 0 PROVE LosslessInv(x, y, h)'
  <2> DEFINE m == Newest(h, d)
             C == 1 .. Place(n)
  <2>1. LosslessInv(d, r, h)
    BY <1>3, <1>16
  <2>2. /\ Follow(h, d, link["decoder"]) /\ Follow(m, r, link["recoder"])
        /\ Newest(m, r) = next - 1
        /\ generation["recoder"] = AgeOf(m) /\ recoder \subseteq Rows(AgeOf(m), 1 .. Place(m))
    BY <1>6, <2>1 DEF LosslessInv
  <2>3. d \in Seq(Nat) /\ Len(r) = Len(link["recoder"]) /\ h \in Nat /\ m \in Nat /\ r # <<>>
    BY <1>3, <1>4, SeqOfNumbers, OnLinkTail DEF Numbers, OnLink
  <2> HIDE DEF m
  <2>4. /\ Follows(m, n, f.row.coef) /\ Follow(n, y, Tail(link["recoder"])) /\ Newest(n, y) = Newest(m, r)
    BY <1>1, <1>2, <1>4, <1>8, <2>2, <2>3, FollowTail
  <2>5. C \in SUBSET Indices
    <3>1. Place(n) \in Indices
      BY <1>7, AgeProperties
    <3>2. QED
      BY <3>1, ChainAssumption DEF Indices
  <2>6. f.row \in Rows(AgeOf(n), C)
    <3>1. PICK c \in SUBSET Indices : f.row = Row(AgeOf(n), c)
      BY <1>9 DEF Rows
    <3>2. c \in SUBSET C
      BY <2>4, <3>1 DEF Follows, Row
    <3>3. QED
      BY <3>1, <3>2 DEF Rows
  <2>7. generation["recoder"] = AgeOf(n) => recoder \subseteq Rows(AgeOf(n), C)
    <3> SUFFICES ASSUME AgeOf(m) = AgeOf(n) PROVE recoder \subseteq Rows(AgeOf(n), C)
      BY <2>2
    <3>1. 1 .. Place(m) \subseteq C
      <4>1. CASE n = m
        BY <4>1
      <4>2. CASE n = m + 1
        <5>1. Place(n) = Place(m) + 1 /\ Place(m) \in Nat
          BY <2>3, <4>2, NextPacket, AgeProperties
        <5>2. QED
          BY <5>1
      <4>3. QED
        BY <2>4, <4>1, <4>2 DEF Follows
    <3>2. QED
      BY <2>2, <3>1 DEF Rows
  <2>8. recoder' \subseteq Rows(AgeOf(n), C)
    BY <1>0, <1>2, <1>7, <1>9, <1>10, <2>5, <2>6, <2>7, RecodeLearns
  <2>9. BatchFollows(m, g, n)
    <3>1. ASSUME NEW k \in 2 .. Len(g) PROVE g[k].row.coef \subseteq C
      <4>1. PICK c \in SUBSET C : g[k].row = Row(AgeOf(n), c)
        BY <1>5, <2>8 DEF Rows
      <4>2. QED
        BY <4>1 DEF Row
    <3>2. QED
      BY <1>5, <2>4, <3>1 DEF BatchFollows
  <2>10. Follow(h, x, link["decoder"] \o g) /\ Newest(h, x) = n
    BY <1>4, <1>7, <1>13, <2>2, <2>3, <2>9, FollowAppend DEF m
  <2> HIDE DEF x, y
  <2>11. link'["decoder"] = link["decoder"] \o g /\ link'["recoder"] = Tail(link["recoder"])
    BY <1>5
  <2>12. QED
    BY <1>6, <1>11, <2>1, <2>2, <2>4, <2>8, <2>10, <2>11 DEF LosslessInv
<1> HIDE DEF x, y
<1>17. Consistent(x, y, h)'
  BY <1>6, <1>14, <1>15, <1>16 DEF Consistent
<1>18. QED
  BY <1>17

\* A link loses its first frame.
LEMMA LossIsConsistent ==
  ASSUME ChainBase, NEW c \in {"recoder", "decoder"}, LoseFrame(c),
         NEW d, NEW r, NEW h, Consistent(d, r, h)
  PROVE  \E x, y : Consistent(x, y, h)'
<1>0. ChainTypeOK
  BY DEF ChainBase
<1>1. /\ Numbers(d, r, h) /\ FewMissed(d, r, h) /\ RecoderInv(r) /\ DecoderInv(h) /\ DeliveredInv(h)
      /\ next \in Nat /\ lostFrames \in Nat
  BY <1>0 DEF Consistent, ChainTypeOK
<1>2. /\ UNCHANGED <<recoding, systematic, next, generation, recoder, decoder, undecoded, delivered>>
      /\ lostFrames' = lostFrames + 1 /\ lostFrames' # 0
      /\ link[c] # <<>> /\ link' = [link EXCEPT ![c] = Tail(@)]
  BY <1>1 DEF LoseFrame
<1>3. /\ link["recoder"] \in Seq(FrameType) /\ link["decoder"] \in Seq(FrameType)
      /\ OnLink(r, link["recoder"]) /\ OnLink(d, link["decoder"])
  BY <1>0, <1>1 DEF Numbers, ChainTypeOK
<1>4. CASE c = "recoder"
  <2> DEFINE y == Tail(r)
  <2>1. PICK n : n = r[1]
    OBVIOUS
  <2>2. OnLink(y, Tail(link["recoder"])) /\ ToSet(r) = ToSet(y) \cup {n}
    BY <1>2, <1>3, <1>4, <2>1, OnLinkTail
  <2>3. link'["recoder"] = Tail(link["recoder"]) /\ link'["decoder"] = link["decoder"]
    BY <1>0, <1>2, <1>4 DEF ChainTypeOK
  <2> HIDE DEF y
  <2>4. Numbers(d, y, h)'
    BY <1>1, <1>2, <2>2, <2>3 DEF Numbers
  <2>5. PICK M : M = Missed(d, y, h)'
    OBVIOUS
  <2>6. M \in SUBSET (Missed(d, r, h) \cup {n})
    BY <1>2, <2>2, <2>5 DEF Missed
  <2>7. Cardinality(M) <= lostFrames + 1
    BY <1>0, <1>1, <2>6, OneMoreMissed
  <2>8. FewMissed(d, y, h)'
    BY <1>2, <2>5, <2>7 DEF FewMissed
  <2>9. RecoderInv(y)' /\ DecoderInv(h)' /\ DeliveredInv(h)'
    BY <1>1, <1>2, <2>2 DEF RecoderInv, DecoderInv, DeliveredInv, Sent
  <2>10. Consistent(d, y, h)'
    BY <1>2, <2>4, <2>8, <2>9 DEF Consistent
  <2>11. QED
    BY <2>10
<1>5. CASE c = "decoder"
  <2> DEFINE x == Tail(d)
  <2>1. PICK n : n = d[1]
    OBVIOUS
  <2>2. OnLink(x, Tail(link["decoder"])) /\ ToSet(d) = ToSet(x) \cup {n}
    BY <1>2, <1>3, <1>5, <2>1, OnLinkTail
  <2>3. link'["decoder"] = Tail(link["decoder"]) /\ link'["recoder"] = link["recoder"]
    BY <1>0, <1>2, <1>5 DEF ChainTypeOK
  <2> HIDE DEF x
  <2>4. Numbers(x, r, h)'
    BY <1>1, <1>2, <2>2, <2>3 DEF Numbers
  <2>5. PICK M : M = Missed(x, r, h)'
    OBVIOUS
  <2>6. M \in SUBSET (Missed(d, r, h) \cup {n})
    BY <1>2, <2>2, <2>5 DEF Missed
  <2>7. Cardinality(M) <= lostFrames + 1
    BY <1>0, <1>1, <2>6, OneMoreMissed
  <2>8. FewMissed(x, r, h)'
    BY <1>2, <2>5, <2>7 DEF FewMissed
  <2>9. RecoderInv(r)' /\ DecoderInv(h)' /\ DeliveredInv(h)'
    BY <1>1, <1>2 DEF RecoderInv, DecoderInv, DeliveredInv, Sent
  <2>10. Consistent(x, r, h)'
    BY <1>2, <2>4, <2>8, <2>9 DEF Consistent
  <2>11. QED
    BY <2>10
<1>6. QED
  BY <1>4, <1>5

\* The decoder misses no whole generation, unless the numbers have not begun again.
LEMMA NoGenerationIsMissed ==
  ASSUME ChainTypeOK, lostFrames < Symbols, NEW d, NEW r, NEW h, Numbers(d, r, h),
         FewMissed(d, r, h), NEW n \in 1 .. next - 1, \A z \in ToSet(d) \cup ToSet(r) : n <= z
  PROVE  AgeOf(n) <= AgeOf(h) + 1
<1>1. next \in Nat /\ n \in Nat /\ h \in Nat /\ lostFrames \in Nat /\ Symbols \in Nat
  BY ChainAssumption DEF ChainTypeOK, Numbers
<1>2. AgeOf(n) \in Nat /\ AgeOf(h) \in Nat
  BY <1>1, AgeProperties
<1> DEFINE a == AgeOf(h) + 1
           M == Missed(d, r, h)
           f == [i \in Indices |-> a * Symbols + i]
<1> SUFFICES ASSUME AgeOf(n) > a PROVE FALSE
  BY <1>2
<1>3. a \in Nat /\ a > AgeOf(h)
  BY <1>2
<1> HIDE DEF a
<1>4. ASSUME NEW i \in Indices PROVE f[i] \in M
  <2> DEFINE p == a * Symbols + i
  <2>1. p \in Nat \ {0} /\ AgeOf(p) = a
    BY <1>3, AgeOfPlace
  <2> HIDE DEF p
  <2>2. p < n
    <3>1. n <= p => AgeOf(n) <= a
      BY <1>1, <2>1, AgeIsMonotone
    <3>2. QED
      BY <1>1, <1>2, <1>3, <2>1, <3>1
  <2>3. p \in 1 .. next - 1 /\ p \notin ToSet(d) \cup ToSet(r)
    BY <1>1, <2>1, <2>2
  <2>4. p \in M
    BY <1>3, <2>1, <2>3 DEF Missed
  <2>5. QED
    BY <2>4 DEF p
<1>5. \A i, j \in Indices : f[i] = f[j] => i = j
  <2> SUFFICES ASSUME NEW i \in Indices, NEW j \in Indices, f[i] = f[j] PROVE i = j
    OBVIOUS
  <2>1. f[i] = a * Symbols + i /\ f[j] = a * Symbols + j
    OBVIOUS
  <2> HIDE DEF f
  <2>2. Place(a * Symbols + i) = i /\ Place(a * Symbols + j) = j
    BY <1>3, AgeOfPlace
  <2>3. QED
    BY <2>1, <2>2
<1>6. f \in Injection(Indices, M)
  <2>1. f \in [Indices -> M]
    <3> HIDE DEF M
    <3>1. QED
      BY <1>4
  <2> HIDE DEF f, M
  <2>2. IsInjective(f)
    BY <1>5, <2>1 DEF IsInjective
  <2>3. QED
    BY <2>1, <2>2 DEF Injection
<1>7. IsFiniteSet(M) /\ Cardinality(M) \in Nat /\ Cardinality(M) <= lostFrames
  BY <1>1, MissedIsFinite DEF FewMissed
<1>8. IsFiniteSet(Indices) /\ Cardinality(Indices) = Symbols
  <2>1. IsFiniteSet(1 .. Symbols) /\ Cardinality(1 .. Symbols) = IF 1 > Symbols THEN 0 ELSE Symbols - 1 + 1
    BY <1>1, FS_Interval
  <2>2. QED
    BY <1>1, <2>1, ChainAssumption DEF Indices
<1> HIDE DEF f, M
<1>9. Cardinality(Indices) <= Cardinality(M)
  BY <1>6, <1>7, <1>8, FS_Injection
<1>10. QED
  BY <1>1, <1>7, <1>8, <1>9

\* The decoder starts afresh exactly at the frames of a later generation.
LEMMA DecodeAge ==
  ASSUME ChainTypeOK, Steady, NEW d, NEW r, NEW h, Numbers(d, r, h), FewMissed(d, r, h),
         DecoderInv(h), NEW n \in 1 .. next - 1, h <= n,
         \A z \in ToSet(d) \cup ToSet(r) : n <= z
  PROVE  /\ AgeOf(h) <= AgeOf(n)
         /\ Restarts(Number(AgeOf(n))) <=> AgeOf(n) # AgeOf(h)
<1> DEFINE a == AgeOf(h)
           b == AgeOf(n)
<1>1. n \in Nat \ {0} /\ h \in Nat /\ next \in Nat
  BY DEF ChainTypeOK, Numbers
<1>2. a \in Nat /\ b \in Nat /\ a <= b
  BY <1>1, AgeProperties, AgeIsMonotone
<1>3. generation["decoder"] = Number(a) /\ MaxGeneration \in Nat \ {0}
  BY ChainAssumption DEF DecoderInv
<1>4. CASE \A p \in 1 .. next - 1 : Age(p) <= MaxGeneration
  <2>1. b <= MaxGeneration
    BY <1>1, <1>4, AgeProperties
  <2> HIDE DEF a, b
  <2>2. Number(a) = a /\ Number(b) = b
    BY <1>2, <1>3, <2>1, NumberProperties
  <2>3. Restarts(Number(b)) <=> b # a
    BY <1>2, <1>3, <2>2 DEF Restarts
  <2>4. QED
    BY <1>2, <2>3 DEF a, b
<1>5. CASE lostFrames < Symbols
  <2>1. b <= a + 1
    BY <1>5, NoGenerationIsMissed
  <2> HIDE DEF a, b
  <2>2. b = a \/ b = a + 1
    BY <1>2, <2>1
  <2>3. Number(a) \in 0 .. MaxGeneration /\ Number(a + 1) = NextGeneration(Number(a))
    BY <1>2, NumberProperties
  <2>4. Restarts(Number(b)) <=> b # a
    BY <1>2, <1>3, <2>2, <2>3 DEF Restarts, NextGeneration
  <2>5. QED
    BY <1>2, <2>4 DEF a, b
<1>6. QED
  BY <1>4, <1>5 DEF Steady

\* Reading a symbol.
LEMMA LearnedRows ==
  ASSUME NEW a \in Nat, NEW C \in SUBSET Indices, NEW space, space \subseteq Rows(a, C),
         NEW r \in Rows(a, C)
  PROVE  Learned(space, r) \subseteq Rows(a, C)
<1>1. Extended(space, r) \subseteq Rows(a, C)
  BY ExtendedRows
<1>2. QED
  BY <1>1 DEF Learned

\* One who knows all combinations of the first symbols knows those of one more.
LEMMA LearnedAll ==
  ASSUME NEW a \in Nat, NEW i \in Indices
  PROVE  Learned(Rows(a, 1 .. i - 1), Row(a, {i})) = Rows(a, 1 .. i)
<1> DEFINE A == 1 .. i - 1
           B == 1 .. i
           space == Rows(a, A)
           r == Row(a, {i})
<1>1. i \in Nat \ {0} /\ B \in SUBSET Indices /\ A \subseteq B /\ B = A \cup {i} /\ i \notin A
  BY ChainAssumption DEF Indices
<1> HIDE DEF A, B
<1>2. r \in Rows(a, B) /\ space \subseteq Rows(a, B)
  BY <1>1 DEF Rows
<1>3. \A s \in space : s.coef # r.coef
  BY <1>1 DEF Rows, Row
<1>4. Learned(space, r) = Extended(space, r)
  BY <1>3 DEF Learned
<1>5. ASSUME NEW x \in Rows(a, B) PROVE x \in Extended(space, r)
  <2>1. PICK c \in SUBSET B : x = Row(a, c)
    BY DEF Rows
  <2>2. CASE i \notin c
    <3>1. x \in space
      BY <1>1, <2>1, <2>2 DEF Rows
    <3>2. QED
      BY <3>1 DEF Extended
  <2>3. CASE i \in c
    <3> DEFINE e == c \ {i}
    <3>1. e \in SUBSET A /\ e \in SUBSET B /\ {i} \in SUBSET B
      BY <1>1
    <3>2. Plus({i}, e) = c
      BY <2>3 DEF Plus
    <3> HIDE DEF e
    <3>3. Sum(Row(a, {i}), Row(a, e)) = Row(a, Plus({i}, e))
      BY <1>1, <3>1, SumOfRows
    <3>4. Row(a, e) \in space
      BY <3>1 DEF Rows
    <3>5. x = Sum(r, Row(a, e))
      BY <2>1, <3>2, <3>3
    <3>6. QED
      BY <3>4, <3>5 DEF Extended
  <2>4. QED
    BY <2>2, <2>3
<1>6. Extended(space, r) \subseteq Rows(a, B)
  BY <1>1, <1>2, ExtendedRows
<1>7. QED
  BY <1>4, <1>5, <1>6 DEF A, B

LEMMA DecodableRows ==
  ASSUME NEW a \in Nat, NEW i \in 0 .. Symbols
  PROVE  Decodable(Rows(a, 1 .. i)) = 1 .. i
<1>1. 1 .. i \subseteq Indices
  BY ChainAssumption DEF Indices
<1>2. ASSUME NEW j \in 1 .. i PROVE j \in Decodable(Rows(a, 1 .. i))
  <2>1. Row(a, {j}) \in Rows(a, 1 .. i) /\ Row(a, {j}).coef = {j}
    BY DEF Rows, Row
  <2>2. QED
    BY <1>1, <2>1 DEF Decodable
<1>3. ASSUME NEW j \in Decodable(Rows(a, 1 .. i)) PROVE j \in 1 .. i
  <2>1. PICK s \in Rows(a, 1 .. i) : s.coef = {j}
    BY DEF Decodable
  <2>2. PICK c \in SUBSET (1 .. i) : s = Row(a, c)
    BY DEF Rows
  <2>3. c = {j}
    BY <2>1, <2>2 DEF Row
  <2>4. QED
    BY <2>3
<1>4. QED
  BY <1>2, <1>3

LEMMA PacketIsPlace ==
  ASSUME NEW n \in Nat
  PROVE  n = AgeOf(n) * Symbols + Place(n)
<1>1. AgeOf(n) \in Nat
  BY AgeProperties
<1>2. AgeOf(n) * Symbols \in Nat
  BY <1>1, ChainAssumption
<1>3. \A P \in Nat : n = P + (n - P)
  OBVIOUS
<1>4. QED
  BY <1>2, <1>3 DEF Place

\* What the decoder sends are packets of its generation.
LEMMA DecodeSends ==
  ASSUME ChainTypeOK, NEW n \in Nat, NEW before, NEW list, NEW out,
         Decoding(before, list, out), decoder' \subseteq Rows(AgeOf(n), Indices)
  PROVE  /\ Len(delivered) \in Nat /\ DOMAIN delivered = 1 .. Len(delivered)
         /\ Len(out) \in Nat /\ DOMAIN out = 1 .. Len(out)
         /\ DOMAIN delivered' = 1 .. Len(delivered) + Len(out)
         /\ \A k \in 1 .. Len(delivered) : delivered'[k] = delivered[k]
         /\ \A k \in 1 .. Len(out) :
              /\ out[k] \in Indices /\ out[k] \in ToSet(out)
              /\ delivered'[Len(delivered) + k] = {AgeOf(n) * Symbols + out[k]}
<1>1. /\ Len(delivered) \in Nat /\ DOMAIN delivered = 1 .. Len(delivered)
      /\ Len(out) \in Nat /\ DOMAIN out = 1 .. Len(out)
      /\ DOMAIN delivered' = 1 .. Len(delivered) + Len(out)
      /\ \A k \in 1 .. Len(delivered) : delivered'[k] = delivered[k]
      /\ \A k \in 1 .. Len(out) : delivered'[Len(delivered) + k] = Symbol(decoder', out[k])
  BY DecodeDelivers
<1>2. AgeOf(n) \in Nat
  BY AgeProperties
<1>3. ASSUME NEW k \in 1 .. Len(out)
      PROVE  /\ out[k] \in Indices /\ out[k] \in ToSet(out)
             /\ Symbol(decoder', out[k]) = {AgeOf(n) * Symbols + out[k]}
  <2>1. out[k] \in ToSet(out)
    BY <1>1 DEF ToSet
  <2>2. out[k] \in Decodable(decoder')
    BY <2>1 DEF Decoding
  <2>3. QED
    BY <1>2, <2>1, <2>2, SymbolIsPacket
<1>4. QED
  BY <1>1, <1>3

LEMMA DecodeKeepsDelivered ==
  ASSUME ChainTypeOK, NEW n \in Nat, NEW h \in Nat, AgeOf(h) <= AgeOf(n), DeliveredInv(h),
         NEW before, NEW list, NEW out, Decoding(before, list, out),
         decoder' \subseteq Rows(AgeOf(n), Indices),
         AgeOf(n) = AgeOf(h) => list = undecoded
  PROVE  DeliveredInv(n)'
<1>1. /\ Len(delivered) \in Nat /\ DOMAIN delivered = 1 .. Len(delivered)
      /\ Len(out) \in Nat /\ DOMAIN out = 1 .. Len(out)
      /\ DOMAIN delivered' = 1 .. Len(delivered) + Len(out)
      /\ \A k \in 1 .. Len(delivered) : delivered'[k] = delivered[k]
      /\ \A k \in 1 .. Len(out) :
           /\ out[k] \in Indices /\ out[k] \in ToSet(out)
           /\ delivered'[Len(delivered) + k] = {AgeOf(n) * Symbols + out[k]}
  BY DecodeSends
<1>2. AgeOf(n) \in Nat /\ AgeOf(h) \in Nat
  BY AgeProperties
<1>3. /\ Distinct(out) /\ ToSet(out) \subseteq ToSet(list) /\ ToSet(undecoded') \subseteq ToSet(list)
      /\ ToSet(undecoded') \cap ToSet(out) = {}
  BY DEF Decoding
<1> DEFINE L == Len(delivered)
           Q(k) == AgeOf(n) * Symbols + out[k]
<1>4. ASSUME NEW k \in 1 .. Len(out)
      PROVE  Q(k) \in Nat /\ Q(k) # 0 /\ AgeOf(Q(k)) = AgeOf(n) /\ Place(Q(k)) = out[k]
  BY <1>1, <1>2, AgeOfPlace
<1>5. \A k \in 1 .. Len(out) : delivered'[L + k] = {Q(k)}
  BY <1>1
<1> HIDE DEF L, Q
<1>6. \A k \in DOMAIN delivered' : \/ k \in 1 .. L
                                   \/ k - L \in 1 .. Len(out) /\ L + (k - L) = k /\ k \notin 1 .. L
  BY <1>1 DEF L
<1>7. ASSUME NEW k \in 1 .. L
      PROVE  \E p \in Nat : delivered'[k] = {p} /\ delivered[k] = {p} /\ Sent(p, h) /\ Sent(p, n)'
  <2>1. PICK p \in Nat : delivered[k] = {p} /\ Sent(p, h)
    BY <1>1 DEF DeliveredInv, L
  <2>2. AgeOf(p) \in Nat
    BY AgeProperties
  <2>3. p # 0 /\ AgeOf(p) <= AgeOf(n)
    BY <1>2, <2>1, <2>2 DEF Sent
  <2>4. ASSUME AgeOf(p) = AgeOf(n) PROVE Place(p) \notin ToSet(undecoded')
    <3>1. AgeOf(n) = AgeOf(h)
      BY <1>2, <2>1, <2>4 DEF Sent
    <3>2. QED
      BY <1>3, <2>1, <2>4, <3>1 DEF Sent
  <2>5. Sent(p, n)'
    BY <2>3, <2>4 DEF Sent
  <2>6. QED
    BY <1>1, <2>1, <2>5 DEF L
<1>8. ASSUME NEW k \in 1 .. Len(out)
      PROVE  delivered'[L + k] = {Q(k)} /\ Sent(Q(k), n)'
  <2>1. Place(Q(k)) \notin ToSet(undecoded')
    BY <1>1, <1>3, <1>4
  <2>2. QED
    BY <1>2, <1>4, <1>5, <2>1 DEF Sent
<1>9. ASSUME NEW k \in DOMAIN delivered'
      PROVE  \E p \in Nat : delivered'[k] = {p} /\ Sent(p, n)'
  <2>1. CASE k \in 1 .. L
    BY <1>7, <2>1
  <2>2. CASE k - L \in 1 .. Len(out) /\ L + (k - L) = k
    BY <1>4, <1>8, <2>2
  <2>3. QED
    BY <1>6, <2>1, <2>2
<1>10. ASSUME NEW j \in DOMAIN delivered', NEW k \in DOMAIN delivered', j < k
       PROVE  /\ delivered'[j] # delivered'[k]
              /\ \A p \in delivered'[j], q \in delivered'[k] : AgeOf(p) <= AgeOf(q)
  <2>1. CASE k \in 1 .. L
    <3>1. j \in 1 .. L
      BY <1>1, <1>10, <2>1 DEF L
    <3>2. QED
      BY <1>1, <1>10, <2>1, <3>1 DEF DeliveredInv, L
  <2>2. CASE j \in 1 .. L /\ k - L \in 1 .. Len(out) /\ L + (k - L) = k
    <3>1. PICK p \in Nat : delivered'[j] = {p} /\ Sent(p, h)
      BY <1>7, <2>2
    <3>2. PICK i \in 1 .. Len(out) : i = k - L /\ delivered'[k] = {Q(i)}
      BY <1>8, <2>2
    <3>3. AgeOf(p) \in Nat /\ AgeOf(p) <= AgeOf(h) /\ AgeOf(Q(i)) = AgeOf(n) /\ Place(Q(i)) = out[i]
      BY <1>4, <3>1, AgeProperties DEF Sent
    <3>4. AgeOf(p) <= AgeOf(Q(i))
      BY <1>2, <3>3
    <3>5. p # Q(i)
      <4> SUFFICES ASSUME p = Q(i) PROVE FALSE
        OBVIOUS
      <4>1. AgeOf(n) = AgeOf(h)
        BY <1>2, <3>3
      <4>2. out[i] \notin ToSet(undecoded)
        BY <3>1, <3>3, <4>1 DEF Sent
      <4>3. QED
        BY <1>1, <1>3, <4>1, <4>2
    <3>6. QED
      BY <3>1, <3>2, <3>4, <3>5
  <2>3. CASE /\ j - L \in 1 .. Len(out) /\ L + (j - L) = j
             /\ k - L \in 1 .. Len(out) /\ L + (k - L) = k
    <3>1. PICK i \in 1 .. Len(out) : i = k - L /\ delivered'[k] = {Q(i)}
      BY <1>8, <2>3
    <3>2. PICK l \in 1 .. Len(out) : l = j - L /\ delivered'[j] = {Q(l)}
      BY <1>8, <2>3
    <3>3. l # i
      BY <1>1, <1>10, <3>1, <3>2 DEF L
    <3>4. out[l] # out[i]
      BY <1>1, <1>3, <3>3 DEF Distinct
    <3>5. Q(l) # Q(i)
      BY <1>4, <3>4
    <3>6. AgeOf(Q(l)) <= AgeOf(Q(i))
      BY <1>2, <1>4
    <3>7. QED
      BY <3>1, <3>2, <3>5, <3>6
  <2>4. QED
    BY <1>6, <2>1, <2>2, <2>3
<1>11. QED
  BY <1>9, <1>10 DEF DeliveredInv

\* The packets sent so far.
LEMMA DecodeSendsAlso ==
  ASSUME ChainTypeOK, NEW n \in Nat, NEW before, NEW list, NEW out,
         Decoding(before, list, out), decoder' \subseteq Rows(AgeOf(n), Indices)
  PROVE  UNION ToSet(delivered') =
           (UNION ToSet(delivered)) \cup {AgeOf(n) * Symbols + i : i \in ToSet(out)}
<1> DEFINE L == Len(delivered)
<1>1. /\ L \in Nat /\ DOMAIN delivered = 1 .. L
      /\ Len(out) \in Nat /\ DOMAIN out = 1 .. Len(out)
      /\ DOMAIN delivered' = 1 .. L + Len(out)
      /\ \A k \in 1 .. L : delivered'[k] = delivered[k]
      /\ \A k \in 1 .. Len(out) :
           /\ out[k] \in Indices /\ out[k] \in ToSet(out)
           /\ delivered'[L + k] = {AgeOf(n) * Symbols + out[k]}
  BY DecodeSends
<1> DEFINE P(i) == AgeOf(n) * Symbols + i
           Q == {P(i) : i \in ToSet(out)}
<1> HIDE DEF L
<1>2. \A k \in DOMAIN delivered' : \/ k \in 1 .. L
                                   \/ k - L \in 1 .. Len(out) /\ L + (k - L) = k
  BY <1>1
<1>3. \A k \in 1 .. Len(out) : L + k \in DOMAIN delivered'
  BY <1>1
<1>4. \A k \in 1 .. L : k \in DOMAIN delivered'
  BY <1>1
<1>5. ASSUME NEW p \in UNION ToSet(delivered') PROVE p \in (UNION ToSet(delivered)) \cup Q
  <2>1. PICK k \in DOMAIN delivered' : p \in delivered'[k]
    BY DEF ToSet
  <2>2. CASE k \in 1 .. L
    BY <1>1, <2>1, <2>2 DEF ToSet
  <2>3. CASE k - L \in 1 .. Len(out) /\ L + (k - L) = k
    <3>1. PICK i \in 1 .. Len(out) : i = k - L
      BY <2>3
    <3>2. delivered'[k] = {P(out[i])} /\ out[i] \in ToSet(out)
      BY <1>1, <2>3, <3>1
    <3> HIDE DEF P
    <3>3. QED
      BY <2>1, <3>2
  <2>4. QED
    BY <1>2, <2>2, <2>3
<1>6. ASSUME NEW p \in UNION ToSet(delivered) PROVE p \in UNION ToSet(delivered')
  <2>1. PICK k \in 1 .. L : p \in delivered[k]
    BY <1>1 DEF ToSet
  <2>2. p \in delivered'[k] /\ k \in DOMAIN delivered'
    BY <1>1, <1>4, <2>1
  <2>3. QED
    BY <2>2 DEF ToSet
<1>7. ASSUME NEW p \in Q PROVE p \in UNION ToSet(delivered')
  <2>1. PICK k \in 1 .. Len(out) : p = AgeOf(n) * Symbols + out[k]
    BY <1>1 DEF ToSet
  <2>2. p \in delivered'[L + k] /\ L + k \in DOMAIN delivered'
    BY <1>1, <1>3, <2>1
  <2>3. QED
    BY <2>2 DEF ToSet
<1> HIDE DEF Q
<1>8. UNION ToSet(delivered') = (UNION ToSet(delivered)) \cup Q
  BY <1>5, <1>6, <1>7
<1>9. QED
  BY <1>8 DEF Q

\* Without loss the decoder knows all combinations up to packet h, has sent these packets and
\* no other one.
UpTo(h) ==
  /\ decoder = Rows(AgeOf(h), 1 .. Place(h))
  /\ ToSet(undecoded) = {i \in Indices : i > Place(h)}
  /\ UNION ToSet(delivered) = 1 .. h

LEMMA DecodeKeepsUpTo ==
  ASSUME ChainTypeOK, NEW n \in Nat \ {0}, NEW h \in Nat, UpTo(h),
         NEW f, f = Head(link["decoder"]), f.row \in Rows(AgeOf(n), Indices),
         Follows(h, n, f.row.coef), Restarts(f.gen) <=> AgeOf(n) # AgeOf(h),
         NEW out, Decoding(Before(f.gen), Unsent(f.gen), out)
  PROVE  UpTo(n)'
<1> DEFINE a == AgeOf(n)
           i == Place(n)
<1>1. a \in Nat /\ i \in Indices /\ n = a * Symbols + i
  BY AgeProperties, PacketIsPlace
<1>2. i \in 1 .. i /\ 1 .. i \subseteq Indices /\ i \in 0 .. Symbols /\ i \in Nat
  <2>1. i \in 1 .. Symbols /\ Symbols \in Nat
    BY <1>1, ChainAssumption DEF Indices
  <2> HIDE DEF i
  <2>2. QED
    BY <2>1 DEF Indices
<1>3. PICK c \in SUBSET (1 .. i) : f.row = Row(a, c) /\ (n = h \/ (n = h + 1 /\ c = {i}))
  <2>1. PICK c \in SUBSET Indices : f.row = Row(a, c)
    BY DEF Rows
  <2>2. f.row.coef = c
    BY <2>1 DEF Row
  <2>3. QED
    BY <2>1, <2>2 DEF Follows
<1> HIDE DEF a, i
<1>4. /\ decoder' = Learned(Before(f.gen), Row(a, c))
      /\ ToSet(undecoded') \cup ToSet(out) = ToSet(Unsent(f.gen))
      /\ ToSet(undecoded') \cap ToSet(out) = {}
      /\ ToSet(out) \subseteq Decodable(decoder')
      /\ IsFiniteSet(ToSet(undecoded') \cap Decodable(decoder'))
      /\ Cardinality(ToSet(undecoded') \cap Decodable(decoder')) <= Len(out)
  BY <1>3 DEF Decoding
<1>5. ASSUME decoder' = Rows(a, 1 .. i)
      PROVE  /\ Decodable(decoder') = 1 .. i
             /\ UNION ToSet(delivered') = 1 .. h \cup {a * Symbols + j : j \in ToSet(out)}
  <2>1. Decodable(decoder') = 1 .. i
    BY <1>1, <1>2, <1>5, DecodableRows
  <2>2. decoder' \subseteq Rows(AgeOf(n), Indices)
    BY <1>2, <1>5 DEF Rows, a
  <2>3. UNION ToSet(delivered') =
          (UNION ToSet(delivered)) \cup {AgeOf(n) * Symbols + j : j \in ToSet(out)}
    BY <2>2, DecodeSendsAlso
  <2>4. QED
    BY <2>1, <2>3 DEF UpTo, a
<1>6. CASE n = h
  <2>1. Before(f.gen) = Rows(a, 1 .. i) /\ ToSet(Unsent(f.gen)) = {j \in Indices : j > i}
    BY <1>6 DEF Before, Unsent, UpTo, a, i
  <2>2. Row(a, c) \in Rows(a, 1 .. i)
    BY DEF Rows
  <2>3. decoder' = Rows(a, 1 .. i)
    BY <1>4, <2>1, <2>2 DEF Learned
  <2>4. ToSet(out) = {}
    <3>1. ToSet(out) \subseteq 1 .. i /\ ToSet(out) \subseteq {j \in Indices : j > i}
      BY <1>4, <1>5, <2>1, <2>3
    <3>2. QED
      BY <1>2, <3>1
  <2>5. ToSet(undecoded') = {j \in Indices : j > i}
    BY <1>4, <2>1, <2>4
  <2>6. UNION ToSet(delivered') = 1 .. n
    BY <1>5, <1>6, <2>3, <2>4
  <2>7. QED
    BY <2>3, <2>5, <2>6 DEF UpTo, a, i
<1>7. CASE n = h + 1 /\ c = {i}
  <2>1. Before(f.gen) = Rows(a, 1 .. i - 1) /\ ToSet(Unsent(f.gen)) = {j \in Indices : j > i - 1}
    <3>1. \/ AgeOf(n) = AgeOf(h) /\ Place(n) = Place(h) + 1
          \/ AgeOf(n) = AgeOf(h) + 1 /\ Place(n) = 1
      BY <1>7, NextPacket
    <3>2. AgeOf(h) \in Nat /\ Place(h) \in Nat
      BY AgeProperties
    <3>3. CASE AgeOf(n) = AgeOf(h) /\ Place(n) = Place(h) + 1
      <4>1. Place(h) = i - 1
        BY <3>2, <3>3 DEF i
      <4>2. QED
        BY <3>3, <4>1 DEF Before, Unsent, UpTo, a
    <3>4. CASE AgeOf(n) = AgeOf(h) + 1 /\ Place(n) = 1
      <4>1. Restarts(f.gen) /\ i = 1
        BY <3>2, <3>4 DEF i
      <4>2. Rows(a, {}) = {Zero}
        BY DEF Rows, Row, Zero
      <4>3. 1 .. i - 1 = {} /\ \A j \in Indices : j > i - 1
        BY <4>1, ChainAssumption DEF Indices
      <4>4. QED
        BY <4>1, <4>2, <4>3, AllIndicesList DEF Before, Unsent
    <3>5. QED
      BY <3>1, <3>3, <3>4
  <2>2. decoder' = Rows(a, 1 .. i)
    BY <1>1, <1>4, <1>7, <2>1, LearnedAll DEF i
  <2>3. ToSet(out) \subseteq {i}
    <3>1. ToSet(out) \subseteq 1 .. i /\ ToSet(out) \subseteq {j \in Indices : j > i - 1}
      BY <1>4, <1>5, <2>1, <2>2
    <3>2. \A j \in 1 .. i : j > i - 1 => j = i
      BY <1>2
    <3>3. QED
      BY <3>1, <3>2
  <2>4. i \in ToSet(Unsent(f.gen)) /\ i \in Decodable(decoder')
    BY <1>1, <1>2, <1>5, <2>1, <2>2 DEF i
  <2>5. i \in ToSet(out)
    <3> DEFINE K == ToSet(undecoded') \cap Decodable(decoder')
    <3> SUFFICES ASSUME i \notin ToSet(out) PROVE FALSE
      OBVIOUS
    <3>1. i \in K
      BY <1>4, <2>4
    <3>2. ToSet(out) = {}
      BY <2>3
    <3>3. Len(out) = 0
      <4>1. Len(out) \in Nat /\ DOMAIN out = 1 .. Len(out)
        BY LenProperties DEF Decoding
      <4>2. Len(out) # 0 => 1 \in DOMAIN out
        BY <4>1
      <4>3. QED
        BY <3>2, <4>2 DEF ToSet
    <3>4. IsFiniteSet(K) /\ Cardinality(K) <= 0
      BY <1>4, <3>3
    <3> HIDE DEF K
    <3>5. Cardinality(K) = 0
      BY <3>4, FS_CardinalityType
    <3>6. K = {}
      BY <3>4, <3>5, FS_EmptySet
    <3>7. QED
      BY <3>1, <3>6
  <2>6. ToSet(out) = {i}
    BY <2>3, <2>5
  <2>7. ToSet(undecoded') = {j \in Indices : j > i}
    <3>1. \A j \in Indices : j > i <=> j > i - 1 /\ j # i
      BY <1>2, ChainAssumption DEF Indices
    <3>2. QED
      BY <1>4, <2>1, <2>6, <3>1
  <2>8. UNION ToSet(delivered') = 1 .. n
    <3>1. UNION ToSet(delivered') = 1 .. h \cup {n}
      BY <1>1, <1>5, <2>2, <2>6 DEF i
    <3>2. QED
      BY <1>7, <3>1
  <2>9. QED
    BY <2>2, <2>7, <2>8 DEF UpTo, a, i
<1>8. QED
  BY <1>3, <1>6, <1>7

LEMMA DecodeIsConsistent ==
  ASSUME ChainBase, Steady, Decode, NEW d, NEW r, NEW h, Consistent(d, r, h)
  PROVE  \E x, y, z : Consistent(x, y, z)'
<1>0. ChainTypeOK
  BY DEF ChainBase
<1>1. PICK n : n = d[1]
  OBVIOUS
<1>2. PICK f : f = Head(link["decoder"])
  OBVIOUS
<1>3. /\ Numbers(d, r, h) /\ FewMissed(d, r, h) /\ RecoderInv(r) /\ DecoderInv(h) /\ DeliveredInv(h)
      /\ systematic /\ lostFrames = 0 => LosslessInv(d, r, h)
  BY DEF Consistent
<1>4. /\ link["recoder"] \in Seq(FrameType) /\ link["decoder"] \in Seq(FrameType)
      /\ OnLink(r, link["recoder"]) /\ OnLink(d, link["decoder"])
      /\ next \in Nat /\ h \in Nat
  BY <1>0, <1>3 DEF Numbers, ChainTypeOK
<1>5. /\ link["decoder"] # <<>>
      /\ link' = [link EXCEPT !["decoder"] = Tail(@)]
      /\ generation' = IF Restarts(f.gen) THEN [generation EXCEPT !["decoder"] = f.gen] ELSE generation
  BY <1>0, <1>2, DecodeGives
<1>6. PICK out : Decoding(Before(f.gen), Unsent(f.gen), out)
  BY <1>0, <1>2, DecodeGives
<1>7. UNCHANGED <<recoding, systematic, next, block, redundancy, recoder, lostFrames>>
  BY DEF Decode
<1> DEFINE x == Tail(d)
<1>8. /\ OnLink(x, Tail(link["decoder"])) /\ IsFrame(f, n) /\ n \in Nat \ {0}
      /\ ToSet(d) = ToSet(x) \cup {n} /\ \A u \in ToSet(d) : n <= u
      /\ d # <<>> /\ d \in Seq(Nat) /\ Len(d) = Len(link["decoder"])
  BY <1>1, <1>2, <1>4, <1>5, OnLinkTail DEF OnLink
<1> HIDE DEF x
<1>9. /\ n \in 1 .. next - 1 /\ h <= n /\ n < next
      /\ \A u \in ToSet(d) \cup ToSet(r) : n <= u
  <2>1. h <= n /\ n < next
    BY <1>3, <1>8 DEF Numbers
  <2>2. \A u \in ToSet(r) : n <= u
    BY <1>3, <1>8 DEF Numbers
  <2>3. QED
    BY <1>4, <1>8, <2>1, <2>2
<1>10. /\ f.gen = Number(AgeOf(n)) /\ f.row \in Rows(AgeOf(n), Indices)
       /\ AgeOf(n) \in Nat /\ AgeOf(h) \in Nat /\ Number(AgeOf(n)) \in Nat
  <2>1. AgeOf(n) \in Nat /\ AgeOf(h) \in Nat
    BY <1>4, <1>8, AgeProperties
  <2>2. Number(AgeOf(n)) \in Nat
    BY <2>1, NumberProperties
  <2>3. QED
    BY <1>8, <2>1, <2>2 DEF IsFrame
<1>11. AgeOf(h) <= AgeOf(n) /\ (Restarts(f.gen) <=> AgeOf(n) # AgeOf(h))
  BY <1>0, <1>3, <1>9, <1>10, DecodeAge
<1>12. /\ generation'["decoder"] = Number(AgeOf(n))
       /\ generation'["recoder"] = generation["recoder"]
  BY <1>0, <1>3, <1>5, <1>10, <1>11 DEF DecoderInv, ChainTypeOK, Coders
<1>13. link'["decoder"] = Tail(link["decoder"]) /\ link'["recoder"] = link["recoder"]
  BY <1>0, <1>5 DEF ChainTypeOK
<1>14. decoder' \subseteq Rows(AgeOf(n), Indices)
  <2>1. Before(f.gen) \subseteq Rows(AgeOf(n), Indices)
    BY <1>3, <1>10, <1>11, ZeroIsRow DEF Before, DecoderInv
  <2>2. decoder' = Learned(Before(f.gen), f.row)
    BY <1>2, <1>6 DEF Decoding
  <2>3. QED
    BY <1>10, <2>1, <2>2, LearnedRows
<1>15. Numbers(x, r, n)'
  BY <1>3, <1>4, <1>7, <1>8, <1>9, <1>13 DEF Numbers
<1>16. FewMissed(x, r, n)'
  <2>1. PICK M : M = Missed(x, r, n)'
    OBVIOUS
  <2>2. M \in SUBSET Missed(d, r, h)
    <3> SUFFICES ASSUME NEW p \in M PROVE p \in Missed(d, r, h)
      OBVIOUS
    <3>1. p \in 1 .. next - 1 /\ AgeOf(p) > AgeOf(n) /\ p \notin ToSet(x) \cup ToSet(r)
      BY <1>7, <2>1 DEF Missed
    <3>2. AgeOf(p) \in Nat
      BY <1>4, <3>1, AgeProperties
    <3>3. p # n /\ AgeOf(p) > AgeOf(h)
      BY <1>10, <1>11, <3>1, <3>2
    <3>4. QED
      BY <1>8, <3>1, <3>3 DEF Missed
  <2>3. Cardinality(M) <= lostFrames
    BY <1>0, <1>3, <2>2, StillFewMissed
  <2>4. QED
    BY <1>7, <2>1, <2>3 DEF FewMissed
<1>17. RecoderInv(r)' /\ DecoderInv(n)'
  BY <1>3, <1>7, <1>12, <1>14 DEF RecoderInv, DecoderInv
<1>18. DeliveredInv(n)'
  <2>1. AgeOf(n) = AgeOf(h) => Unsent(f.gen) = undecoded
    BY <1>11 DEF Unsent
  <2>2. QED
    BY <1>0, <1>3, <1>4, <1>6, <1>8, <1>11, <1>14, <2>1, DecodeKeepsDelivered
<1>19. ASSUME systematic, lostFrames = 0 PROVE LosslessInv(x, r, n)'
  <2>1. LosslessInv(d, r, h)
    BY <1>3, <1>19
  <2>2. /\ Follows(h, n, f.row.coef) /\ Follow(n, x, Tail(link["decoder"])) /\ Newest(n, x) = Newest(h, d)
    BY <1>1, <1>2, <1>4, <1>8, <2>1, FollowTail DEF LosslessInv, x
  <2>3. UpTo(h)
    BY <2>1 DEF LosslessInv, UpTo
  <2>4. UpTo(n)'
    BY <1>0, <1>2, <1>4, <1>6, <1>8, <1>10, <1>11, <2>2, <2>3, DecodeKeepsUpTo
  <2>5. QED
    BY <1>7, <1>12, <1>13, <2>1, <2>2, <2>4 DEF LosslessInv, UpTo
<1>20. Consistent(x, r, n)'
  BY <1>7, <1>15, <1>16, <1>17, <1>18, <1>19 DEF Consistent
<1>21. QED
  BY <1>20

LEMMA NextKeepsChain == ChainInv /\ [ChainNext]_chainVars => ChainInv'
<1> SUFFICES ASSUME ChainInv, [ChainNext]_chainVars PROVE ChainInv'
  OBVIOUS
<1>1. ChainBase /\ ChainBase' /\ ChainTypeOK
  BY NextKeepsBase DEF ChainInv, ChainBase
<1>2. CASE UNCHANGED chainVars
  <2>1. UNCHANGED <<recoding, systematic, next, generation, link, recoder, decoder,
                    undecoded, delivered, lostFrames>>
    BY <1>2 DEF chainVars
  <2>2. Steady' => Steady
    BY <2>1 DEF Steady
  <2>3. QED
    BY <1>1, <2>1, <2>2, OamIsConsistent DEF ChainInv
<1>3. CASE ChainNext
  <2> SUFFICES ASSUME Steady' PROVE \E d, r, h : Consistent(d, r, h)'
    BY <1>1 DEF ChainInv
  <2>1. Steady
    BY <1>1, <1>3, SteadyBefore
  <2>2. PICK d, r, h : Consistent(d, r, h)
    BY <2>1 DEF ChainInv
  <2>3. CASE Encode
    BY <1>1, <2>2, <2>3, EncodeIsConsistent
  <2>4. CASE OamEncoder \/ OamRecoder
    <3>1. UNCHANGED <<recoding, systematic, next, generation, link, recoder, decoder,
                      undecoded, delivered, lostFrames>>
      BY <2>4 DEF OamEncoder, OamRecoder
    <3>2. QED
      BY <2>2, <3>1, OamIsConsistent
  <2>5. CASE Forward
    BY <1>1, <2>2, <2>5, ForwardIsConsistent
  <2>6. CASE Recode
    BY <1>1, <2>1, <2>2, <2>6, RecodeIsConsistent
  <2>7. CASE Decode
    BY <1>1, <2>1, <2>2, <2>7, DecodeIsConsistent
  <2>8. CASE \E c \in {"recoder", "decoder"} : LoseFrame(c)
    BY <1>1, <2>2, <2>8, LossIsConsistent
  <2>9. QED
    BY <1>3, <2>3, <2>4, <2>5, <2>6, <2>7, <2>8 DEF ChainNext
<1>4. QED
  BY <1>2, <1>3

\* The chain works as described at every moment: the encoder's block holds the packets of the
\* generation of the next one (encoder.py:125-150), and as long as the numbers tell the
\* generations apart, the frames on the links, the recoder and the decoder hold combinations of
\* one generation each, in the order of the packets (recoder.py:121-148, decoder.py:100-136).
THEOREM ChainCorrect == ChainSpec => []ChainInv
<1>1. ChainInit => ChainInv
  BY InitBase, InitIsConsistent DEF ChainInv
<1>2. QED
  BY <1>1, NextKeepsChain, PTL DEF ChainSpec

LEMMA InStepIsSteady ==
  ASSUME ChainTypeOK, InStep
  PROVE  Steady
<1>1. CASE Age(next - 1) <= MaxGeneration
  <2>1. ASSUME NEW p \in 1 .. next - 1 PROVE Age(p) <= MaxGeneration
    <3>1. p \in Nat \ {0} /\ next - 1 \in Nat \ {0} /\ p <= next - 1
      BY DEF ChainTypeOK
    <3>2. Age(p) \in Nat /\ Age(next - 1) \in Nat /\ Age(p) <= Age(next - 1)
      BY <3>1, AgeProperties, AgeIsMonotone
    <3>3. QED
      BY <1>1, <3>2, ChainAssumption
  <2>2. QED
    BY <2>1 DEF Steady
<1>2. QED
  BY <1>1 DEF InStep, Steady

\* What the server gets are packets of the client, each at most once and generation after
\* generation, and a recoder never combines packets of two generations, however many frames
\* are lost, whatever the redundancy (recoder.py:121-131, decoder.py:100-136).
THEOREM PacketsStayPureHolds == ChainSpec => []PacketsStayPure
<1>1. ChainInv => PacketsStayPure
  <2> SUFFICES ASSUME ChainInv, InStep PROVE PacketsStayPure
    BY DEF PacketsStayPure, DeliversPackets, RecoderPure
  <2>1. ChainTypeOK
    BY DEF ChainInv, ChainBase
  <2>2. PICK d, r, h : Consistent(d, r, h)
    BY <2>1, InStepIsSteady DEF ChainInv
  <2>3. DeliveredInv(h) /\ RecoderInv(r)
    BY <2>2 DEF Consistent
  <2>4. \A p \in Nat \ {0} : AgeOf(p) = Age(p)
    BY AgeProperties
  <2>5. \A k \in DOMAIN delivered : \E p \in Nat \ {0} : delivered[k] = {p}
    BY <2>3 DEF DeliveredInv, Sent
  <2>6. \A k \in DOMAIN delivered : Cardinality(delivered[k]) = 1
    BY <2>5, FS_Singleton
  <2>7. DeliversPackets
    BY <2>3, <2>4, <2>5, <2>6 DEF DeliversPackets, DeliveredInv
  <2>8. RecoderPure
    <3> SUFFICES ASSUME NEW s \in recoder, NEW p \in s.data, NEW q \in s.data PROVE Age(p) = Age(q)
      BY DEF RecoderPure
    <3>1. CASE recoding
      <4> DEFINE a == generation["recoder"]
      <4>1. a \in Nat
        BY <2>1 DEF ChainTypeOK, Coders
      <4>2. PICK c \in SUBSET Indices : s = Row(a, c)
        BY <2>3, <3>1 DEF RecoderInv, Rows
      <4> HIDE DEF a
      <4>3. \A i \in c : a * Symbols + i \in Nat \ {0} /\ AgeOf(a * Symbols + i) = a
        BY <4>1, AgeOfPlace
      <4>4. PICK i \in c : p = a * Symbols + i
        BY <4>2 DEF Row
      <4>5. PICK j \in c : q = a * Symbols + j
        BY <4>2 DEF Row
      <4>6. QED
        BY <2>4, <4>3, <4>4, <4>5
    <3>2. CASE ~recoding
      BY <2>3, <3>2 DEF RecoderInv, Zero
    <3>3. QED
      BY <3>1, <3>2
  <2>9. QED
    BY <2>7, <2>8 DEF PacketsStayPure
<1>2. QED
  BY <1>1, ChainCorrect, PTL

\* With a systematic encoder and without loss everything arrives: with recoding in between, with
\* any redundancy, and when the numbers start again (decoder.py:112-136).
THEOREM LosslessIsCompleteHolds == ChainSpec => []LosslessIsComplete
<1>1. ChainInv => LosslessIsComplete
  <2> SUFFICES ASSUME ChainInv, systematic, lostFrames = 0, InStep,
                      \A c \in {"recoder", "decoder"} : link[c] = <<>>
               PROVE  UNION ToSet(delivered) = 1 .. (next - 1)
    BY DEF LosslessIsComplete
  <2>1. ChainTypeOK
    BY DEF ChainInv, ChainBase
  <2>2. PICK d, r, h : Consistent(d, r, h)
    BY <2>1, InStepIsSteady DEF ChainInv
  <2>3. LosslessInv(d, r, h) /\ Numbers(d, r, h)
    BY <2>2 DEF Consistent
  <2>4. d = <<>> /\ r = <<>>
    <3>1. d \in Seq(Nat) /\ r \in Seq(Nat) /\ Len(d) = Len(<<>>) /\ Len(r) = Len(<<>>)
      BY <2>3 DEF Numbers, OnLink
    <3>2. QED
      BY <3>1, EmptySeq
  <2>5. h = next - 1
    BY <2>3, <2>4 DEF LosslessInv, Newest
  <2>6. QED
    BY <2>3, <2>5 DEF LosslessInv
<1>2. QED
  BY <1>1, ChainCorrect, PTL
=============================================================================
