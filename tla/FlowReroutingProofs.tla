------------------------ MODULE FlowReroutingProofs ------------------------
(***************************************************************************)
(* Proofs about FlowRerouting for any finite network, any number of        *)
(* actions, resets and messages under way.  Two things are proved: that    *)
(* the rules end up on the path on record and nowhere else, whatever order *)
(* the switches apply their messages in, and that a flow that is up is     *)
(* delivered at every step between, if the messages are applied in the     *)
(* order they were sent in.                                                *)
(*                                                                         *)
(* The first part says of each switch what its rule will be when it has    *)
(* applied all its messages (EndsAt); the second, that the rules lead out  *)
(* of the network after any number of the messages under way (SafeFrom),   *)
(* which needs a rank that falls along each of the mixed rules: first the  *)
(* rest of the new path, then that of the old one.                         *)
(***************************************************************************)
EXTENDS FlowRerouting, SequenceLemmas

----------------------------------------------------------------------------
(* Sets of elements.                                                       *)

\* The elements of a list with one more.
LEMMA ToSetAppend ==
  ASSUME NEW T, NEW s \in Seq(T), NEW e \in T
  PROVE  ToSet(Append(s, e)) = ToSet(s) \cup {e}
<1>1. /\ Len(s) \in Nat /\ DOMAIN s = 1 .. Len(s) /\ DOMAIN Append(s, e) = 1 .. Len(s) + 1
      /\ \A i \in 1 .. Len(s) : Append(s, e)[i] = s[i]
      /\ Append(s, e)[Len(s) + 1] = e
  BY AppendProperties
<1>2. 1 .. Len(s) + 1 = (1 .. Len(s)) \cup {Len(s) + 1}
  BY <1>1
<1> DEFINE t == Append(s, e)
<1> HIDE DEF t
<1>3. QED
  BY <1>1, <1>2 DEF ToSet, t

\* The elements of a list in reverse.
LEMMA ToSetReverse ==
  ASSUME NEW T, NEW s \in Seq(T)
  PROVE  Reverse(s) \in Seq(T) /\ ToSet(Reverse(s)) = ToSet(s)
<1>1. /\ Len(s) \in Nat /\ DOMAIN s = 1 .. Len(s)
      /\ \A i \in 1 .. Len(s) : s[i] \in T
  BY LenProperties, ElementOfSeq
<1>2. /\ DOMAIN Reverse(s) = 1 .. Len(s)
      /\ \A i \in 1 .. Len(s) : Reverse(s)[i] = s[(Len(s) - i) + 1]
  BY <1>1 DEF Reverse
<1>3. \A i \in 1 .. Len(s) : (Len(s) - i) + 1 \in 1 .. Len(s)
  BY <1>1
<1>4. Reverse(s) \in [1 .. Len(s) -> T]
  BY <1>1, <1>3 DEF Reverse
<1>5. Reverse(s) \in Seq(T)
  BY <1>1, <1>4, SeqDef
<1> DEFINE r == Reverse(s)
<1> HIDE DEF r
<1>6. ToSet(r) \subseteq ToSet(s)
  BY <1>1, <1>2, <1>3 DEF ToSet, r
<1>7. ASSUME NEW i \in 1 .. Len(s) PROVE s[i] \in ToSet(r)
  <2>1. r[(Len(s) - i) + 1] = s[i]
    <3>1. (Len(s) - ((Len(s) - i) + 1)) + 1 = i
      BY <1>1
    <3>2. QED
      BY <1>2, <1>3, <3>1 DEF r
  <2>2. QED
    BY <1>2, <1>3, <2>1 DEF ToSet, r
<1>8. QED
  BY <1>1, <1>5, <1>6, <1>7 DEF ToSet, r

----------------------------------------------------------------------------
(* The lists of reroute.                                                   *)

\* One step of Kept: what the first n elements of a list contribute, given f for fewer.
KeptStep(list, set, f, n) ==
  IF n = 0 THEN <<>> ELSE IF list[n] \in set THEN Append(f[n - 1], list[n]) ELSE f[n - 1]

\* The recursive function of Kept exists, up to every length.
LEMMA KeptExists ==
  ASSUME NEW T, NEW list \in Seq(T), NEW set
  PROVE  \A m \in 0 .. Len(list) : \E f : \A n \in 0 .. m : f[n] = KeptStep(list, set, f, n)
<1> DEFINE Good(m) == \E f \in [0 .. m -> Seq(T)] :
                        \A n \in 0 .. m : f[n] = KeptStep(list, set, f, n)
           Bad == {m \in 0 .. Len(list) : ~Good(m)}
<1>1. Len(list) \in Nat /\ \A n \in 1 .. Len(list) : list[n] \in T
  OBVIOUS
<1>2. Good(0)
  <2>1. [n \in 0 .. 0 |-> <<>>] \in [0 .. 0 -> Seq(T)]
    OBVIOUS
  <2>2. \A n \in 0 .. 0 : [k \in 0 .. 0 |-> <<>>][n] = KeptStep(list, set, [k \in 0 .. 0 |-> <<>>], n)
    <3>1. \A n \in 0 .. 0 : n = 0
      OBVIOUS
    <3>2. QED
      BY <3>1 DEF KeptStep
  <2>3. QED
    BY <2>1, <2>2
<1>3. ASSUME NEW m \in 0 .. Len(list), m # 0, Good(m - 1)
      PROVE  Good(m)
  <2>1. PICK f \in [0 .. m - 1 -> Seq(T)] : \A n \in 0 .. m - 1 : f[n] = KeptStep(list, set, f, n)
    BY <1>3
  <2>2. m \in Nat /\ m - 1 \in 0 .. m - 1 /\ m \in 1 .. Len(list)
    BY <1>1, <1>3
  <2>3. f[m - 1] \in Seq(T) /\ list[m] \in T
    BY <1>1, <2>2
  <2> DEFINE last == KeptStep(list, set, f, m)
             g == [n \in 0 .. m |-> IF n = m THEN last ELSE f[n]]
  <2>4. last \in Seq(T)
    BY <2>2, <2>3 DEF KeptStep
  <2> HIDE DEF last
  <2>5. g \in [0 .. m -> Seq(T)]
    BY <2>2, <2>4
  <2>6. ASSUME NEW n \in 0 .. m PROVE g[n] = KeptStep(list, set, g, n)
    <3>1. CASE n = m
      <4>1. g[n - 1] = f[n - 1] /\ g[n] = last
        BY <2>2, <3>1
      <4>2. QED
        BY <4>1, <3>1 DEF KeptStep, last
    <3>2. CASE n # m
      <4>1. n \in 0 .. m - 1 /\ (n # 0 => n - 1 \in 0 .. m - 1)
        BY <2>2, <3>2
      <4>2. g[n] = f[n] /\ (n # 0 => g[n - 1] = f[n - 1])
        BY <2>2, <4>1
      <4>3. f[n] = KeptStep(list, set, f, n)
        BY <2>1, <4>1
      <4>4. QED
        BY <4>2, <4>3 DEF KeptStep
    <3>3. QED
      BY <3>1, <3>2
  <2>7. QED
    BY <2>5, <2>6
<1> HIDE DEF Good
<1>4. SUFFICES ASSUME Bad # {} PROVE FALSE
  BY DEF Good
<1>5. PICK m \in Bad : \A k \in Bad : m <= k
  <2>1. Bad \in SUBSET Nat
    BY <1>1
  <2>2. QED
    BY <1>4, <2>1, NatsHaveLeast
<1>6. m # 0 /\ m \in 0 .. Len(list)
  BY <1>2, <1>5
<1>7. m - 1 \in 0 .. Len(list) /\ ~(m <= m - 1)
  BY <1>1, <1>6
<1>8. Good(m - 1)
  BY <1>5, <1>7
<1>9. QED
  BY <1>3, <1>5, <1>6, <1>8

\* Kept is computed by such a function.
LEMMA KeptUnfolds ==
  ASSUME NEW T, NEW list \in Seq(T), NEW set
  PROVE  \E f : /\ \A n \in 0 .. Len(list) : f[n] = KeptStep(list, set, f, n)
                /\ Kept(list, set) = f[Len(list)]
<1> DEFINE F(f) == [n \in 0 .. Len(list) |->
                      IF n = 0 THEN <<>>
                      ELSE IF list[n] \in set THEN Append(f[n - 1], list[n]) ELSE f[n - 1]]
           u == CHOOSE f : f = F(f)
<1>1. Kept(list, set) = u[Len(list)]
  BY DEF Kept
<1>2. Len(list) \in 0 .. Len(list)
  OBVIOUS
<1>3. PICK h : \A n \in 0 .. Len(list) : h[n] = KeptStep(list, set, h, n)
  <2> HIDE DEF F, u
  <2>1. \A m \in 0 .. Len(list) : \E f : \A n \in 0 .. m : f[n] = KeptStep(list, set, f, n)
    BY KeptExists
  <2>2. QED
    BY <1>2, <2>1
<1> DEFINE g == [n \in 0 .. Len(list) |-> h[n]]
<1>4. g = F(g)
  <2>1. g = [n \in 0 .. Len(list) |-> g[n]]
    BY <1>3
  <2>2. \A n \in 0 .. Len(list) : g[n] = F(g)[n]
    BY <1>3 DEF KeptStep
  <2>3. QED
    BY <2>1, <2>2
<1>5. u = F(u)
  <2> HIDE DEF F
  <2>1. QED
    BY <1>4
<1>6. \A n \in 0 .. Len(list) : u[n] = KeptStep(list, set, u, n)
  <2> HIDE DEF u
  <2>1. QED
    BY <1>5 DEF KeptStep
<1>7. QED
  BY <1>1, <1>6

\* Kept takes the elements of the list that are in the set.
LEMMA KeptProperties ==
  ASSUME NEW T, NEW list \in Seq(T), NEW set
  PROVE  /\ Kept(list, set) \in Seq(T)
         /\ ToSet(Kept(list, set)) = ToSet(list) \cap set
<1>1. Len(list) \in Nat /\ \A n \in 1 .. Len(list) : list[n] \in T
  OBVIOUS
<1>2. PICK f : /\ \A n \in 0 .. Len(list) : f[n] = KeptStep(list, set, f, n)
               /\ Kept(list, set) = f[Len(list)]
  BY KeptUnfolds
<1> DEFINE Good(m) == f[m] \in Seq(T) /\ ToSet(f[m]) = {list[i] : i \in 1 .. m} \cap set
           Bad == {m \in 0 .. Len(list) : ~Good(m)}
<1>3. Good(0)
  <2>1. f[0] = <<>>
    BY <1>1, <1>2 DEF KeptStep
  <2>2. 1 .. 0 = {}
    OBVIOUS
  <2>3. QED
    BY <2>1, <2>2 DEF ToSet
<1>4. ASSUME NEW m \in 0 .. Len(list), m # 0, Good(m - 1)
      PROVE  Good(m)
  <2>1. m \in 1 .. Len(list) /\ list[m] \in T /\ 1 .. m = (1 .. m - 1) \cup {m}
    BY <1>1, <1>4
  <2>2. f[m] = IF list[m] \in set THEN Append(f[m - 1], list[m]) ELSE f[m - 1]
    BY <1>2, <1>4 DEF KeptStep
  <2>3. {list[i] : i \in 1 .. m} = {list[i] : i \in 1 .. m - 1} \cup {list[m]}
    BY <2>1
  <2>4. CASE list[m] \in set
    <3>1. ToSet(Append(f[m - 1], list[m])) = ToSet(f[m - 1]) \cup {list[m]}
      BY <1>4, <2>1, ToSetAppend
    <3>2. Append(f[m - 1], list[m]) \in Seq(T)
      BY <1>4, <2>1
    <3>3. QED
      BY <1>4, <2>2, <2>3, <2>4, <3>1, <3>2
  <2>5. CASE list[m] \notin set
    BY <1>4, <2>2, <2>3, <2>5
  <2>6. QED
    BY <2>4, <2>5
<1> HIDE DEF Good
<1>5. Bad = {}
  <2>1. SUFFICES ASSUME Bad # {} PROVE FALSE
    OBVIOUS
  <2>2. Bad \in SUBSET Nat
    BY <1>1
  <2>3. PICK m \in Bad : \A k \in Bad : m <= k
    BY <2>1, <2>2, NatsHaveLeast
  <2>4. m # 0 /\ m \in 0 .. Len(list)
    BY <1>3, <2>3
  <2>5. m - 1 \in 0 .. Len(list) /\ ~(m <= m - 1)
    BY <1>1, <2>4
  <2>6. Good(m - 1)
    BY <2>3, <2>5
  <2>7. QED
    BY <1>4, <2>3, <2>4, <2>6
<1>6. Good(Len(list))
  BY <1>1, <1>5
<1>7. ToSet(list) = {list[i] : i \in 1 .. Len(list)}
  BY <1>1 DEF ToSet
<1>8. QED
  BY <1>2, <1>6, <1>7 DEF Good

----------------------------------------------------------------------------
(* Paths.                                                                  *)

\* What a path is.
LEMMA PathFacts ==
  ASSUME NEW p \in Paths
  PROVE  /\ p \in Seq(Switches) /\ Len(p) \in Nat /\ Len(p) >= 2
         /\ DOMAIN p = 1 .. Len(p)
         /\ \A i \in 1 .. Len(p) : p[i] \in Switches
         /\ \A i, j \in 1 .. Len(p) : p[i] = p[j] => i = j
         /\ p[1] = Src /\ p[Len(p)] = Dst
<1>1. PICK n \in 2 .. Cardinality(Switches) : p \in [1 .. n -> Switches]
  BY DEF Paths
<1>2. n \in Nat /\ n >= 2
  <2>1. Cardinality(Switches) \in Nat
    BY FlowReroutingAssumption, FS_CardinalityType
  <2>2. QED
    BY <2>1
<1>3. p \in Seq(Switches)
  BY <1>1, <1>2, SeqDef
<1>4. Len(p) = n /\ DOMAIN p = 1 .. n
  BY <1>1, <1>2, <1>3, LenProperties
<1>5. IsPath(p)
  BY DEF Paths
<1>6. QED
  BY <1>1, <1>2, <1>3, <1>4, <1>5 DEF IsPath

\* The position of a switch on a path.
LEMMA PosFacts ==
  ASSUME NEW p \in Paths, NEW i \in 1 .. Len(p)
  PROVE  On(p, p[i]) /\ Pos(p, p[i]) = i
<1>1. DOMAIN p = 1 .. Len(p) /\ \A j \in 1 .. Len(p) : p[i] = p[j] => i = j
  BY PathFacts
<1>2. On(p, p[i])
  BY <1>1 DEF On
<1>3. Pos(p, p[i]) \in DOMAIN p /\ p[Pos(p, p[i])] = p[i]
  BY <1>1 DEF Pos
<1>4. QED
  BY <1>1, <1>2, <1>3

\* A switch on a path is at its position.
LEMMA OnPath ==
  ASSUME NEW p \in Paths, NEW s, On(p, s)
  PROVE  Pos(p, s) \in 1 .. Len(p) /\ p[Pos(p, s)] = s /\ s \in Switches /\ s \in ToSet(p)
<1>1. DOMAIN p = 1 .. Len(p) /\ \A i \in 1 .. Len(p) : p[i] \in Switches
  BY PathFacts
<1>2. PICK i \in 1 .. Len(p) : p[i] = s
  BY <1>1 DEF On
<1>3. Pos(p, s) = i
  BY <1>2, PosFacts
<1>4. QED
  BY <1>1, <1>2, <1>3 DEF ToSet

\* The hop at a position of a path.
LEMMA NextAt ==
  ASSUME NEW p \in Paths, NEW i \in 1 .. Len(p)
  PROVE  NextOn(p, p[i]) = IF i = Len(p) THEN Host ELSE p[i + 1]
BY PosFacts DEF NextOn

\* The elements of a path are the switches on it.
LEMMA PathElements ==
  ASSUME NEW p \in Paths, NEW s
  PROVE  s \in ToSet(p) <=> On(p, s)
BY DEF ToSet, On

\* The hops of a path are switches of the network, and the last one leaves it.
LEMMA NextType ==
  ASSUME NEW p \in Paths, NEW s, On(p, s)
  PROVE  NextOn(p, s) \in Switches \cup {Host}
<1>1. Pos(p, s) \in 1 .. Len(p) /\ p[Pos(p, s)] = s
  BY OnPath
<1>2. Len(p) \in Nat /\ \A i \in 1 .. Len(p) : p[i] \in Switches
  BY PathFacts
<1>3. CASE Pos(p, s) = Len(p)
  BY <1>3 DEF NextOn
<1>4. CASE Pos(p, s) # Len(p)
  <2>1. Pos(p, s) + 1 \in 1 .. Len(p)
    BY <1>1, <1>2, <1>4
  <2>2. QED
    BY <1>2, <1>4, <2>1 DEF NextOn
<1>5. QED
  BY <1>3, <1>4

\* A switch that is neither new nor to be modified has the hop of the new path already.
LEMMA NotFollowsKeeps ==
  ASSUME NEW old \in Paths, NEW new \in Paths, NEW s,
         On(old, s), On(new, s), s \notin Follows(old, new)
  PROVE  NextOn(old, s) = NextOn(new, s)
<1> DEFINE i == Pos(new, s)
           t == NextOn(new, s)
<1>1. /\ i \in 1 .. Len(new) /\ new[i] = s /\ s \in ToSet(new)
      /\ Pos(old, s) \in 1 .. Len(old) /\ old[Pos(old, s)] = s
  BY OnPath
<1>2. CASE s = Dst
  <2>1. /\ old[Len(old)] = Dst /\ new[Len(new)] = Dst
        /\ Len(old) \in 1 .. Len(old) /\ Len(new) \in 1 .. Len(new)
    BY PathFacts
  <2>2. NextOn(old, old[Len(old)]) = Host /\ NextOn(new, new[Len(new)]) = Host
    BY <2>1, NextAt
  <2>3. QED
    BY <1>2, <2>1, <2>2
<1>3. CASE s # Dst
  <2>1. On(old, t) /\ Before(old, t) = s
    BY <1>1, <1>3 DEF Follows
  <2>2. i # Len(new)
    BY <1>1, <1>3, PathFacts
  <2>3. Len(new) \in Nat /\ i + 1 \in 1 .. Len(new) /\ i + 1 # 1 /\ 1 \in 1 .. Len(new)
    BY <1>1, <2>2, PathFacts
  <2>4. t = new[i + 1]
    BY <2>2 DEF NextOn
  <2>5. t # Src
    <3>1. new[1] = Src /\ \A j, k \in 1 .. Len(new) : new[j] = new[k] => j = k
      BY PathFacts
    <3>2. QED
      BY <2>3, <2>4, <3>1
  <2> DEFINE k == Pos(old, t)
  <2>6. k \in 1 .. Len(old) /\ old[k] = t
    BY <2>1, OnPath
  <2>7. k # 1
    BY <2>5, <2>6, PathFacts
  <2>8. /\ Len(old) \in Nat /\ k - 1 \in 1 .. Len(old) /\ k - 1 # Len(old)
        /\ (k - 1) + 1 = k
    BY <2>6, <2>7, PathFacts
  <2>9. old[k - 1] = s
    BY <2>1 DEF Before
  <2> HIDE DEF k
  <2>10. NextOn(old, old[k - 1]) = old[(k - 1) + 1]
    BY <2>8, NextAt
  <2>11. QED
    BY <2>6, <2>8, <2>9, <2>10
<1>4. QED
  BY <1>2, <1>3

----------------------------------------------------------------------------
(* Messages.                                                               *)

Hops == Switches \cup {NoRule, Host}
Message == [switch : Switches, hop : Hops]

\* Every message of ms to switch s sets hop h.
Agrees(ms, s, h) == \A m \in ToSet(ms) : m.switch = s => m.hop = h

\* Some message of ms is to switch s.
Reaches(ms, s) == \E m \in ToSet(ms) : m.switch = s

\* Once a switch with hop t has applied its messages among ms, its hop is h.
EndsAt(ms, t, s, h) ==
  \/ /\ t = h
     /\ \A j \in 1 .. Len(ms) : ms[j].switch # s
  \/ \E i \in 1 .. Len(ms) :
       /\ ms[i].switch = s /\ ms[i].hop = h
       /\ \A j \in 1 .. Len(ms) : j > i => ms[j].switch # s

\* Either a switch gets no message, or there is a last one to it.
LEMMA LastMessage ==
  ASSUME NEW T, NEW ms \in Seq(T), NEW s, Reaches(ms, s)
  PROVE  \E i \in 1 .. Len(ms) :
           /\ ms[i].switch = s
           /\ \A j \in 1 .. Len(ms) : j > i => ms[j].switch # s
<1>1. Len(ms) \in Nat /\ DOMAIN ms = 1 .. Len(ms)
  BY LenProperties
<1> DEFINE D == {n \in 0 .. Len(ms) - 1 : ms[Len(ms) - n].switch = s}
<1>2. PICK i \in 1 .. Len(ms) : ms[i].switch = s
  BY <1>1 DEF Reaches, ToSet
<1>3. Len(ms) - i \in D
  <2>1. Len(ms) - i \in 0 .. Len(ms) - 1 /\ Len(ms) - (Len(ms) - i) = i
    BY <1>1
  <2>2. QED
    BY <1>2, <2>1
<1>4. D \in SUBSET Nat
  BY <1>1
<1>5. PICK d \in D : \A e \in D : d <= e
  BY <1>3, <1>4, NatsHaveLeast
<1>6. d \in 0 .. Len(ms) - 1 /\ ms[Len(ms) - d].switch = s
  BY <1>5
<1>7. Len(ms) - d \in 1 .. Len(ms)
  BY <1>1, <1>6
<1>8. ASSUME NEW j \in 1 .. Len(ms), j > Len(ms) - d PROVE ms[j].switch # s
  <2>1. SUFFICES ASSUME ms[j].switch = s PROVE FALSE
    OBVIOUS
  <2>2. Len(ms) - j \in 0 .. Len(ms) - 1 /\ Len(ms) - (Len(ms) - j) = j
    BY <1>1
  <2>3. Len(ms) - j \in D
    BY <2>1, <2>2
  <2>4. d <= Len(ms) - j
    BY <1>5, <2>3
  <2>5. QED
    BY <1>1, <1>6, <1>8, <2>4
<1>9. QED
  BY <1>6, <1>7, <1>8

\* Messages that are sent later, and agree, change nothing.
LEMMA EndsAtAgrees ==
  ASSUME NEW T, NEW ms \in Seq(T), NEW ns \in Seq(T), NEW t, NEW s, NEW h,
         EndsAt(ms, t, s, h), Agrees(ns, s, h)
  PROVE  EndsAt(ms \o ns, t, s, h)
<1> DEFINE c == ms \o ns
<1>1. /\ Len(ms) \in Nat /\ Len(ns) \in Nat /\ DOMAIN ns = 1 .. Len(ns)
      /\ c \in Seq(T) /\ Len(c) = Len(ms) + Len(ns)
      /\ \A i \in 1 .. Len(ms) + Len(ns) :
           c[i] = IF i <= Len(ms) THEN ms[i] ELSE ns[i - Len(ms)]
  BY ConcatProperties, LenProperties
<1> HIDE DEF c
<1>2. CASE \A i \in 1 .. Len(ns) : ns[i].switch # s
  <2>1. ASSUME NEW j \in 1 .. Len(c), j > Len(ms) PROVE c[j].switch # s
    <3>1. j - Len(ms) \in 1 .. Len(ns)
      BY <1>1, <2>1
    <3>2. c[j] = ns[j - Len(ms)]
      BY <1>1, <2>1
    <3>3. QED
      BY <1>2, <3>1, <3>2
  <2>2. CASE t = h /\ \A j \in 1 .. Len(ms) : ms[j].switch # s
    <3>1. \A j \in 1 .. Len(c) : c[j].switch # s
      BY <1>1, <2>1, <2>2
    <3>2. QED
      BY <2>2, <3>1 DEF EndsAt, c
  <2>3. ASSUME NEW i \in 1 .. Len(ms), ms[i].switch = s, ms[i].hop = h,
               \A j \in 1 .. Len(ms) : j > i => ms[j].switch # s
        PROVE  EndsAt(c, t, s, h)
    <3>1. i \in 1 .. Len(c) /\ c[i] = ms[i]
      BY <1>1
    <3>2. ASSUME NEW j \in 1 .. Len(c), j > i PROVE c[j].switch # s
      <4>1. CASE j > Len(ms)
        BY <2>1, <4>1
      <4>2. CASE ~(j > Len(ms))
        <5>1. j \in 1 .. Len(ms) /\ c[j] = ms[j]
          BY <1>1, <4>2
        <5>2. QED
          BY <2>3, <3>2, <5>1
      <4>3. QED
        BY <4>1, <4>2
    <3>3. QED
      BY <2>3, <3>1, <3>2 DEF EndsAt
  <2>4. QED
    BY <2>2, <2>3 DEF EndsAt, c
<1>3. CASE \E i \in 1 .. Len(ns) : ns[i].switch = s
  <2>1. Reaches(c, s) /\ \A j \in 1 .. Len(ns) : ns[j].switch = s => ns[j].hop = h
    <3>1. ToSet(c) = ToSet(ms) \cup ToSet(ns)
      BY ToSetConcat DEF c
    <3>2. \A j \in 1 .. Len(ns) : ns[j] \in ToSet(ns)
      BY <1>1 DEF ToSet
    <3>3. QED
      BY <1>3, <3>1, <3>2 DEF Reaches, Agrees
  <2>2. PICK i \in 1 .. Len(c) : /\ c[i].switch = s
                                 /\ \A j \in 1 .. Len(c) : j > i => c[j].switch # s
    BY <1>1, <2>1, LastMessage
  <2>3. PICK k \in 1 .. Len(ns) : ns[k].switch = s
    BY <1>3
  <2>4. Len(ms) + k \in 1 .. Len(c) /\ c[Len(ms) + k] = ns[k]
    <3>1. Len(ms) + k \in 1 .. Len(ms) + Len(ns)
      BY <1>1
    <3>2. ~(Len(ms) + k <= Len(ms)) /\ (Len(ms) + k) - Len(ms) = k
      BY <1>1
    <3>3. c[Len(ms) + k] = ns[(Len(ms) + k) - Len(ms)]
      BY <1>1, <3>1, <3>2
    <3>4. QED
      BY <1>1, <3>1, <3>2, <3>3
  <2>5. i > Len(ms)
    BY <1>1, <2>2, <2>3, <2>4
  <2>6. i - Len(ms) \in 1 .. Len(ns) /\ c[i] = ns[i - Len(ms)]
    BY <1>1, <2>5
  <2>7. c[i].hop = h
    BY <2>1, <2>2, <2>6
  <2>8. QED
    BY <2>2, <2>7 DEF EndsAt, c
<1>4. QED
  BY <1>2, <1>3

\* A switch that gets a message ends with its hop, if all of them agree.
LEMMA EndsAtReached ==
  ASSUME NEW T, NEW ms \in Seq(T), NEW ns \in Seq(T), NEW t, NEW s, NEW h,
         Reaches(ns, s), Agrees(ns, s, h)
  PROVE  EndsAt(ms \o ns, t, s, h)
<1> DEFINE c == ms \o ns
<1>1. /\ Len(ms) \in Nat /\ Len(ns) \in Nat /\ DOMAIN ns = 1 .. Len(ns)
      /\ c \in Seq(T) /\ Len(c) = Len(ms) + Len(ns)
      /\ \A i \in 1 .. Len(ms) + Len(ns) :
           c[i] = IF i <= Len(ms) THEN ms[i] ELSE ns[i - Len(ms)]
  BY ConcatProperties, LenProperties
<1> HIDE DEF c
<1>2. PICK i \in 1 .. Len(ns) : /\ ns[i].switch = s
                                /\ \A j \in 1 .. Len(ns) : j > i => ns[j].switch # s
  BY LastMessage
<1>3. ns[i].hop = h
  <2>1. ns[i] \in ToSet(ns)
    BY <1>1 DEF ToSet
  <2>2. QED
    BY <1>2, <2>1 DEF Agrees
<1>4. Len(ms) + i \in 1 .. Len(c) /\ c[Len(ms) + i] = ns[i]
  <2>1. Len(ms) + i \in 1 .. Len(ms) + Len(ns)
    BY <1>1
  <2>2. ~(Len(ms) + i <= Len(ms)) /\ (Len(ms) + i) - Len(ms) = i
    BY <1>1
  <2>3. c[Len(ms) + i] = ns[(Len(ms) + i) - Len(ms)]
    BY <1>1, <2>1, <2>2
  <2>4. QED
    BY <1>1, <2>1, <2>2, <2>3
<1>5. ASSUME NEW j \in 1 .. Len(c), j > Len(ms) + i PROVE c[j].switch # s
  <2>1. j - Len(ms) \in 1 .. Len(ns) /\ j - Len(ms) > i /\ c[j] = ns[j - Len(ms)]
    BY <1>1, <1>5
  <2>2. QED
    BY <1>2, <2>1
<1>6. QED
  BY <1>2, <1>3, <1>4, <1>5 DEF EndsAt, c

\* A switch that applies its oldest message goes on to the same hop.
LEMMA EndsAtApplied ==
  ASSUME NEW T, NEW ms \in Seq(T), NEW i \in 1 .. Len(ms),
         \A j \in 1 .. i - 1 : ms[j].switch # ms[i].switch,
         NEW t, NEW s, NEW h, EndsAt(ms, t, s, h)
  PROVE  EndsAt(RemoveAt(ms, i), IF s = ms[i].switch THEN ms[i].hop ELSE t, s, h)
<1> DEFINE r == RemoveAt(ms, i)
           u == IF s = ms[i].switch THEN ms[i].hop ELSE t
<1>1. /\ Len(ms) \in Nat /\ Len(r) = Len(ms) - 1
      /\ \A j \in 1 .. Len(ms) - 1 : r[j] = IF j < i THEN ms[j] ELSE ms[j + 1]
  BY RemoveAtProperties, LenProperties
<1>2. \A j \in 1 .. Len(r) : /\ j \in 1 .. Len(ms) /\ j + 1 \in 1 .. Len(ms)
                             /\ j < i => j \in 1 .. i - 1
  BY <1>1
<1> HIDE DEF r
<1>3. ASSUME t = h, \A j \in 1 .. Len(ms) : ms[j].switch # s
      PROVE  EndsAt(r, u, s, h)
  <2>1. u = h
    BY <1>3
  <2>2. \A j \in 1 .. Len(r) : r[j].switch # s
    BY <1>1, <1>2, <1>3
  <2>3. QED
    BY <2>1, <2>2 DEF EndsAt
<1>4. ASSUME NEW k \in 1 .. Len(ms), ms[k].switch = s, ms[k].hop = h,
             \A j \in 1 .. Len(ms) : j > k => ms[j].switch # s
      PROVE  EndsAt(r, u, s, h)
  <2>1. CASE k = i
    <3>1. u = h
      BY <1>4, <2>1
    <3>2. ASSUME NEW j \in 1 .. Len(r) PROVE r[j].switch # s
      <4>1. CASE j < i
        BY <1>1, <1>2, <1>4, <2>1, <4>1
      <4>2. CASE ~(j < i)
        <5>1. r[j] = ms[j + 1] /\ j + 1 > k /\ j + 1 \in 1 .. Len(ms)
          BY <1>1, <1>2, <2>1, <4>2
        <5>2. QED
          BY <1>4, <5>1
      <4>3. QED
        BY <4>1, <4>2
    <3>3. QED
      BY <3>1, <3>2 DEF EndsAt
  <2>2. CASE k < i
    <3>1. k \in 1 .. Len(r) /\ r[k] = ms[k]
      BY <1>1, <2>2
    <3>2. ASSUME NEW j \in 1 .. Len(r), j > k PROVE r[j].switch # s
      <4>1. CASE j < i
        BY <1>1, <1>2, <1>4, <3>2, <4>1
      <4>2. CASE ~(j < i)
        <5>1. r[j] = ms[j + 1] /\ j + 1 > k /\ j + 1 \in 1 .. Len(ms)
          BY <1>1, <1>2, <2>2, <4>2
        <5>2. QED
          BY <1>4, <5>1
      <4>3. QED
        BY <4>1, <4>2
    <3>3. QED
      BY <1>4, <3>1, <3>2 DEF EndsAt
  <2>3. CASE k > i
    <3>1. k - 1 \in 1 .. Len(r) /\ ~(k - 1 < i) /\ (k - 1) + 1 = k
      BY <1>1, <2>3
    <3>2. r[k - 1] = ms[k]
      <4>1. r[k - 1] = ms[(k - 1) + 1]
        BY <1>1, <3>1
      <4>2. QED
        BY <3>1, <4>1
    <3>3. ASSUME NEW j \in 1 .. Len(r), j > k - 1 PROVE r[j].switch # s
      <4>1. r[j] = ms[j + 1] /\ j + 1 > k /\ j + 1 \in 1 .. Len(ms)
        BY <1>1, <1>2, <2>3, <3>3
      <4>2. QED
        BY <1>4, <4>1
    <3>4. QED
      BY <1>4, <3>1, <3>2, <3>3 DEF EndsAt
  <2>4. QED
    BY <2>1, <2>2, <2>3
<1>5. QED
  <2>1. \/ t = h /\ \A j \in 1 .. Len(ms) : ms[j].switch # s
        \/ \E k \in 1 .. Len(ms) : /\ ms[k].switch = s /\ ms[k].hop = h
                                  /\ \A j \in 1 .. Len(ms) : j > k => ms[j].switch # s
    BY DEF EndsAt
  <2> HIDE DEF u
  <2>2. EndsAt(r, u, s, h)
    BY <1>3, <1>4, <2>1
  <2>3. QED
    BY <2>2 DEF r, u

\* The messages of a path.
LEMMA ForwardFacts ==
  ASSUME NEW p \in Paths, NEW ss \in Seq(Switches), ToSet(ss) \subseteq ToSet(p)
  PROVE  /\ Forward(p, ss) \in Seq(Message)
         /\ Len(Forward(p, ss)) = Len(ss)
         /\ ToSet(Forward(p, ss)) = {[switch |-> s, hop |-> NextOn(p, s)] : s \in ToSet(ss)}
<1>1. Len(ss) \in Nat /\ DOMAIN ss = 1 .. Len(ss) /\ \A i \in 1 .. Len(ss) : ss[i] \in Switches
  BY LenProperties, ElementOfSeq
<1>2. ASSUME NEW i \in 1 .. Len(ss) PROVE [switch |-> ss[i], hop |-> NextOn(p, ss[i])] \in Message
  <2>1. On(p, ss[i])
    BY <1>1, PathElements DEF ToSet
  <2>2. QED
    BY <1>1, <2>1, NextType DEF Message, Hops
<1>3. Forward(p, ss) \in [1 .. Len(ss) -> Message]
  BY <1>1, <1>2 DEF Forward
<1>4. Forward(p, ss) \in Seq(Message)
  BY <1>1, <1>3, SeqDef
<1>5. DOMAIN Forward(p, ss) = 1 .. Len(ss)
  BY <1>3
<1>6. Len(Forward(p, ss)) = Len(ss)
  BY <1>1, <1>4, <1>5, LenProperties
<1>7. QED
  BY <1>1, <1>4, <1>6 DEF Forward, ToSet

\* The messages that delete rules.
LEMMA DeleteFacts ==
  ASSUME NEW ss \in Seq(Switches)
  PROVE  /\ Delete(ss) \in Seq(Message)
         /\ Len(Delete(ss)) = Len(ss)
         /\ ToSet(Delete(ss)) = {[switch |-> s, hop |-> NoRule] : s \in ToSet(ss)}
<1>1. Len(ss) \in Nat /\ DOMAIN ss = 1 .. Len(ss) /\ \A i \in 1 .. Len(ss) : ss[i] \in Switches
  BY LenProperties, ElementOfSeq
<1>2. Delete(ss) \in [1 .. Len(ss) -> Message]
  BY <1>1 DEF Delete, Message, Hops
<1>3. Delete(ss) \in Seq(Message)
  BY <1>1, <1>2, SeqDef
<1>4. DOMAIN Delete(ss) = 1 .. Len(ss)
  BY <1>2
<1>5. Len(Delete(ss)) = Len(ss)
  BY <1>1, <1>3, <1>4, LenProperties
<1>6. QED
  BY <1>1, <1>3, <1>5 DEF Delete, ToSet

\* Which switches and hops these messages have.
LEMMA ForwardAgrees ==
  ASSUME NEW p \in Paths, NEW ss \in Seq(Switches), ToSet(ss) \subseteq ToSet(p), NEW s
  PROVE  /\ Agrees(Forward(p, ss), s, NextOn(p, s))
         /\ s \notin ToSet(ss) => \A h : Agrees(Forward(p, ss), s, h)
         /\ Reaches(Forward(p, ss), s) <=> s \in ToSet(ss)
<1>1. ToSet(Forward(p, ss)) = {[switch |-> x, hop |-> NextOn(p, x)] : x \in ToSet(ss)}
  BY ForwardFacts
<1>2. \A m \in ToSet(Forward(p, ss)) :
        m.switch \in ToSet(ss) /\ (m.switch = s => m.hop = NextOn(p, s))
  BY <1>1
<1>3. ASSUME s \in ToSet(ss) PROVE \E m \in ToSet(Forward(p, ss)) : m.switch = s
  <2>1. [switch |-> s, hop |-> NextOn(p, s)] \in ToSet(Forward(p, ss))
    BY <1>1, <1>3
  <2>2. QED
    BY <2>1
<1>4. QED
  BY <1>2, <1>3 DEF Agrees, Reaches

\* The same of the messages that delete rules.
LEMMA DeleteAgrees ==
  ASSUME NEW ss \in Seq(Switches), NEW s
  PROVE  /\ Agrees(Delete(ss), s, NoRule)
         /\ s \notin ToSet(ss) => \A h : Agrees(Delete(ss), s, h)
         /\ Reaches(Delete(ss), s) <=> s \in ToSet(ss)
<1>1. ToSet(Delete(ss)) = {[switch |-> x, hop |-> NoRule] : x \in ToSet(ss)}
  BY DeleteFacts
<1>2. \A m \in ToSet(Delete(ss)) :
        m.switch \in ToSet(ss) /\ (m.switch = s => m.hop = NoRule)
  BY <1>1
<1>3. ASSUME s \in ToSet(ss) PROVE \E m \in ToSet(Delete(ss)) : m.switch = s
  <2>1. [switch |-> s, hop |-> NoRule] \in ToSet(Delete(ss))
    BY <1>1, <1>3
  <2>2. QED
    BY <2>1
<1>4. QED
  BY <1>2, <1>3 DEF Agrees, Reaches

\* What two lists of messages have in common.
LEMMA ConcatAgrees ==
  ASSUME NEW T, NEW ms \in Seq(T), NEW ns \in Seq(T), NEW s, NEW h
  PROVE  /\ Agrees(ms \o ns, s, h) <=> Agrees(ms, s, h) /\ Agrees(ns, s, h)
         /\ Reaches(ms \o ns, s) <=> Reaches(ms, s) \/ Reaches(ns, s)
BY ToSetConcat DEF Agrees, Reaches

\* The lists of reroute, whether the flow was on a path before or not.
LEMMA ListFacts ==
  ASSUME NEW old \in Paths \cup {<<>>}, NEW new \in Paths
  PROVE  /\ Added(old, new) \in Seq(Switches)
         /\ ToSet(Added(old, new)) = {s \in ToSet(new) : ~On(old, s)}
         /\ Modified(old, new) \in Seq(Switches)
         /\ ToSet(Modified(old, new)) \subseteq ToSet(new)
         /\ Follows(old, new) \subseteq ToSet(Modified(old, new))
         /\ Deleted(old, new) \in Seq(Switches)
         /\ ToSet(Deleted(old, new)) = {s \in ToSet(old) : ~On(new, s)}
<1>1. old \in Seq(Switches) /\ new \in Seq(Switches)
  <2>1. \A p \in Paths : p \in Seq(Switches)
    BY PathFacts
  <2>2. <<>> \in Seq(Switches)
    OBVIOUS
  <2>3. CASE old = <<>>
    BY <2>1, <2>2, <2>3
  <2>4. CASE old \in Paths
    BY <2>1, <2>4
  <2>5. QED
    BY <2>3, <2>4
<1>2. ToSet(old) \subseteq Switches /\ ToSet(new) \subseteq Switches
  <2>1. \A ss \in Seq(Switches) : \A i \in DOMAIN ss : ss[i] \in Switches
    BY LenProperties, ElementOfSeq
  <2>2. QED
    BY <1>1, <2>1 DEF ToSet
<1>3. /\ Added(old, new) \in Seq(Switches)
      /\ ToSet(Added(old, new)) = ToSet(new) \cap {s \in Switches : ~On(old, s)}
  BY <1>1, KeptProperties DEF Added
<1>4. /\ Deleted(old, new) \in Seq(Switches)
      /\ ToSet(Deleted(old, new)) = ToSet(old) \cap {s \in Switches : ~On(new, s)}
  BY <1>1, KeptProperties DEF Deleted
<1> DEFINE follows == Kept(new, Follows(old, new))
           leaves == Kept(old, Leaves(old, new) \ Follows(old, new))
<1>5. follows \in Seq(Switches) /\ ToSet(follows) = ToSet(new) \cap Follows(old, new)
  BY <1>1, KeptProperties
<1>6. leaves \in Seq(Switches) /\ ToSet(leaves) = ToSet(old) \cap (Leaves(old, new) \ Follows(old, new))
  BY <1>1, KeptProperties
<1>7. Modified(old, new) = Reverse(follows \o leaves)
  BY DEF Modified
<1> HIDE DEF follows, leaves
<1>8. follows \o leaves \in Seq(Switches) /\ ToSet(follows \o leaves) = ToSet(follows) \cup ToSet(leaves)
  BY <1>5, <1>6, ToSetConcat, ConcatProperties
<1>9. /\ Modified(old, new) \in Seq(Switches)
      /\ ToSet(Modified(old, new)) = ToSet(follows) \cup ToSet(leaves)
  BY <1>7, <1>8, ToSetReverse
<1>10. Leaves(old, new) \subseteq ToSet(new)
  BY PathElements DEF Leaves
<1>11. Follows(old, new) \subseteq ToSet(new)
  BY DEF Follows
<1>12. QED
  BY <1>2, <1>3, <1>4, <1>5, <1>6, <1>9, <1>10, <1>11

----------------------------------------------------------------------------
(* The invariant.                                                          *)

\* The rule of a flow that is on path p.
RuleOn(p, s) == IF On(p, s) THEN NextOn(p, s) ELSE NoRule

\* Its rule while it is moved from one path to another and only the new switches know.
RuleBetween(old, new, s) == IF On(old, s) THEN NextOn(old, s) ELSE RuleOn(new, s)

TypeOK ==
  /\ table \in [Switches -> Hops]
  /\ wire \in Seq(Message) /\ pending \in Seq(Message)
  /\ chosen \in Paths \cup {<<>>}
  /\ pc \in {"poll", "sleep", "report"}
  /\ missed \in BOOLEAN /\ routed \in BOOLEAN /\ iteration \in BOOLEAN
  /\ reordered \in BOOLEAN /\ torn \in BOOLEAN /\ up \in BOOLEAN
  /\ asked \in Nat /\ issued \in Nat /\ resets \in Nat
  /\ actions \in Seq(Paths)

\* The messages reroute still has to send.
Rest(old, new) == Forward(new, Modified(old, new)) \o Delete(Deleted(old, new))

\* During the sleep the messages under way put the flow between two paths.
Asleep ==
  /\ routed
  /\ \E old \in Paths :
       /\ pending = Rest(old, chosen)
       /\ \A s \in Switches : EndsAt(wire, table[s], s, RuleBetween(old, chosen, s))

\* Otherwise they put it on the path recorded, or take its rules away.
Awake ==
  /\ pending = <<>>
  /\ ~torn => \A s \in Switches :
                EndsAt(wire, table[s], s, IF routed THEN RuleOn(chosen, s) ELSE NoRule)

Phases ==
  /\ routed => chosen \in Paths
  /\ pc = "sleep" /\ ~torn => Asleep
  /\ pc # "sleep" => Awake

ReroutingInv == TypeOK /\ Phases

----------------------------------------------------------------------------
(* What the messages of a move do, whatever order the switches apply them in. *)

\* All of them are messages.
LEMMA MoveTyped ==
  ASSUME NEW old \in Paths \cup {<<>>}, NEW new \in Paths
  PROVE  /\ Forward(new, Added(old, new)) \in Seq(Message)
         /\ Forward(new, Modified(old, new)) \in Seq(Message)
         /\ Delete(Deleted(old, new)) \in Seq(Message)
         /\ Rest(old, new) \in Seq(Message)
<1>1. /\ Added(old, new) \in Seq(Switches)
      /\ ToSet(Added(old, new)) = {s \in ToSet(new) : ~On(old, s)}
      /\ Modified(old, new) \in Seq(Switches) /\ ToSet(Modified(old, new)) \subseteq ToSet(new)
      /\ Deleted(old, new) \in Seq(Switches)
  BY ListFacts
<1>2. ToSet(Added(old, new)) \subseteq ToSet(new)
  BY <1>1
<1>3. /\ Forward(new, Added(old, new)) \in Seq(Message)
      /\ Forward(new, Modified(old, new)) \in Seq(Message)
      /\ Delete(Deleted(old, new)) \in Seq(Message)
  BY <1>1, <1>2, ForwardFacts, DeleteFacts
<1>4. QED
  BY <1>3, ConcatProperties DEF Rest

\* The messages before the sleep give the new switches their rules and change no other.
LEMMA MoveStarts ==
  ASSUME NEW old \in Paths, NEW new \in Paths, NEW ms \in Seq(Message), NEW t,
         NEW s \in Switches, EndsAt(ms, t, s, RuleOn(old, s))
  PROVE  EndsAt(ms \o Forward(new, Added(old, new)), t, s, RuleBetween(old, new, s))
<1> DEFINE A == Added(old, new)
           ns == Forward(new, A)
<1>1. /\ A \in Seq(Switches) /\ ToSet(A) = {x \in ToSet(new) : ~On(old, x)}
      /\ ns \in Seq(Message)
  BY ListFacts, MoveTyped
<1>2. /\ Agrees(ns, s, NextOn(new, s))
      /\ s \notin ToSet(A) => \A h : Agrees(ns, s, h)
      /\ Reaches(ns, s) <=> s \in ToSet(A)
  BY <1>1, ForwardAgrees
<1>3. s \in ToSet(new) <=> On(new, s)
  BY PathElements
<1> HIDE DEF ns, A
<1>4. CASE s \in ToSet(A)
  <2>1. ~On(old, s) /\ On(new, s)
    BY <1>1, <1>3, <1>4
  <2>2. RuleBetween(old, new, s) = NextOn(new, s)
    BY <2>1 DEF RuleBetween, RuleOn
  <2>3. EndsAt(ms \o ns, t, s, NextOn(new, s))
    BY <1>1, <1>2, <1>4, EndsAtReached
  <2>4. QED
    BY <2>2, <2>3 DEF ns, A
<1>5. CASE s \notin ToSet(A)
  <2>1. On(old, s) \/ ~On(new, s)
    BY <1>1, <1>3, <1>5
  <2>2. RuleBetween(old, new, s) = RuleOn(old, s)
    BY <2>1 DEF RuleBetween, RuleOn
  <2>3. EndsAt(ms \o ns, t, s, RuleOn(old, s))
    BY <1>1, <1>2, <1>5, EndsAtAgrees
  <2>4. QED
    BY <2>2, <2>3 DEF ns, A
<1>6. QED
  BY <1>4, <1>5

\* The messages after the sleep change or delete all the rules that differ.
LEMMA MoveEnds ==
  ASSUME NEW old \in Paths, NEW new \in Paths, NEW ms \in Seq(Message), NEW t,
         NEW s \in Switches, EndsAt(ms, t, s, RuleBetween(old, new, s))
  PROVE  EndsAt(ms \o Rest(old, new), t, s, RuleOn(new, s))
<1> DEFINE M == Modified(old, new)
           D == Deleted(old, new)
           ns == Forward(new, M)
           ds == Delete(D)
<1>1. /\ M \in Seq(Switches) /\ ToSet(M) \subseteq ToSet(new) /\ Follows(old, new) \subseteq ToSet(M)
      /\ D \in Seq(Switches) /\ ToSet(D) = {x \in ToSet(old) : ~On(new, x)}
  BY ListFacts
<1>2. ns \in Seq(Message) /\ ds \in Seq(Message) /\ Rest(old, new) = ns \o ds
  BY MoveTyped DEF Rest
<1>3. /\ Agrees(ns, s, NextOn(new, s))
      /\ s \notin ToSet(M) => \A h : Agrees(ns, s, h)
      /\ Reaches(ns, s) <=> s \in ToSet(M)
  BY <1>1, ForwardAgrees
<1>4. /\ Agrees(ds, s, NoRule)
      /\ s \notin ToSet(D) => \A h : Agrees(ds, s, h)
      /\ Reaches(ds, s) <=> s \in ToSet(D)
  BY <1>1, DeleteAgrees
<1>5. (s \in ToSet(new) <=> On(new, s)) /\ (s \in ToSet(old) <=> On(old, s))
  BY PathElements
<1> HIDE DEF ns, ds, M, D
<1>6. \A h : /\ Agrees(ns \o ds, s, h) <=> Agrees(ns, s, h) /\ Agrees(ds, s, h)
             /\ Reaches(ns \o ds, s) <=> Reaches(ns, s) \/ Reaches(ds, s)
  BY <1>2, ConcatAgrees
<1>7. ns \o ds \in Seq(Message)
  BY <1>2, MoveTyped
<1>8. CASE On(new, s)
  <2>1. RuleOn(new, s) = NextOn(new, s)
    BY <1>8 DEF RuleOn
  <2>2. Agrees(ns \o ds, s, RuleOn(new, s))
    BY <1>1, <1>3, <1>4, <1>6, <1>8, <2>1
  <2>3. CASE Reaches(ns \o ds, s)
    BY <1>2, <1>7, <2>2, <2>3, EndsAtReached
  <2>4. CASE ~Reaches(ns \o ds, s)
    <3>1. s \notin Follows(old, new)
      BY <1>1, <1>3, <1>6, <2>4
    <3>2. RuleBetween(old, new, s) = RuleOn(new, s)
      <4>1. CASE On(old, s)
        BY <1>8, <2>1, <3>1, <4>1, NotFollowsKeeps DEF RuleBetween
      <4>2. CASE ~On(old, s)
        BY <4>2 DEF RuleBetween
      <4>3. QED
        BY <4>1, <4>2
    <3>3. QED
      BY <1>2, <1>7, <2>2, <3>2, EndsAtAgrees
  <2>5. QED
    BY <2>3, <2>4
<1>9. CASE ~On(new, s)
  <2>1. RuleOn(new, s) = NoRule /\ s \notin ToSet(M)
    BY <1>1, <1>5, <1>9 DEF RuleOn
  <2>2. Agrees(ns \o ds, s, RuleOn(new, s))
    BY <1>3, <1>4, <1>6, <2>1
  <2>3. CASE Reaches(ns \o ds, s)
    BY <1>2, <1>7, <2>2, <2>3, EndsAtReached
  <2>4. CASE ~Reaches(ns \o ds, s)
    <3>1. ~On(old, s)
      BY <1>1, <1>4, <1>5, <1>6, <1>9, <2>4
    <3>2. RuleBetween(old, new, s) = RuleOn(new, s)
      BY <3>1 DEF RuleBetween
    <3>3. QED
      BY <1>2, <1>7, <2>2, <3>2, EndsAtAgrees
  <2>5. QED
    BY <2>3, <2>4
<1>10. QED
  BY <1>8, <1>9

\* Installing a path where no switch has a rule.
LEMMA InstallEnds ==
  ASSUME NEW p \in Paths, NEW ms \in Seq(Message), NEW t,
         NEW s \in Switches, EndsAt(ms, t, s, NoRule)
  PROVE  /\ Forward(p, p) \in Seq(Message)
         /\ EndsAt(ms \o Forward(p, p), t, s, RuleOn(p, s))
<1>1. p \in Seq(Switches) /\ (s \in ToSet(p) <=> On(p, s))
  BY PathFacts, PathElements
<1>2. /\ Agrees(Forward(p, p), s, NextOn(p, s))
      /\ s \notin ToSet(p) => \A h : Agrees(Forward(p, p), s, h)
      /\ Reaches(Forward(p, p), s) <=> s \in ToSet(p)
  BY <1>1, ForwardAgrees
<1>3. Forward(p, p) \in Seq(Message)
  BY <1>1, ForwardFacts
<1>4. CASE On(p, s)
  BY <1>1, <1>2, <1>3, <1>4, EndsAtReached DEF RuleOn
<1>5. CASE ~On(p, s)
  BY <1>1, <1>2, <1>3, <1>5, EndsAtAgrees DEF RuleOn
<1>6. QED
  BY <1>3, <1>4, <1>5

\* Taking the rules of a path away.
LEMMA ResetEnds ==
  ASSUME NEW p \in Paths, NEW ms \in Seq(Message), NEW t,
         NEW s \in Switches, EndsAt(ms, t, s, RuleOn(p, s)) \/ EndsAt(ms, t, s, NoRule)
  PROVE  /\ Delete(p) \in Seq(Message)
         /\ EndsAt(ms \o Delete(p), t, s, NoRule)
<1>1. p \in Seq(Switches) /\ (s \in ToSet(p) <=> On(p, s))
  BY PathFacts, PathElements
<1>2. Agrees(Delete(p), s, NoRule) /\ (Reaches(Delete(p), s) <=> s \in ToSet(p))
  BY <1>1, DeleteAgrees
<1>3. Delete(p) \in Seq(Message)
  BY <1>1, DeleteFacts
<1>4. CASE On(p, s)
  BY <1>1, <1>2, <1>3, <1>4, EndsAtReached
<1>5. CASE ~On(p, s)
  <2>1. EndsAt(ms, t, s, NoRule)
    BY <1>5 DEF RuleOn
  <2>2. QED
    BY <1>2, <1>3, <2>1, EndsAtAgrees
<1>6. QED
  BY <1>3, <1>4, <1>5

----------------------------------------------------------------------------
(* A routed flow at rest is on the path recorded for it.                   *)

\* No messages change nothing.
LEMMA EndsAtEmpty ==
  ASSUME NEW t, NEW s, NEW h
  PROVE  EndsAt(<<>>, t, s, h) <=> t = h
<1>1. 1 .. Len(<<>>) = {}
  OBVIOUS
<1>2. QED
  BY <1>1 DEF EndsAt

\* A path is not the empty list.
LEMMA PathNotEmpty ==
  ASSUME NEW p \in Paths
  PROVE  p # <<>>
<1>1. Len(p) >= 2
  BY PathFacts
<1>2. QED
  BY <1>1

\* Without a path, a rule and a message there is nothing to add up.
LEMMA InitHolds == Init => ReroutingInv
<1> SUFFICES ASSUME Init PROVE ReroutingInv
  OBVIOUS
<1>1. TypeOK
  <2>1. table \in [Switches -> Hops]
    BY DEF Init, Hops
  <2>2. wire \in Seq(Message) /\ pending \in Seq(Message) /\ actions \in Seq(Paths)
    BY DEF Init
  <2>3. QED
    BY <2>1, <2>2 DEF Init, TypeOK
<1>2. Awake
  <2>1. \A s \in Switches : table[s] = NoRule /\ EndsAt(<<>>, table[s], s, NoRule)
    BY EndsAtEmpty DEF Init
  <2>2. QED
    BY <2>1 DEF Init, Awake
<1>3. QED
  BY <1>1, <1>2 DEF Init, ReroutingInv, Phases

\* A switch that applies its oldest message.
LEMMA ApplyKeeps ==
  ASSUME ReroutingInv, NEW i \in DOMAIN wire, SwitchApplies(i)
  PROVE  ReroutingInv'
<1> USE DEF ReroutingInv
<1>1. wire \in Seq(Message) /\ Len(wire) \in Nat /\ DOMAIN wire = 1 .. Len(wire)
  BY LenProperties DEF TypeOK
<1>2. i \in 1 .. Len(wire) /\ wire[i] \in Message
  BY <1>1, ElementOfSeq
<1>3. wire[i].switch \in Switches /\ wire[i].hop \in Hops
  BY <1>2 DEF Message
<1>4. /\ \A j \in 1 .. i - 1 : wire[j].switch # wire[i].switch
      /\ table' = [table EXCEPT ![wire[i].switch] = wire[i].hop]
      /\ wire' = RemoveAt(wire, i)
  BY DEF SwitchApplies
<1>5. wire' \in Seq(Message)
  BY <1>1, <1>2, <1>4, RemoveAtProperties
<1>6. TypeOK'
  <2>1. table' \in [Switches -> Hops]
    BY <1>3, <1>4 DEF TypeOK
  <2>2. reordered' \in BOOLEAN
    BY DEF SwitchApplies, TypeOK
  <2>3. up' \in BOOLEAN
    <3>1. up' = (up \/ (Len(wire) = 1 /\ routed /\ Delivers')) /\ up \in BOOLEAN
      BY DEF SwitchApplies, TypeOK
    <3>2. QED
      BY <3>1, Zenon
  <2>4. QED
    BY <1>5, <2>1, <2>2, <2>3 DEF SwitchApplies, TypeOK, learner
<1>7. ASSUME NEW s \in Switches, NEW h, EndsAt(wire, table[s], s, h)
      PROVE  EndsAt(wire', table'[s], s, h)
  <2>1. EndsAt(RemoveAt(wire, i), IF s = wire[i].switch THEN wire[i].hop ELSE table[s], s, h)
    BY <1>1, <1>2, <1>4, <1>7, EndsAtApplied
  <2>2. table'[s] = IF s = wire[i].switch THEN wire[i].hop ELSE table[s]
    BY <1>4 DEF TypeOK
  <2>3. QED
    BY <1>4, <2>1, <2>2
<1>8. Phases'
  <2>1. UNCHANGED <<pending, chosen, routed, pc, torn>>
    BY DEF SwitchApplies
  <2>2. ASSUME Asleep PROVE Asleep'
    <3>1. PICK old \in Paths :
            /\ pending = Rest(old, chosen)
            /\ \A s \in Switches : EndsAt(wire, table[s], s, RuleBetween(old, chosen, s))
      BY <2>2 DEF Asleep
    <3>2. \A s \in Switches : EndsAt(wire', table'[s], s, RuleBetween(old, chosen, s))
      BY <1>7, <3>1
    <3>3. QED
      BY <2>1, <2>2, <3>1, <3>2 DEF Asleep
  <2>3. ASSUME Awake PROVE Awake'
    BY <1>7, <2>1, <2>3 DEF Awake
  <2>4. QED
    BY <2>1, <2>2, <2>3 DEF Phases
<1>9. QED
  BY <1>6, <1>8

\* A flow is routed, for the first time or once its rules are being taken away.
LEMMA RoutingKeeps ==
  ASSUME ReroutingInv, RoutingIp
  PROVE  ReroutingInv'
<1> USE DEF ReroutingInv
<1>1. UNCHANGED <<table, pc, pending, asked, actions, issued, iteration, resets, reordered, torn, up>>
      /\ missed' = FALSE
  BY DEF RoutingIp, learner
<1>2. CASE routed
  <2>1. UNCHANGED <<wire, chosen, routed>>
    BY <1>2 DEF RoutingIp
  <2>2. QED
    BY <1>1, <2>1 DEF TypeOK, Phases, Asleep, Awake
<1>3. CASE ~routed
  <2>1. PICK p \in Paths : chosen' = p /\ wire' = wire \o Forward(p, p) /\ routed' = TRUE
    BY <1>3 DEF RoutingIp, Send
  <2>2. wire \in Seq(Message) /\ Forward(p, p) \in Seq(Message)
    <3>1. p \in Seq(Switches)
      BY PathFacts
    <3>2. QED
      BY <3>1, ForwardFacts DEF TypeOK
  <2>3. TypeOK'
    <3>1. wire' \in Seq(Message)
      BY <2>1, <2>2, ConcatProperties
    <3>2. QED
      BY <1>1, <2>1, <3>1 DEF TypeOK
  <2>4. pc = "sleep" => torn
    BY <1>3 DEF Phases, Asleep
  <2>5. ASSUME ~torn, pc # "sleep", NEW s \in Switches
        PROVE  EndsAt(wire', table'[s], s, RuleOn(p, s))
    <3>1. EndsAt(wire, table[s], s, NoRule)
      BY <1>3, <2>5 DEF Phases, Awake
    <3>2. EndsAt(wire \o Forward(p, p), table[s], s, RuleOn(p, s))
      BY <2>2, <3>1, InstallEnds
    <3>3. QED
      BY <1>1, <2>1, <3>2
  <2>6. pc' # "sleep" => Awake'
    BY <1>1, <2>1, <2>5 DEF Phases, Awake
  <2>7. QED
    BY <1>1, <2>1, <2>3, <2>4, <2>6 DEF Phases
<1>4. QED
  BY <1>2, <1>3

\* A move begins.
LEMMA RerouteKeeps ==
  ASSUME ReroutingInv, Reroute
  PROVE  ReroutingInv'
<1> USE DEF ReroutingInv
<1> DEFINE old == chosen
           new == Head(actions)
<1>1. new \in Paths /\ Tail(actions) \in Seq(Paths)
  <2>1. actions \in Seq(Paths) /\ actions # <<>>
    BY DEF TypeOK, Reroute
  <2>2. QED
    BY <2>1, HeadTailProperties
<1> HIDE DEF new
<1>2. /\ chosen' = new /\ wire' = wire \o Forward(new, Added(old, new))
      /\ pending' = Rest(old, new) /\ actions' = Tail(actions)
      /\ torn' = (torn \/ ~routed) /\ pc' = "sleep" /\ pc = "poll"
      /\ UNCHANGED <<table, missed, routed, asked, issued, iteration, resets, reordered, up>>
  BY DEF Reroute, Send, Rest, new
<1>3. /\ wire \in Seq(Message) /\ old \in Paths \cup {<<>>}
      /\ Forward(new, Added(old, new)) \in Seq(Message) /\ Rest(old, new) \in Seq(Message)
  BY <1>1, MoveTyped DEF TypeOK
<1>4. TypeOK'
  <2>1. wire' \in Seq(Message) /\ pending' \in Seq(Message) /\ actions' \in Seq(Paths)
    BY <1>1, <1>2, <1>3, ConcatProperties
  <2>2. torn' \in BOOLEAN
    BY <1>2 DEF TypeOK
  <2>3. chosen' \in Paths \cup {<<>>}
    BY <1>1, <1>2
  <2>4. QED
    BY <1>2, <2>1, <2>2, <2>3 DEF TypeOK
<1>5. ASSUME ~torn' PROVE Asleep'
  <2>1. ~torn /\ routed /\ old \in Paths
    BY <1>2, <1>5 DEF Phases, TypeOK
  <2>2. \A s \in Switches : EndsAt(wire, table[s], s, RuleOn(old, s))
    BY <1>2, <2>1 DEF Phases, Awake
  <2>3. \A s \in Switches : EndsAt(wire \o Forward(new, Added(old, new)), table[s], s,
                                   RuleBetween(old, new, s))
    BY <1>1, <1>3, <2>1, <2>2, MoveStarts
  <2>4. QED
    BY <1>2, <2>1, <2>3 DEF Asleep
<1>6. QED
  BY <1>1, <1>2, <1>4, <1>5 DEF Phases

\* A move ends.
LEMMA WakeKeeps ==
  ASSUME ReroutingInv, RerouteWakes
  PROVE  ReroutingInv'
<1> USE DEF ReroutingInv
<1>1. /\ pc = "sleep" /\ pc' = "report" /\ wire' = wire \o pending /\ pending' = <<>>
      /\ UNCHANGED <<table, missed, chosen, routed, asked, actions, issued, iteration, resets,
                     reordered, torn, up>>
  BY DEF RerouteWakes, Send, learner
<1>2. TypeOK'
  <2>1. wire' \in Seq(Message) /\ pending' \in Seq(Message)
    BY <1>1, ConcatProperties DEF TypeOK
  <2>2. QED
    BY <1>1, <2>1 DEF TypeOK
<1>3. ASSUME ~torn, NEW s \in Switches
      PROVE  routed /\ EndsAt(wire', table'[s], s, RuleOn(chosen, s))
  <2>1. routed /\ chosen \in Paths /\ wire \in Seq(Message)
    BY <1>1, <1>3 DEF Phases, Asleep, TypeOK
  <2>2. PICK old \in Paths :
          /\ pending = Rest(old, chosen)
          /\ \A x \in Switches : EndsAt(wire, table[x], x, RuleBetween(old, chosen, x))
    BY <1>1, <1>3 DEF Phases, Asleep
  <2>3. EndsAt(wire \o Rest(old, chosen), table[s], s, RuleOn(chosen, s))
    BY <2>1, <2>2, MoveEnds
  <2>4. QED
    BY <1>1, <2>1, <2>2, <2>3
<1>4. Awake'
  BY <1>1, <1>3 DEF Awake
<1>5. QED
  BY <1>1, <1>2, <1>4 DEF Phases

\* A turn of checking_updates ends, perhaps with the iteration.
LEMMA ReportKeeps ==
  ASSUME ReroutingInv, Report
  PROVE  ReroutingInv'
<1> USE DEF ReroutingInv
<1>1. /\ pc = "report" /\ pc' = "poll" /\ iteration' = FALSE /\ up' = (up /\ ~iteration)
      /\ UNCHANGED <<table, missed, chosen, pending, actions, issued, resets, reordered, torn>>
  BY DEF Report
<1>2. asked' \in Nat
  <2>1. asked \in Nat /\ asked + 1 \in Nat
    BY DEF TypeOK
  <2>2. asked' \in {asked, asked + 1}
    BY DEF Report
  <2>3. QED
    BY <2>1, <2>2
<1>3. up' \in BOOLEAN
  BY <1>1 DEF TypeOK
<1>4. pending = <<>> /\ Awake
  BY <1>1 DEF Phases, Awake
<1>5. CASE ~iteration
  <2>1. UNCHANGED <<wire, routed>>
    BY <1>5 DEF Report
  <2>2. TypeOK'
    BY <1>1, <1>2, <1>3, <2>1 DEF TypeOK
  <2>3. QED
    BY <1>1, <1>4, <2>1, <2>2 DEF Phases, Awake
<1>6. CASE iteration
  <2>1. wire' = wire \o Delete(chosen) /\ routed' = FALSE
    BY <1>6 DEF Report, Send
  <2>2. chosen \in Seq(Switches) /\ wire \in Seq(Message)
    <3>1. <<>> \in Seq(Switches)
      OBVIOUS
    <3>2. QED
      BY <3>1, PathFacts DEF TypeOK
  <2>3. Delete(chosen) \in Seq(Message)
    BY <2>2, DeleteFacts
  <2>4. TypeOK'
    <3>1. wire' \in Seq(Message)
      BY <2>1, <2>2, <2>3, ConcatProperties
    <3>2. QED
      BY <1>1, <1>2, <1>3, <2>1, <3>1 DEF TypeOK
  <2>5. ASSUME ~torn, NEW s \in Switches
        PROVE  EndsAt(wire', table'[s], s, NoRule)
    <3>1. EndsAt(wire, table[s], s, IF routed THEN RuleOn(chosen, s) ELSE NoRule)
      BY <1>4, <2>5 DEF Awake
    <3>2. CASE chosen \in Paths
      <4>1. EndsAt(wire \o Delete(chosen), table[s], s, NoRule)
        BY <2>2, <3>1, <3>2, ResetEnds
      <4>2. QED
        BY <1>1, <2>1, <4>1
    <3>3. CASE chosen = <<>>
      <4>1. EndsAt(wire, table[s], s, NoRule)
        BY <3>1, <3>3, PathNotEmpty DEF Phases
      <4>2. Agrees(Delete(chosen), s, NoRule)
        BY <2>2, DeleteAgrees
      <4>3. EndsAt(wire \o Delete(chosen), table[s], s, NoRule)
        BY <2>2, <2>3, <4>1, <4>2, EndsAtAgrees
      <4>4. QED
        BY <1>1, <2>1, <4>3
    <3>4. QED
      BY <3>2, <3>3 DEF TypeOK
  <2>6. Awake'
    BY <1>1, <1>4, <2>1, <2>5 DEF Awake
  <2>7. QED
    BY <1>1, <2>1, <2>4, <2>6 DEF Phases
<1>7. QED
  BY <1>5, <1>6

\* The other actions leave the rules and the messages alone.
LEMMA OthersKeep ==
  ASSUME ReroutingInv,
         PacketMisses \/ NoAction \/ LearnerAnswers \/ PutIterationFlag \/ UNCHANGED vars
  PROVE  ReroutingInv'
<1> USE DEF ReroutingInv
<1>1. /\ UNCHANGED <<table, wire, chosen, routed, pending, reordered, torn, up>>
      /\ pc' = pc \/ (pc = "poll" /\ pc' = "report")
  BY DEF PacketMisses, NoAction, LearnerAnswers, PutIterationFlag, vars, learner
<1>2. Phases'
  BY <1>1 DEF Phases, Asleep, Awake
<1>3. TypeOK'
  <2>1. missed' \in BOOLEAN /\ iteration' \in BOOLEAN
    BY DEF PacketMisses, NoAction, LearnerAnswers, PutIterationFlag, vars, learner, TypeOK
  <2>2. pc' \in {"poll", "sleep", "report"}
    BY <1>1 DEF TypeOK
  <2>3. asked' \in Nat /\ issued' \in Nat /\ resets' \in Nat
    BY DEF PacketMisses, NoAction, LearnerAnswers, PutIterationFlag, vars, learner, TypeOK
  <2>4. actions' \in Seq(Paths)
    <3>1. \A p \in Paths : Append(actions, p) \in Seq(Paths)
      BY AppendProperties DEF TypeOK
    <3>2. actions' = actions \/ \E p \in Paths : actions' = Append(actions, p)
      BY DEF PacketMisses, NoAction, LearnerAnswers, PutIterationFlag, vars, learner
    <3>3. QED
      BY <3>1, <3>2 DEF TypeOK
  <2>5. QED
    BY <1>1, <2>1, <2>2, <2>3, <2>4 DEF TypeOK
<1>4. QED
  BY <1>2, <1>3

\* The rules and the messages under way always add up (reroute, routing_ip, checking_updates).
THEOREM ReroutingCorrect == Spec => []ReroutingInv
<1>1. Init => ReroutingInv
  BY InitHolds
<1>2. ReroutingInv /\ [Next]_vars => ReroutingInv'
  BY ApplyKeeps, RoutingKeeps, RerouteKeeps, WakeKeeps, ReportKeeps, OthersKeep DEF Next
<1>3. QED
  BY <1>1, <1>2, PTL DEF Spec

\* Once all messages are applied a routed flow takes the path recorded for it, and no other
\* switch has a rule of the flow (reroute), however large the network.
THEOREM FollowsChosenHolds == Spec => []FollowsChosen
<1>1. ReroutingInv => FollowsChosen
  <2> SUFFICES ASSUME ReroutingInv, Quiet, routed, ~torn, NEW s \in Switches
               PROVE  table[s] = IF On(chosen, s) THEN NextOn(chosen, s) ELSE NoRule
    BY DEF FollowsChosen
  <2>1. EndsAt(<<>>, table[s], s, RuleOn(chosen, s))
    BY DEF ReroutingInv, Phases, Awake, Quiet
  <2>2. QED
    BY <2>1, EndsAtEmpty DEF RuleOn
<1>2. QED
  BY <1>1, ReroutingCorrect, PTL

----------------------------------------------------------------------------
(* A flow that is up is never interrupted: which rules deliver a packet.   *)

\* Rules f lead a packet out of the network: each hop from the source on leaves it or leads to
\* a switch of lower rank.
Leads(f) ==
  \E V \in SUBSET Switches : \E rank \in [Switches -> Nat] :
    /\ Src \in V
    /\ \A s \in V : f[s] = Host \/ (f[s] \in V /\ rank[f[s]] < rank[s])

\* One step of Walk, given w for fewer.
WalkStep(f, w, k) ==
  IF k = 0 THEN Src ELSE IF w[k - 1] \in Switches THEN f[w[k - 1]] ELSE w[k - 1]

\* The number of hops that are looked at.
LEMMA SwitchesCounted == Cardinality(Switches) \in Nat
BY FlowReroutingAssumption, FS_CardinalityType

\* The recursive function of Walk exists, up to every length.
LEMMA WalkExists ==
  ASSUME NEW f
  PROVE  \A m \in Nat : \E w : \A k \in 0 .. m : w[k] = WalkStep(f, w, k)
<1> DEFINE Good(m) == \E w : \A k \in 0 .. m : w[k] = WalkStep(f, w, k)
           Bad == {m \in Nat : ~Good(m)}
<1>1. Good(0)
  <2>1. \A k \in 0 .. 0 : k = 0
    OBVIOUS
  <2>2. [k \in 0 .. 0 |-> Src][0] = Src
    OBVIOUS
  <2>3. \A k \in 0 .. 0 : [j \in 0 .. 0 |-> Src][k] = WalkStep(f, [j \in 0 .. 0 |-> Src], k)
    BY <2>1, <2>2 DEF WalkStep
  <2>4. QED
    BY <2>3
<1>2. ASSUME NEW m \in Nat, m # 0, Good(m - 1)
      PROVE  Good(m)
  <2>1. PICK w : \A k \in 0 .. m - 1 : w[k] = WalkStep(f, w, k)
    BY <1>2
  <2> DEFINE last == WalkStep(f, w, m)
             v == [k \in 0 .. m |-> IF k = m THEN last ELSE w[k]]
  <2> HIDE DEF last
  <2>2. ASSUME NEW k \in 0 .. m PROVE v[k] = WalkStep(f, v, k)
    <3>1. CASE k = m
      <4>1. m - 1 \in 0 .. m /\ m - 1 # m
        BY <1>2
      <4>2. v[k - 1] = w[k - 1] /\ v[k] = last
        BY <3>1, <4>1
      <4>3. QED
        BY <4>2, <3>1 DEF WalkStep, last
    <3>2. CASE k # m
      <4>1. k \in 0 .. m - 1 /\ (k # 0 => k - 1 \in 0 .. m - 1)
        BY <3>2
      <4>2. v[k] = w[k] /\ (k # 0 => v[k - 1] = w[k - 1])
        BY <4>1
      <4>3. w[k] = WalkStep(f, w, k)
        BY <2>1, <4>1
      <4>4. QED
        BY <4>2, <4>3 DEF WalkStep
    <3>3. QED
      BY <3>1, <3>2
  <2>3. QED
    BY <2>2
<1> HIDE DEF Good
<1>3. SUFFICES ASSUME Bad # {} PROVE FALSE
  BY DEF Good
<1>4. Bad \in SUBSET Nat
  OBVIOUS
<1>5. PICK m \in Bad : \A k \in Bad : m <= k
  BY <1>3, <1>4, NatsHaveLeast
<1>6. m # 0 /\ m \in Nat
  BY <1>1, <1>5
<1>7. m - 1 \in Nat /\ ~(m <= m - 1)
  BY <1>6
<1>8. Good(m - 1)
  BY <1>5, <1>7
<1>9. QED
  BY <1>2, <1>5, <1>6, <1>8

\* Walk is such a function.
LEMMA WalkUnfolds ==
  \A k \in 0 .. Cardinality(Switches) : Walk[k] = WalkStep(table, Walk, k)
<1> DEFINE N == Cardinality(Switches)
           W(w) == [k \in 0 .. N |->
                      IF k = 0 THEN Src ELSE IF w[k - 1] \in Switches THEN table[w[k - 1]] ELSE w[k - 1]]
<1>1. N \in Nat
  BY SwitchesCounted
<1>2. Walk = CHOOSE w : w = W(w)
  BY DEF Walk
<1> HIDE DEF N
<1>3. PICK h : \A k \in 0 .. N : h[k] = WalkStep(table, h, k)
  <2> HIDE DEF W
  <2>1. \E w : \A k \in 0 .. N : w[k] = WalkStep(table, w, k)
    BY <1>1, WalkExists
  <2>2. QED
    BY <2>1
<1> DEFINE g == [k \in 0 .. N |-> h[k]]
<1>4. g = W(g)
  <2>1. \A k \in 0 .. N : k # 0 => k - 1 \in 0 .. N
    BY <1>1
  <2>2. \A k \in 0 .. N : g[k] = W(g)[k]
    BY <1>3, <2>1 DEF WalkStep
  <2>3. QED
    BY <2>2
<1>5. Walk = W(Walk)
  <2> HIDE DEF W
  <2>1. QED
    BY <1>2, <1>4
<1>6. \A k \in 0 .. N : Walk[k] = W(Walk)[k]
  <2> HIDE DEF W
  <2>1. QED
    BY <1>5
<1>7. QED
  BY <1>6 DEF WalkStep, N

\* Rules that lead a packet out of the network do so within as many hops as there are switches.
LEMMA LeadsDelivers ==
  ASSUME Leads(table)
  PROVE  Delivers
<1> DEFINE N == Cardinality(Switches)
<1>1. PICK V \in SUBSET Switches, rank \in [Switches -> Nat] :
        /\ Src \in V
        /\ \A s \in V : table[s] = Host \/ (table[s] \in V /\ rank[table[s]] < rank[s])
  BY DEF Leads
<1> DEFINE Below(s) == {x \in V : rank[x] < rank[s]}
           Good(k) == Walk[k] = Host \/ (Walk[k] \in V /\ Cardinality(Below(Walk[k])) <= (N - 1) - k)
           Bad == {k \in 0 .. N : ~Good(k)}
<1>2. N \in Nat /\ IsFiniteSet(V) /\ Cardinality(V) \in Nat /\ Cardinality(V) <= N
  BY FlowReroutingAssumption, SwitchesCounted, FS_Subset, FS_CardinalityType
<1>3. \A k \in 0 .. N : Walk[k] = WalkStep(table, Walk, k)
  BY WalkUnfolds
<1>4. \A s \in V : rank[s] \in Nat
  BY <1>1
<1>5. \A s \in V : /\ IsFiniteSet(Below(s)) /\ Cardinality(Below(s)) \in Nat
                   /\ Cardinality(Below(s)) <= N - 1
  <2> TAKE s \in V
  <2>1. Below(s) \in SUBSET V /\ s \notin Below(s)
    BY <1>4
  <2>2. IsFiniteSet(Below(s)) /\ Cardinality(Below(s)) \in Nat /\ Cardinality(Below(s)) <= Cardinality(V)
        /\ (Cardinality(V) = Cardinality(Below(s)) => V = Below(s))
    BY <1>2, <2>1, FS_Subset, FS_CardinalityType
  <2>3. Cardinality(V) # Cardinality(Below(s))
    BY <2>1, <2>2
  <2> HIDE DEF Below, N
  <2>4. QED
    BY <1>2, <2>2, <2>3
<1>6. \A s \in V : \A x \in V : rank[x] < rank[s] => Cardinality(Below(x)) < Cardinality(Below(s))
  <2> SUFFICES ASSUME NEW s \in V, NEW x \in V, rank[x] < rank[s]
               PROVE  Cardinality(Below(x)) < Cardinality(Below(s))
    OBVIOUS
  <2>1. Below(x) \in SUBSET Below(s) /\ x \in Below(s) /\ x \notin Below(x)
    BY <1>4
  <2> HIDE DEF Below, N
  <2>2. /\ Cardinality(Below(x)) <= Cardinality(Below(s))
        /\ Cardinality(Below(s)) = Cardinality(Below(x)) => Below(s) = Below(x)
    BY <1>5, <2>1, FS_Subset
  <2>3. Cardinality(Below(s)) # Cardinality(Below(x))
    BY <2>1, <2>2
  <2>4. QED
    BY <1>5, <2>2, <2>3
<1> HIDE DEF Below, N
<1>7. Good(0)
  <2>1. Walk[0] = Src
    BY <1>2, <1>3 DEF WalkStep
  <2>2. QED
    BY <1>1, <1>2, <1>5, <2>1
<1>8. ASSUME NEW k \in 0 .. N, k # 0, Good(k - 1)
      PROVE  Good(k)
  <2>1. Walk[k] = IF Walk[k - 1] \in Switches THEN table[Walk[k - 1]] ELSE Walk[k - 1]
    BY <1>3, <1>8 DEF WalkStep
  <2>2. CASE Walk[k - 1] = Host
    BY <2>1, <2>2, FlowReroutingAssumption
  <2>3. CASE Walk[k - 1] \in V /\ Cardinality(Below(Walk[k - 1])) <= (N - 1) - (k - 1)
    <3>1. Walk[k] = table[Walk[k - 1]]
      BY <2>1, <2>3
    <3>2. CASE table[Walk[k - 1]] = Host
      BY <3>1, <3>2
    <3>3. CASE table[Walk[k - 1]] \in V /\ rank[table[Walk[k - 1]]] < rank[Walk[k - 1]]
      <4> DEFINE a == Walk[k - 1]
                 b == table[a]
      <4>1. a \in V /\ b \in V /\ rank[b] < rank[a]
        BY <2>3, <3>3
      <4> HIDE DEF a, b
      <4>2. Cardinality(Below(b)) < Cardinality(Below(a))
        BY <1>6, <4>1
      <4>3. Cardinality(Below(a)) <= (N - 1) - (k - 1)
        BY <2>3 DEF a
      <4>4. Cardinality(Below(b)) \in Nat /\ Cardinality(Below(a)) \in Nat /\ k \in Nat
        BY <1>2, <1>5, <4>1
      <4>5. Cardinality(Below(b)) <= (N - 1) - k
        BY <1>2, <4>2, <4>3, <4>4
      <4>6. Walk[k] = b
        BY <3>1 DEF a, b
      <4>7. QED
        BY <4>1, <4>5, <4>6
    <3>4. QED
      BY <1>1, <2>3, <3>2, <3>3
  <2>4. QED
    BY <1>8, <2>2, <2>3
<1> HIDE DEF Good
<1>9. Bad = {}
  <2>1. SUFFICES ASSUME Bad # {} PROVE FALSE
    OBVIOUS
  <2>2. Bad \in SUBSET Nat
    BY <1>2
  <2>3. PICK m \in Bad : \A k \in Bad : m <= k
    BY <2>1, <2>2, NatsHaveLeast
  <2>4. m # 0 /\ m \in 0 .. N
    BY <1>7, <2>3
  <2>5. m - 1 \in 0 .. N /\ ~(m <= m - 1)
    BY <1>2, <2>4
  <2>6. Good(m - 1)
    BY <2>3, <2>5
  <2>7. QED
    BY <1>8, <2>3, <2>4, <2>6
<1>10. Good(N)
  <2>1. N \in 0 .. N
    BY <1>2
  <2>2. QED
    BY <1>9, <2>1
<1>11. ~(Walk[N] \in V /\ Cardinality(Below(Walk[N])) <= (N - 1) - N)
  BY <1>2, <1>5
<1>12. QED
  BY <1>10, <1>11 DEF Good, N, Delivers, WalkEnd

\* Rules lead a packet out of the network when it follows one path until it comes to a part of
\* another one, from position m on, and follows that.
LEMMA MixedLeads ==
  ASSUME NEW old \in Paths, NEW new \in Paths, NEW m \in Nat, NEW f,
         \A j \in 1 .. Len(new) : j >= m => f[new[j]] = NextOn(new, new[j]),
         \A s : On(old, s) => (On(new, s) /\ Pos(new, s) >= m) \/ f[s] = NextOn(old, s)
  PROVE  Leads(f)
<1> DEFINE In(s) == On(new, s) /\ Pos(new, s) >= m
           V == {s \in Switches : On(old, s) \/ In(s)}
           r(s) == IF In(s) THEN Len(new) - Pos(new, s)
                   ELSE IF On(old, s) THEN Len(new) + (Len(old) - Pos(old, s)) ELSE 0
           rank == [s \in Switches |-> r(s)]
<1>1. Len(old) \in Nat /\ Len(new) \in Nat
  BY PathFacts
<1>2. \A s : On(new, s) => Pos(new, s) \in 1 .. Len(new) /\ new[Pos(new, s)] = s /\ s \in Switches
  BY OnPath
<1>3. \A s : On(old, s) => Pos(old, s) \in 1 .. Len(old) /\ old[Pos(old, s)] = s /\ s \in Switches
  BY OnPath
<1>4. \A s : r(s) \in Nat
  BY <1>1, <1>2, <1>3
<1>5. rank \in [Switches -> Nat]
  BY <1>4
<1>6. Src \in V
  <2>1. old[1] = Src /\ 1 \in 1 .. Len(old)
    BY PathFacts
  <2>2. On(old, old[1])
    BY <2>1, PosFacts
  <2>3. QED
    BY <1>3, <2>1, <2>2
<1>7. ASSUME NEW s \in V, In(s)
      PROVE  f[s] = Host \/ (f[s] \in V /\ r(f[s]) < r(s))
  <2> DEFINE i == Pos(new, s)
  <2>1. i \in 1 .. Len(new) /\ new[i] = s /\ i >= m
    BY <1>2, <1>7
  <2> HIDE DEF i
  <2>2. f[s] = NextOn(new, s)
    BY <2>1
  <2>3. NextOn(new, s) = IF i = Len(new) THEN Host ELSE new[i + 1]
    BY <2>1, NextAt
  <2>4. CASE i = Len(new)
    BY <2>2, <2>3, <2>4
  <2>5. CASE i # Len(new)
    <3>1. i + 1 \in 1 .. Len(new) /\ i + 1 >= m
      BY <1>1, <2>1, <2>5
    <3>2. On(new, new[i + 1]) /\ Pos(new, new[i + 1]) = i + 1
      BY <3>1, PosFacts
    <3>3. In(new[i + 1]) /\ new[i + 1] \in Switches
      BY <1>2, <3>1, <3>2
    <3>4. r(new[i + 1]) = Len(new) - (i + 1) /\ r(s) = Len(new) - i
      BY <1>7, <3>2, <3>3 DEF i
    <3>5. r(new[i + 1]) < r(s)
      BY <1>1, <2>1, <3>4
    <3>6. f[s] = new[i + 1]
      BY <2>2, <2>3, <2>5
    <3> HIDE DEF r, In
    <3>7. new[i + 1] \in V
      BY <3>3
    <3>8. QED
      BY <3>5, <3>6, <3>7
  <2>6. QED
    BY <2>4, <2>5
<1>8. ASSUME NEW s \in V, ~In(s)
      PROVE  f[s] = Host \/ (f[s] \in V /\ r(f[s]) < r(s))
  <2> DEFINE i == Pos(old, s)
  <2>1. On(old, s) /\ i \in 1 .. Len(old) /\ old[i] = s
    BY <1>3, <1>8
  <2> HIDE DEF i
  <2>2. f[s] = NextOn(old, s)
    BY <1>8, <2>1
  <2>3. NextOn(old, s) = IF i = Len(old) THEN Host ELSE old[i + 1]
    BY <2>1, NextAt
  <2>4. CASE i = Len(old)
    BY <2>2, <2>3, <2>4
  <2>5. CASE i # Len(old)
    <3>1. i + 1 \in 1 .. Len(old)
      BY <1>1, <2>1, <2>5
    <3> DEFINE t == old[i + 1]
    <3>2. On(old, t) /\ Pos(old, t) = i + 1
      BY <3>1, PosFacts
    <3> HIDE DEF t
    <3>3. t \in V
      BY <1>3, <3>2
    <3>4. r(s) = Len(new) + (Len(old) - i)
      BY <1>8, <2>1 DEF i
    <3>5. CASE In(t)
      <4>1. r(t) = Len(new) - Pos(new, t) /\ Pos(new, t) \in 1 .. Len(new)
        BY <1>2, <3>5
      <4>2. r(t) < r(s)
        BY <1>1, <2>1, <3>4, <4>1
      <4>3. QED
        BY <2>2, <2>3, <2>5, <3>3, <4>2 DEF t
    <3>6. CASE ~In(t)
      <4>1. r(t) = Len(new) + (Len(old) - (i + 1))
        BY <3>2, <3>6
      <4>2. r(t) < r(s)
        BY <1>1, <2>1, <3>1, <3>4, <4>1
      <4>3. QED
        BY <2>2, <2>3, <2>5, <3>3, <4>2 DEF t
    <3>7. QED
      BY <3>5, <3>6
  <2>6. QED
    BY <2>4, <2>5
<1>9. \A s \in V : f[s] = Host \/ (f[s] \in V /\ rank[f[s]] < rank[s])
  <2> HIDE DEF r, In
  <2>1. \A s \in V : rank[s] = r(s)
    OBVIOUS
  <2> HIDE DEF rank, V
  <2>2. QED
    BY <1>7, <1>8, <2>1
<1>10. QED
  <2> HIDE DEF rank
  <2>1. V \in SUBSET Switches
    OBVIOUS
  <2> HIDE DEF V
  <2>2. QED
    BY <1>5, <1>6, <1>9, <2>1 DEF Leads

----------------------------------------------------------------------------
(* Which messages a switch has applied.                                    *)

Prefix(ms, k) == SubSeq(ms, 1, k)

\* Rules t lead a packet out of the network, and go on to while the messages ms are applied in
\* their order.
SafeFrom(t, ms) ==
  \A k \in 0 .. Len(ms) : \A f \in [Switches -> Hops] :
    (\A s \in Switches : EndsAt(Prefix(ms, k), t[s], s, f[s])) => Leads(f)

\* The first messages of a list.
LEMMA PrefixFacts ==
  ASSUME NEW T, NEW ms \in Seq(T), NEW k \in 0 .. Len(ms)
  PROVE  /\ Prefix(ms, k) \in Seq(T) /\ Len(Prefix(ms, k)) = k
         /\ \A i \in 1 .. k : Prefix(ms, k)[i] = ms[i]
<1>1. Len(ms) \in Nat /\ \A i \in 1 .. Len(ms) : ms[i] \in T
  BY LenProperties, ElementOfSeq
<1>2. k \in Int /\ 1 \in Int /\ \A i \in 1 .. k : ms[i] \in T
  BY <1>1
<1>3. /\ SubSeq(ms, 1, k) \in Seq(T)
      /\ Len(SubSeq(ms, 1, k)) = IF 1 <= k THEN k - 1 + 1 ELSE 0
      /\ \A i \in 1 .. k - 1 + 1 : SubSeq(ms, 1, k)[i] = ms[1 + i - 1]
  BY <1>2, SubSeqProperties
<1>4. \A i \in 1 .. k : i \in 1 .. k - 1 + 1 /\ 1 + i - 1 = i
  BY <1>1
<1>5. (IF 1 <= k THEN k - 1 + 1 ELSE 0) = k
  BY <1>1
<1>6. QED
  BY <1>3, <1>4, <1>5 DEF Prefix

\* The first messages of two lists.
LEMMA PrefixConcat ==
  ASSUME NEW T, NEW ms \in Seq(T), NEW ns \in Seq(T), NEW k \in 0 .. Len(ms \o ns)
  PROVE  \/ k \in 0 .. Len(ms) /\ Prefix(ms \o ns, k) = Prefix(ms, k)
         \/ /\ k - Len(ms) \in 0 .. Len(ns)
            /\ Prefix(ms \o ns, k) = ms \o Prefix(ns, k - Len(ms))
<1> DEFINE c == ms \o ns
<1>1. /\ Len(ms) \in Nat /\ Len(ns) \in Nat
      /\ c \in Seq(T) /\ Len(c) = Len(ms) + Len(ns)
      /\ \A i \in 1 .. Len(ms) + Len(ns) :
           c[i] = IF i <= Len(ms) THEN ms[i] ELSE ns[i - Len(ms)]
  BY ConcatProperties, LenProperties
<1> HIDE DEF c
<1>2. /\ Prefix(c, k) \in Seq(T) /\ Len(Prefix(c, k)) = k
      /\ \A i \in 1 .. k : Prefix(c, k)[i] = c[i]
  BY <1>1, PrefixFacts DEF c
<1>3. CASE k <= Len(ms)
  <2>1. k \in 0 .. Len(ms)
    BY <1>1, <1>3
  <2>2. /\ Prefix(ms, k) \in Seq(T) /\ Len(Prefix(ms, k)) = k
        /\ \A i \in 1 .. k : Prefix(ms, k)[i] = ms[i]
    BY <2>1, PrefixFacts
  <2>3. \A i \in 1 .. k : c[i] = ms[i]
    BY <1>1, <1>3, <2>1
  <2>4. Prefix(c, k) = Prefix(ms, k)
    BY <1>2, <2>2, <2>3, SeqEqual
  <2>5. QED
    BY <2>1, <2>4 DEF c
<1>4. CASE ~(k <= Len(ms))
  <2> DEFINE l == k - Len(ms)
             d == ms \o Prefix(ns, l)
  <2>1. l \in 0 .. Len(ns) /\ Len(ms) + l = k /\ k \in Nat
    BY <1>1, <1>4 DEF c
  <2> HIDE DEF l
  <2>2. /\ Prefix(ns, l) \in Seq(T) /\ Len(Prefix(ns, l)) = l
        /\ \A i \in 1 .. l : Prefix(ns, l)[i] = ns[i]
    BY <2>1, PrefixFacts
  <2>3. /\ d \in Seq(T) /\ Len(d) = k
        /\ \A i \in 1 .. k : d[i] = IF i <= Len(ms) THEN ms[i] ELSE Prefix(ns, l)[i - Len(ms)]
    <3> DEFINE e == Prefix(ns, l)
    <3>1. e \in Seq(T) /\ Len(e) = l
      BY <2>2
    <3> HIDE DEF e
    <3>2. /\ ms \o e \in Seq(T) /\ Len(ms \o e) = Len(ms) + Len(e)
          /\ \A i \in 1 .. Len(ms) + Len(e) :
               (ms \o e)[i] = IF i <= Len(ms) THEN ms[i] ELSE e[i - Len(ms)]
      BY <3>1, ConcatProperties
    <3>3. QED
      BY <2>1, <3>1, <3>2 DEF e
  <2> HIDE DEF d
  <2>4. ASSUME NEW i \in 1 .. k PROVE c[i] = d[i]
    <3>1. i \in 1 .. Len(ms) + Len(ns)
      BY <1>1, <2>1
    <3>2. CASE i <= Len(ms)
      BY <1>1, <2>3, <3>1, <3>2
    <3>3. CASE ~(i <= Len(ms))
      <4>1. i - Len(ms) \in 1 .. l
        BY <1>1, <2>1, <3>3
      <4>2. d[i] = ns[i - Len(ms)]
        BY <2>2, <2>3, <3>3, <4>1
      <4>3. QED
        BY <1>1, <3>1, <3>3, <4>2
    <3>4. QED
      BY <3>2, <3>3
  <2>5. Prefix(c, k) = d
    BY <1>2, <2>3, <2>4, SeqEqual
  <2>6. QED
    BY <2>1, <2>5 DEF c, d, l
<1>5. QED
  BY <1>3, <1>4

\* Messages applied one list after the other.
LEMMA EndsAtJoin ==
  ASSUME NEW T, NEW ms \in Seq(T), NEW ns \in Seq(T), NEW t, NEW s, NEW g, NEW h,
         EndsAt(ms, t, s, g), EndsAt(ns, g, s, h)
  PROVE  EndsAt(ms \o ns, t, s, h)
<1> DEFINE c == ms \o ns
<1>1. /\ Len(ms) \in Nat /\ Len(ns) \in Nat /\ DOMAIN ns = 1 .. Len(ns)
      /\ c \in Seq(T) /\ Len(c) = Len(ms) + Len(ns)
      /\ \A i \in 1 .. Len(ms) + Len(ns) :
           c[i] = IF i <= Len(ms) THEN ms[i] ELSE ns[i - Len(ms)]
  BY ConcatProperties, LenProperties
<1>2. CASE \A i \in 1 .. Len(ns) : ns[i].switch # s
  <2>1. g = h
    BY <1>2 DEF EndsAt
  <2>2. Agrees(ns, s, h)
    BY <1>1, <1>2 DEF Agrees, ToSet
  <2>3. QED
    BY <2>1, <2>2, EndsAtAgrees
<1>3. CASE \E i \in 1 .. Len(ns) : ns[i].switch = s
  <2>1. PICK i \in 1 .. Len(ns) : /\ ns[i].switch = s /\ ns[i].hop = h
                                  /\ \A j \in 1 .. Len(ns) : j > i => ns[j].switch # s
    BY <1>3 DEF EndsAt
  <2> HIDE DEF c
  <2>2. Len(ms) + i \in 1 .. Len(ms) + Len(ns)
    BY <1>1
  <2>3. ~(Len(ms) + i <= Len(ms)) /\ (Len(ms) + i) - Len(ms) = i
    BY <1>1
  <2>4. c[Len(ms) + i] = ns[i]
    <3>1. c[Len(ms) + i] = ns[(Len(ms) + i) - Len(ms)]
      BY <1>1, <2>2, <2>3
    <3>2. QED
      BY <2>3, <3>1
  <2>5. ASSUME NEW j \in 1 .. Len(c), j > Len(ms) + i PROVE c[j].switch # s
    <3>1. j - Len(ms) \in 1 .. Len(ns) /\ j - Len(ms) > i /\ c[j] = ns[j - Len(ms)]
      BY <1>1, <2>5
    <3>2. QED
      BY <2>1, <3>1
  <2>6. Len(ms) + i \in 1 .. Len(c)
    BY <1>1, <2>2
  <2>7. EndsAt(c, t, s, h)
    BY <2>1, <2>4, <2>5, <2>6 DEF EndsAt
  <2>8. QED
    BY <2>7 DEF c
<1>4. QED
  BY <1>2, <1>3

\* Only one hop can be the last.
LEMMA EndsAtUnique ==
  ASSUME NEW T, NEW ms \in Seq(T), NEW t, NEW s, NEW g, NEW h,
         EndsAt(ms, t, s, g), EndsAt(ms, t, s, h)
  PROVE  g = h
<1>1. Len(ms) \in Nat
  BY LenProperties
<1>2. CASE \A i \in 1 .. Len(ms) : ms[i].switch # s
  BY <1>2 DEF EndsAt
<1>3. CASE \E i \in 1 .. Len(ms) : ms[i].switch = s
  <2>1. PICK i \in 1 .. Len(ms) : /\ ms[i].switch = s /\ ms[i].hop = g
                                  /\ \A j \in 1 .. Len(ms) : j > i => ms[j].switch # s
    BY <1>3 DEF EndsAt
  <2>2. PICK k \in 1 .. Len(ms) : /\ ms[k].switch = s /\ ms[k].hop = h
                                  /\ \A j \in 1 .. Len(ms) : j > k => ms[j].switch # s
    BY <1>3 DEF EndsAt
  <2>3. ~(k > i) /\ ~(i > k)
    BY <2>1, <2>2
  <2>4. i = k
    BY <1>1, <2>3
  <2>5. QED
    BY <2>1, <2>2, <2>4
<1>4. QED
  BY <1>2, <1>3

\* Some hop is.
LEMMA EndsAtSome ==
  ASSUME NEW ms \in Seq(Message), NEW t \in Hops, NEW s
  PROVE  \E h \in Hops : EndsAt(ms, t, s, h)
<1>1. DOMAIN ms = 1 .. Len(ms) /\ \A i \in 1 .. Len(ms) : ms[i] \in Message
  BY LenProperties, ElementOfSeq
<1>2. CASE \A i \in 1 .. Len(ms) : ms[i].switch # s
  BY <1>2 DEF EndsAt
<1>3. CASE \E i \in 1 .. Len(ms) : ms[i].switch = s
  <2>1. Reaches(ms, s)
    BY <1>1, <1>3 DEF Reaches, ToSet
  <2>2. PICK i \in 1 .. Len(ms) : /\ ms[i].switch = s
                                  /\ \A j \in 1 .. Len(ms) : j > i => ms[j].switch # s
    BY <2>1, LastMessage
  <2>3. ms[i].hop \in Hops
    BY <1>1, <2>2 DEF Message
  <2>4. QED
    BY <2>2, <2>3 DEF EndsAt
<1>4. QED
  BY <1>2, <1>3

\* A switch whose messages agree with the hop it has, or that gets one.
LEMMA EndsAtIs ==
  ASSUME NEW T, NEW ms \in Seq(T), NEW t, NEW s, NEW g, NEW h,
         EndsAt(ms, t, s, h), Agrees(ms, s, g), t = g \/ Reaches(ms, s)
  PROVE  h = g
<1>1. DOMAIN ms = 1 .. Len(ms) /\ \A i \in 1 .. Len(ms) : ms[i] \in ToSet(ms)
  BY LenProperties DEF ToSet
<1>2. CASE \E i \in 1 .. Len(ms) : ms[i].switch = s /\ ms[i].hop = h
  BY <1>1, <1>2 DEF Agrees
<1>3. CASE t = h /\ \A i \in 1 .. Len(ms) : ms[i].switch # s
  BY <1>1, <1>3 DEF Reaches, ToSet
<1>4. QED
  BY <1>2, <1>3 DEF EndsAt

\* A list of messages that is safe stays so when the next list is safe where it ends.
LEMMA SafeConcat ==
  ASSUME NEW ms \in Seq(Message), NEW ns \in Seq(Message),
         NEW t \in [Switches -> Hops], NEW g \in [Switches -> Hops],
         SafeFrom(t, ms), SafeFrom(g, ns),
         \A s \in Switches : EndsAt(ms, t[s], s, g[s])
  PROVE  SafeFrom(t, ms \o ns)
<1> SUFFICES ASSUME NEW k \in 0 .. Len(ms \o ns), NEW f \in [Switches -> Hops],
                    \A s \in Switches : EndsAt(Prefix(ms \o ns, k), t[s], s, f[s])
             PROVE  Leads(f)
  BY DEF SafeFrom
<1>1. CASE k \in 0 .. Len(ms) /\ Prefix(ms \o ns, k) = Prefix(ms, k)
  BY <1>1 DEF SafeFrom
<1>2. CASE /\ k - Len(ms) \in 0 .. Len(ns)
           /\ Prefix(ms \o ns, k) = ms \o Prefix(ns, k - Len(ms))
  <2> DEFINE l == k - Len(ms)
  <2>1. l \in 0 .. Len(ns) /\ Prefix(ms \o ns, k) = ms \o Prefix(ns, l)
    BY <1>2
  <2> HIDE DEF l
  <2>2. Prefix(ns, l) \in Seq(Message)
    BY <2>1, PrefixFacts
  <2>3. ASSUME NEW s \in Switches PROVE EndsAt(Prefix(ns, l), g[s], s, f[s])
    <3>1. g[s] \in Hops
      OBVIOUS
    <3>2. PICK h \in Hops : EndsAt(Prefix(ns, l), g[s], s, h)
      BY <2>2, <3>1, EndsAtSome
    <3>3. EndsAt(ms, t[s], s, g[s])
      OBVIOUS
    <3>4. EndsAt(ms \o Prefix(ns, l), t[s], s, h)
      BY <2>2, <3>2, <3>3, EndsAtJoin
    <3>5. EndsAt(ms \o Prefix(ns, l), t[s], s, f[s])
      BY <2>1
    <3>6. ms \o Prefix(ns, l) \in Seq(Message)
      BY <2>2, ConcatProperties
    <3>7. h = f[s]
      BY <3>4, <3>5, <3>6, EndsAtUnique
    <3>8. QED
      BY <3>2, <3>7
  <2>4. QED
    BY <2>1, <2>3 DEF SafeFrom
<1>3. QED
  BY <1>1, <1>2, PrefixConcat

\* The rules stay safe when the first message is applied.
LEMMA SafeTail ==
  ASSUME NEW m \in Message, NEW ms \in Seq(Message), NEW t \in [Switches -> Hops],
         SafeFrom(t, <<m>> \o ms)
  PROVE  SafeFrom([t EXCEPT ![m.switch] = m.hop], ms)
<1> DEFINE u == [t EXCEPT ![m.switch] = m.hop]
           c == <<m>> \o ms
<1> SUFFICES ASSUME NEW k \in 0 .. Len(ms), NEW f \in [Switches -> Hops],
                    \A s \in Switches : EndsAt(Prefix(ms, k), u[s], s, f[s])
             PROVE  Leads(f)
  BY DEF SafeFrom
<1>1. <<m>> \in Seq(Message) /\ Len(<<m>>) = 1 /\ <<m>>[1] = m /\ Len(ms) \in Nat
  BY LenProperties
<1>2. c \in Seq(Message) /\ Len(c) = 1 + Len(ms)
  BY <1>1, ConcatProperties
<1>3. k + 1 \in 0 .. Len(c) /\ (k + 1) - Len(<<m>>) = k /\ k \in Nat
  BY <1>1, <1>2
<1>4. Prefix(ms, k) \in Seq(Message)
  BY PrefixFacts
<1> DEFINE one == <<m>>
<1> HIDE DEF one, c
<1>5. \/ k + 1 \in 0 .. Len(one) /\ Prefix(one \o ms, k + 1) = Prefix(one, k + 1)
      \/ /\ (k + 1) - Len(one) \in 0 .. Len(ms)
         /\ Prefix(one \o ms, k + 1) = one \o Prefix(ms, (k + 1) - Len(one))
  BY <1>1, <1>3, PrefixConcat DEF one, c
<1>6. Prefix(c, k + 1) = one \o Prefix(ms, k)
  <2>1. CASE (k + 1) - Len(one) \in 0 .. Len(ms)
             /\ Prefix(one \o ms, k + 1) = one \o Prefix(ms, (k + 1) - Len(one))
    BY <1>3, <2>1 DEF one, c
  <2>2. CASE k + 1 \in 0 .. Len(one) /\ Prefix(one \o ms, k + 1) = Prefix(one, k + 1)
    <3>1. k = 0
      BY <1>1, <1>3, <2>2 DEF one
    <3>2. 0 \in 0 .. Len(ms) /\ 1 \in 0 .. Len(one)
      BY <1>1 DEF one
    <3>3. Prefix(ms, 0) \in Seq(Message) /\ Len(Prefix(ms, 0)) = 0
      BY <3>2, PrefixFacts
    <3>4. Prefix(ms, 0) = <<>>
      BY <3>3, EmptySeq
    <3>5. one \in Seq(Message) /\ Len(one) = 1
      BY <1>1 DEF one
    <3> HIDE DEF one
    <3>6. /\ Prefix(one, 1) \in Seq(Message) /\ Len(Prefix(one, 1)) = 1
          /\ \A i \in 1 .. 1 : Prefix(one, 1)[i] = one[i]
      <4>1. 1 \in 0 .. Len(one)
        BY <3>5
      <4>2. \A l \in 0 .. Len(one) :
              /\ Prefix(one, l) \in Seq(Message) /\ Len(Prefix(one, l)) = l
              /\ \A i \in 1 .. l : Prefix(one, l)[i] = one[i]
        <5>1. one \in Seq(Message)
          BY <3>5
        <5>2. QED
          BY <5>1, PrefixFacts
      <4>3. QED
        BY <4>1, <4>2
    <3>7. Prefix(one, 1) = one
      BY <3>5, <3>6, SeqEqual
    <3>8. one \o <<>> = one
      BY <3>5, ConcatEmptySeq
    <3>9. k + 1 = 1
      BY <3>1
    <3>10. Prefix(one \o ms, 1) = one
      BY <2>2, <3>7, <3>9
    <3>11. one \o Prefix(ms, k) = one
      BY <3>1, <3>4, <3>8
    <3>12. c = one \o ms
      BY DEF c, one
    <3>13. QED
      BY <3>9, <3>10, <3>11, <3>12
  <2>3. QED
    BY <1>5, <2>1, <2>2
<1>7. ASSUME NEW s \in Switches PROVE EndsAt(Prefix(c, k + 1), t[s], s, f[s])
  <2>1. EndsAt(one, t[s], s, u[s])
    <3>1. m.switch \in Switches
      BY DEF Message
    <3>2. CASE s = m.switch
      <4>1. u[s] = m.hop
        BY <3>1, <3>2
      <4>2. QED
        BY <1>1, <3>2, <4>1 DEF EndsAt, one
    <3>3. CASE s # m.switch
      <4>1. u[s] = t[s]
        BY <3>1, <3>3
      <4>2. QED
        BY <1>1, <3>3, <4>1 DEF EndsAt, one
    <3>4. QED
      BY <3>2, <3>3
  <2>2. EndsAt(Prefix(ms, k), u[s], s, f[s])
    OBVIOUS
  <2> HIDE DEF u
  <2>3. one \in Seq(Message)
    BY <1>1 DEF one
  <2>4. EndsAt(one \o Prefix(ms, k), t[s], s, f[s])
    BY <1>4, <2>1, <2>2, <2>3, EndsAtJoin
  <2>5. QED
    BY <1>6, <2>4
<1>8. QED
  <2>1. SafeFrom(t, c)
    BY DEF c, one
  <2>2. QED
    BY <1>3, <1>7, <2>1 DEF SafeFrom

----------------------------------------------------------------------------
(* The order of flow_mod_list.                                             *)

\* Kept takes the elements in their order.
LEMMA KeptOrdered ==
  ASSUME NEW T, NEW list \in Seq(T), NEW set
  PROVE  \A a, b \in 1 .. Len(Kept(list, set)) :
           a < b => \E i, j \in 1 .. Len(list) :
                      i < j /\ list[i] = Kept(list, set)[a] /\ list[j] = Kept(list, set)[b]
<1>1. Len(list) \in Nat /\ \A n \in 1 .. Len(list) : list[n] \in T
  OBVIOUS
<1>2. PICK f : /\ \A n \in 0 .. Len(list) : f[n] = KeptStep(list, set, f, n)
               /\ Kept(list, set) = f[Len(list)]
  BY KeptUnfolds
<1> DEFINE Ordered(q, m) == \A a, b \in 1 .. Len(q) :
                              a < b => \E i, j \in 1 .. m : i < j /\ list[i] = q[a] /\ list[j] = q[b]
           Good(m) == /\ f[m] \in Seq(T) /\ \A a \in 1 .. Len(f[m]) : \E i \in 1 .. m : list[i] = f[m][a]
                      /\ Ordered(f[m], m)
           Bad == {m \in 0 .. Len(list) : ~Good(m)}
<1>3. Good(0)
  <2>1. f[0] = <<>>
    BY <1>1, <1>2 DEF KeptStep
  <2>2. 1 .. Len(<<>>) = {} /\ <<>> \in Seq(T)
    OBVIOUS
  <2>3. QED
    BY <2>1, <2>2
<1>4. ASSUME NEW m \in 0 .. Len(list), m # 0, Good(m - 1)
      PROVE  Good(m)
  <2>1. m \in 1 .. Len(list) /\ list[m] \in T /\ m \in 1 .. m /\ m \in Nat
        /\ \A i \in 1 .. m - 1 : i \in 1 .. m /\ i < m
    BY <1>1, <1>4
  <2> DEFINE q == f[m - 1]
             e == list[m]
             r == Append(q, e)
  <2>2. f[m] = IF e \in set THEN r ELSE q
    BY <1>2, <1>4 DEF KeptStep
  <2>3. /\ q \in Seq(T) /\ \A a \in 1 .. Len(q) : \E i \in 1 .. m - 1 : list[i] = q[a]
        /\ Ordered(q, m - 1)
    BY <1>4
  <2>4. e \in T /\ Len(q) \in Nat
    BY <2>1, <2>3, LenProperties
  <2> HIDE DEF q, e
  <2>5. Ordered(q, m)
    BY <2>1, <2>3
  <2>6. CASE e \notin set
    BY <2>1, <2>2, <2>3, <2>5, <2>6
  <2>7. CASE e \in set
    <3>1. /\ r \in Seq(T) /\ Len(r) = Len(q) + 1
          /\ \A a \in 1 .. Len(q) : r[a] = q[a]
          /\ r[Len(q) + 1] = e
      BY <2>3, <2>4, AppendProperties
    <3> HIDE DEF r
    <3>2. ASSUME NEW a \in 1 .. Len(r) PROVE \E i \in 1 .. m : list[i] = r[a]
      <4>1. CASE a \in 1 .. Len(q)
        BY <2>1, <2>3, <3>1, <4>1
      <4>2. CASE a = Len(q) + 1
        BY <2>1, <3>1, <4>2 DEF e
      <4>3. QED
        BY <2>4, <3>1, <4>1, <4>2
    <3>3. ASSUME NEW a \in 1 .. Len(r), NEW b \in 1 .. Len(r), a < b
          PROVE  \E i, j \in 1 .. m : i < j /\ list[i] = r[a] /\ list[j] = r[b]
      <4>1. a \in 1 .. Len(q)
        BY <2>4, <3>1, <3>3
      <4>2. CASE b \in 1 .. Len(q)
        <5>1. \E i, j \in 1 .. m : i < j /\ list[i] = q[a] /\ list[j] = q[b]
          BY <2>5, <3>3, <4>1, <4>2
        <5>2. r[a] = q[a] /\ r[b] = q[b]
          BY <3>1, <4>1, <4>2
        <5>3. QED
          BY <5>1, <5>2
      <4>3. CASE b = Len(q) + 1
        <5>1. PICK i \in 1 .. m - 1 : list[i] = q[a]
          BY <2>3, <4>1
        <5>2. i \in 1 .. m /\ i < m /\ list[i] = r[a] /\ list[m] = r[b]
          BY <2>1, <3>1, <4>1, <4>3, <5>1 DEF e
        <5>3. QED
          BY <2>1, <5>2
      <4>4. QED
        BY <2>4, <3>1, <4>2, <4>3
    <3>4. Ordered(r, m)
      BY <3>3
    <3> HIDE DEF Ordered
    <3>5. QED
      BY <2>2, <2>7, <3>1, <3>2, <3>4
  <2>8. QED
    BY <2>6, <2>7
<1> HIDE DEF Good
<1>5. Bad = {}
  <2>1. SUFFICES ASSUME Bad # {} PROVE FALSE
    OBVIOUS
  <2>2. Bad \in SUBSET Nat
    BY <1>1
  <2>3. PICK m \in Bad : \A k \in Bad : m <= k
    BY <2>1, <2>2, NatsHaveLeast
  <2>4. m # 0 /\ m \in 0 .. Len(list)
    BY <1>3, <2>3
  <2>5. m - 1 \in 0 .. Len(list) /\ ~(m <= m - 1)
    BY <1>1, <2>4
  <2>6. Good(m - 1)
    BY <2>3, <2>5
  <2>7. QED
    BY <1>4, <2>3, <2>4, <2>6
<1>6. Good(Len(list))
  BY <1>1, <1>5
<1>7. QED
  BY <1>2, <1>6 DEF Good

\* The last loop over the deleted switches finds no switch that the loop over the new path has
\* not: one whose old hop is deleted has a new hop, which was reached from elsewhere, if at all.
LEMMA LeavesFollow ==
  ASSUME NEW old \in Paths, NEW new \in Paths
  PROVE  Leaves(old, new) \subseteq Follows(old, new)
<1> SUFFICES ASSUME NEW s \in Leaves(old, new), s \notin Follows(old, new) PROVE FALSE
  OBVIOUS
<1>1. On(old, s) /\ On(new, s) /\ s # Dst /\ ~On(new, NextOn(old, s))
  BY PathElements DEF Leaves
<1>2. NextOn(old, s) = NextOn(new, s)
  BY <1>1, NotFollowsKeeps
<1> DEFINE i == Pos(new, s)
<1>3. i \in 1 .. Len(new) /\ new[i] = s
  BY <1>1, OnPath
<1> HIDE DEF i
<1>4. i # Len(new) /\ Len(new) \in Nat
  BY <1>1, <1>3, PathFacts
<1>5. NextOn(new, s) = new[i + 1]
  BY <1>3, <1>4, NextAt
<1>6. i + 1 \in 1 .. Len(new)
  BY <1>3, <1>4
<1>7. On(new, new[i + 1])
  BY <1>6, PosFacts
<1>8. QED
  BY <1>1, <1>2, <1>5, <1>7

\* The switches that are modified are those that follow, the last one on the new path first.
LEMMA ModifiedOrdered ==
  ASSUME NEW old \in Paths, NEW new \in Paths
  PROVE  /\ ToSet(Modified(old, new)) = Follows(old, new)
         /\ \A a, b \in 1 .. Len(Modified(old, new)) :
              a < b => Pos(new, Modified(old, new)[b]) < Pos(new, Modified(old, new)[a])
<1> DEFINE K == Kept(new, Follows(old, new))
           E == Kept(old, {})
<1>1. old \in Seq(Switches) /\ new \in Seq(Switches) /\ Len(new) \in Nat
  BY PathFacts
<1>2. K \in Seq(Switches) /\ ToSet(K) = Follows(old, new)
  <2>1. K \in Seq(Switches) /\ ToSet(K) = ToSet(new) \cap Follows(old, new)
    BY <1>1, KeptProperties
  <2>2. Follows(old, new) \subseteq ToSet(new)
    BY DEF Follows
  <2>3. QED
    BY <2>1, <2>2
<1>3. E = <<>>
  <2>1. E \in Seq(Switches) /\ ToSet(E) = ToSet(old) \cap {}
    BY <1>1, KeptProperties
  <2> HIDE DEF E
  <2>2. DOMAIN E = 1 .. Len(E) /\ Len(E) \in Nat
    BY <2>1, LenProperties
  <2>3. \A i \in DOMAIN E : E[i] \in ToSet(E)
    BY DEF ToSet
  <2>4. Len(E) = 0
    BY <2>1, <2>2, <2>3
  <2>5. QED
    BY <2>1, <2>4, EmptySeq
<1>4. Leaves(old, new) \ Follows(old, new) = {}
  BY LeavesFollow
<1>5. Modified(old, new) = Reverse(K)
  <2>1. Modified(old, new) = Reverse(K \o E)
    BY <1>4 DEF Modified
  <2> HIDE DEF K, E
  <2>2. K \o <<>> = K
    BY <1>2, ConcatEmptySeq
  <2>3. QED
    BY <1>3, <2>1, <2>2
<1>6. \A a, b \in 1 .. Len(K) :
        a < b => \E i, j \in 1 .. Len(new) : i < j /\ new[i] = K[a] /\ new[j] = K[b]
  BY <1>1, KeptOrdered
<1> HIDE DEF K
<1>7. Len(K) \in Nat /\ Reverse(K) \in Seq(Switches) /\ ToSet(Reverse(K)) = ToSet(K)
  BY <1>2, LenProperties, ToSetReverse
<1>8. /\ Len(Reverse(K)) = Len(K)
      /\ \A a \in 1 .. Len(K) : Reverse(K)[a] = K[(Len(K) - a) + 1]
  <2>1. DOMAIN Reverse(K) = 1 .. Len(K) /\ \A a \in 1 .. Len(K) : Reverse(K)[a] = K[(Len(K) - a) + 1]
    BY <1>7 DEF Reverse
  <2>2. QED
    BY <1>7, <2>1, LenProperties
<1>9. ASSUME NEW a \in 1 .. Len(K), NEW b \in 1 .. Len(K), a < b
      PROVE  Pos(new, Reverse(K)[b]) < Pos(new, Reverse(K)[a])
  <2> DEFINE c == (Len(K) - a) + 1
             d == (Len(K) - b) + 1
  <2>1. c \in 1 .. Len(K) /\ d \in 1 .. Len(K) /\ d < c
    BY <1>7, <1>9
  <2>2. Reverse(K)[a] = K[c] /\ Reverse(K)[b] = K[d]
    BY <1>8
  <2> HIDE DEF c, d
  <2>3. PICK i, j \in 1 .. Len(new) : i < j /\ new[i] = K[d] /\ new[j] = K[c]
    BY <1>6, <2>1
  <2>4. Pos(new, new[i]) = i /\ Pos(new, new[j]) = j
    BY PosFacts
  <2>5. QED
    BY <2>2, <2>3, <2>4
<1>10. QED
  BY <1>2, <1>5, <1>7, <1>8, <1>9

----------------------------------------------------------------------------
(* Each part of a move is safe.                                            *)

\* The rules of a path lead a packet along it.
LEMMA PathLeads ==
  ASSUME NEW p \in Paths, NEW f, \A s : On(p, s) => f[s] = NextOn(p, s)
  PROVE  Leads(f)
<1>1. Len(p) \in Nat
  BY PathFacts
<1>2. \A j \in 1 .. Len(p) : j >= 0 => f[p[j]] = NextOn(p, p[j])
  BY PosFacts
<1>3. \A s : On(p, s) => (On(p, s) /\ Pos(p, s) >= 0) \/ f[s] = NextOn(p, s)
  OBVIOUS
<1>4. 0 \in Nat
  OBVIOUS
<1>5. QED
  BY <1>2, <1>3, <1>4, MixedLeads

\* No messages are safe where the rules are.
LEMMA SafeEmpty ==
  ASSUME NEW t \in [Switches -> Hops], Leads(t)
  PROVE  SafeFrom(t, <<>>)
<1> SUFFICES ASSUME NEW k \in 0 .. Len(<<>>), NEW f \in [Switches -> Hops],
                    \A s \in Switches : EndsAt(Prefix(<<>>, k), t[s], s, f[s])
             PROVE  Leads(f)
  BY DEF SafeFrom
<1>1. k = 0 /\ <<>> \in Seq(Message) /\ 0 \in 0 .. Len(<<>>)
  OBVIOUS
<1>2. Prefix(<<>>, 0) \in Seq(Message) /\ Len(Prefix(<<>>, 0)) = 0
  BY <1>1, PrefixFacts
<1>3. Prefix(<<>>, k) = <<>>
  BY <1>1, <1>2, EmptySeq
<1>4. \A s \in Switches : t[s] = f[s]
  BY <1>3, EndsAtEmpty
<1>5. t = f
  BY <1>4
<1>6. QED
  BY <1>5

\* Which messages a switch gets from the first of a list.
LEMMA PrefixReaches ==
  ASSUME NEW T, NEW ms \in Seq(T), NEW k \in 0 .. Len(ms), NEW s
  PROVE  /\ Reaches(Prefix(ms, k), s) <=> \E i \in 1 .. k : ms[i].switch = s
         /\ \A h : Agrees(ms, s, h) => Agrees(Prefix(ms, k), s, h)
<1>1. /\ Prefix(ms, k) \in Seq(T) /\ Len(Prefix(ms, k)) = k
      /\ \A i \in 1 .. k : Prefix(ms, k)[i] = ms[i]
  BY PrefixFacts
<1>2. DOMAIN Prefix(ms, k) = 1 .. k /\ DOMAIN ms = 1 .. Len(ms) /\ Len(ms) \in Nat
  BY <1>1, LenProperties
<1> DEFINE q == Prefix(ms, k)
<1>3. ToSet(q) = {ms[i] : i \in 1 .. k}
  BY <1>1, <1>2 DEF ToSet
<1>4. ToSet(q) \subseteq ToSet(ms)
  <2>1. \A i \in 1 .. k : i \in 1 .. Len(ms)
    BY <1>2
  <2>2. QED
    BY <1>2, <1>3, <2>1 DEF ToSet
<1> HIDE DEF q
<1>5. QED
  BY <1>3, <1>4 DEF Reaches, Agrees, q

\* Rules for new switches do not touch the way of the packets.
LEMMA AddedSafe ==
  ASSUME NEW old \in Paths, NEW new \in Paths, NEW t \in [Switches -> Hops],
         \A s \in Switches : t[s] = RuleOn(old, s)
  PROVE  SafeFrom(t, Forward(new, Added(old, new)))
<1> DEFINE ms == Forward(new, Added(old, new))
<1> SUFFICES ASSUME NEW k \in 0 .. Len(ms), NEW f \in [Switches -> Hops],
                    \A s \in Switches : EndsAt(Prefix(ms, k), t[s], s, f[s])
             PROVE  Leads(f)
  BY DEF SafeFrom
<1>1. /\ ms \in Seq(Message) /\ Added(old, new) \in Seq(Switches)
      /\ ToSet(Added(old, new)) = {s \in ToSet(new) : ~On(old, s)}
  BY MoveTyped, ListFacts
<1>2. Prefix(ms, k) \in Seq(Message)
  BY <1>1, PrefixFacts
<1>3. ASSUME NEW s, On(old, s) PROVE f[s] = NextOn(old, s)
  <2>1. s \in Switches /\ t[s] = NextOn(old, s)
    BY <1>3, OnPath DEF RuleOn
  <2>2. s \notin ToSet(Added(old, new)) /\ ToSet(Added(old, new)) \subseteq ToSet(new)
    BY <1>1, <1>3
  <2>3. Agrees(ms, s, NextOn(old, s))
    BY <1>1, <2>2, ForwardAgrees
  <2> HIDE DEF ms
  <2>4. Agrees(Prefix(ms, k), s, NextOn(old, s))
    BY <1>1, <2>3, PrefixReaches
  <2>5. EndsAt(Prefix(ms, k), t[s], s, f[s])
    BY <2>1
  <2>6. QED
    BY <1>2, <2>1, <2>4, <2>5, EndsAtIs
<1>4. QED
  BY <1>3, PathLeads

\* Switches that are modified from the end of the new path on always lead into its rest.
LEMMA ModifiedSafe ==
  ASSUME NEW old \in Paths, NEW new \in Paths, NEW t \in [Switches -> Hops],
         \A s \in Switches : t[s] = RuleBetween(old, new, s)
  PROVE  SafeFrom(t, Forward(new, Modified(old, new)))
<1> DEFINE M == Modified(old, new)
           ms == Forward(new, M)
<1> SUFFICES ASSUME NEW k \in 0 .. Len(ms), NEW f \in [Switches -> Hops],
                    \A s \in Switches : EndsAt(Prefix(ms, k), t[s], s, f[s])
             PROVE  Leads(f)
  BY DEF SafeFrom
<1>1. /\ ms \in Seq(Message) /\ M \in Seq(Switches) /\ ToSet(M) \subseteq ToSet(new)
      /\ ToSet(M) = Follows(old, new)
      /\ \A a, b \in 1 .. Len(M) : a < b => Pos(new, M[b]) < Pos(new, M[a])
  BY MoveTyped, ListFacts, ModifiedOrdered
<1>2. /\ Len(ms) = Len(M) /\ Len(M) \in Nat /\ DOMAIN M = 1 .. Len(M)
      /\ \A i \in 1 .. Len(M) : ms[i].switch = M[i]
  <2>1. Len(ms) = Len(M) /\ Len(M) \in Nat /\ DOMAIN M = 1 .. Len(M)
    BY <1>1, ForwardFacts, LenProperties
  <2>2. QED
    BY <2>1 DEF Forward
<1> HIDE DEF ms, M
<1>3. Prefix(ms, k) \in Seq(Message) /\ k \in 0 .. Len(M) /\ k \in Nat
  BY <1>1, <1>2, PrefixFacts
<1>4. \A s : Reaches(Prefix(ms, k), s) <=> \E i \in 1 .. k : M[i] = s
  <2>1. \A s : Reaches(Prefix(ms, k), s) <=> \E i \in 1 .. k : ms[i].switch = s
    BY <1>1, PrefixReaches
  <2>2. \A i \in 1 .. k : i \in 1 .. Len(M)
    BY <1>3
  <2>3. QED
    BY <1>2, <2>1, <2>2
<1>5. \A s : Agrees(Prefix(ms, k), s, NextOn(new, s))
  <2> TAKE s
  <2>1. Agrees(ms, s, NextOn(new, s))
    BY <1>1, ForwardAgrees DEF ms
  <2>2. QED
    BY <1>1, <2>1, PrefixReaches
<1>6. \A i \in 1 .. Len(M) : On(new, M[i]) /\ Pos(new, M[i]) \in 1 .. Len(new)
  <2> TAKE i \in 1 .. Len(M)
  <2>1. M[i] \in ToSet(new)
    BY <1>1, <1>2 DEF ToSet
  <2>2. On(new, M[i])
    BY <2>1, PathElements
  <2>3. QED
    BY <2>2, OnPath
<1> DEFINE m == IF k = 0 THEN Len(new) + 1 ELSE Pos(new, M[k])
<1>7. m \in Nat /\ Len(new) \in Nat
  <2>1. k # 0 => k \in 1 .. Len(M)
    BY <1>3
  <2>2. QED
    BY <1>6, <2>1, PathFacts
<1>8. ASSUME NEW j \in 1 .. Len(new), j >= m PROVE f[new[j]] = NextOn(new, new[j])
  <2> DEFINE s == new[j]
  <2>1. On(new, s) /\ Pos(new, s) = j /\ s \in Switches
    BY PosFacts, PathFacts
  <2> HIDE DEF s
  <2>2. CASE s \in Follows(old, new)
    <3>1. PICK a \in 1 .. Len(M) : M[a] = s
      BY <1>1, <1>2, <2>2 DEF ToSet
    <3>2. k # 0
      BY <1>7, <1>8
    <3>3. k \in 1 .. Len(M) /\ j >= Pos(new, M[k])
      BY <1>3, <1>8, <3>2
    <3>4. ~(k < a)
      <4>1. SUFFICES ASSUME k < a PROVE FALSE
        OBVIOUS
      <4>2. Pos(new, M[a]) < Pos(new, M[k])
        BY <1>1, <3>3, <4>1
      <4>3. Pos(new, M[a]) = j
        BY <2>1, <3>1
      <4>4. Pos(new, M[k]) \in Nat
        BY <1>6, <3>3
      <4>5. QED
        BY <3>3, <4>2, <4>3, <4>4
    <3>5. a \in 1 .. k
      BY <1>3, <3>4
    <3>6. Reaches(Prefix(ms, k), s)
      BY <1>4, <3>1, <3>5
    <3>7. EndsAt(Prefix(ms, k), t[s], s, f[s])
      BY <2>1
    <3>8. f[s] = NextOn(new, s)
      BY <1>3, <1>5, <3>6, <3>7, EndsAtIs
    <3>9. QED
      BY <3>8 DEF s
  <2>3. CASE s \notin Follows(old, new)
    <3>1. t[s] = NextOn(new, s)
      <4>1. CASE On(old, s)
        BY <2>1, <2>3, <4>1, NotFollowsKeeps DEF RuleBetween
      <4>2. CASE ~On(old, s)
        BY <2>1, <4>2 DEF RuleBetween, RuleOn
      <4>3. QED
        BY <4>1, <4>2
    <3>2. EndsAt(Prefix(ms, k), t[s], s, f[s])
      BY <2>1
    <3>3. f[s] = NextOn(new, s)
      BY <1>3, <1>5, <3>1, <3>2, EndsAtIs
    <3>4. QED
      BY <3>3 DEF s
  <2>4. QED
    BY <2>2, <2>3
<1>9. ASSUME NEW s, On(old, s)
      PROVE  (On(new, s) /\ Pos(new, s) >= m) \/ f[s] = NextOn(old, s)
  <2>1. s \in Switches /\ t[s] = NextOn(old, s)
    BY <1>9, OnPath DEF RuleBetween
  <2>2. CASE \E i \in 1 .. k : M[i] = s
    <3>1. PICK i \in 1 .. k : M[i] = s
      BY <2>2
    <3>2. i \in 1 .. Len(M) /\ k \in 1 .. Len(M) /\ (i = k \/ i < k) /\ m = Pos(new, M[k])
      BY <1>3
    <3>3. Pos(new, M[k]) < Pos(new, M[i]) \/ Pos(new, M[k]) = Pos(new, M[i])
      BY <1>1, <3>2
    <3>4. On(new, s) /\ Pos(new, M[i]) \in Nat /\ Pos(new, M[k]) \in Nat
      BY <1>6, <3>1, <3>2
    <3> HIDE DEF m
    <3>5. Pos(new, s) >= m
      BY <3>1, <3>2, <3>3, <3>4
    <3>6. QED
      BY <3>4, <3>5
  <2>3. CASE ~\E i \in 1 .. k : M[i] = s
    <3>1. ~Reaches(Prefix(ms, k), s)
      BY <1>4, <2>3
    <3>2. Agrees(Prefix(ms, k), s, t[s])
      BY <3>1 DEF Agrees, Reaches
    <3>3. EndsAt(Prefix(ms, k), t[s], s, f[s])
      BY <2>1
    <3>4. f[s] = t[s]
      BY <1>3, <3>2, <3>3, EndsAtIs
    <3>5. QED
      BY <2>1, <3>4
  <2>4. QED
    BY <2>2, <2>3
<1>10. QED
  <2> HIDE DEF m
  <2>1. QED
    BY <1>7, <1>8, <1>9, MixedLeads

\* Rules that are deleted are not on the new path.
LEMMA DeletedSafe ==
  ASSUME NEW old \in Paths, NEW new \in Paths, NEW t \in [Switches -> Hops],
         \A s \in Switches : On(new, s) => t[s] = NextOn(new, s)
  PROVE  SafeFrom(t, Delete(Deleted(old, new)))
<1> DEFINE ms == Delete(Deleted(old, new))
<1> SUFFICES ASSUME NEW k \in 0 .. Len(ms), NEW f \in [Switches -> Hops],
                    \A s \in Switches : EndsAt(Prefix(ms, k), t[s], s, f[s])
             PROVE  Leads(f)
  BY DEF SafeFrom
<1>1. /\ ms \in Seq(Message) /\ Deleted(old, new) \in Seq(Switches)
      /\ ToSet(Deleted(old, new)) = {s \in ToSet(old) : ~On(new, s)}
  BY MoveTyped, ListFacts
<1>2. Prefix(ms, k) \in Seq(Message)
  BY <1>1, PrefixFacts
<1>3. ASSUME NEW s, On(new, s) PROVE f[s] = NextOn(new, s)
  <2>1. s \in Switches /\ t[s] = NextOn(new, s)
    BY <1>3, OnPath
  <2>2. s \notin ToSet(Deleted(old, new))
    BY <1>1, <1>3
  <2>3. Agrees(ms, s, NextOn(new, s))
    BY <1>1, <2>2, DeleteAgrees
  <2> HIDE DEF ms
  <2>4. Agrees(Prefix(ms, k), s, NextOn(new, s))
    BY <1>1, <2>3, PrefixReaches
  <2>5. EndsAt(Prefix(ms, k), t[s], s, f[s])
    BY <2>1
  <2>6. QED
    BY <1>2, <2>1, <2>4, <2>5, EndsAtIs
<1>4. QED
  BY <1>3, PathLeads

\* The rules of a path and between two paths are rules.
LEMMA RulesTyped ==
  ASSUME NEW old \in Paths, NEW new \in Paths
  PROVE  \A s : RuleOn(old, s) \in Hops /\ RuleOn(new, s) \in Hops /\ RuleBetween(old, new, s) \in Hops
BY NextType DEF RuleOn, RuleBetween, Hops

\* What is sent after the sleep is safe where the new switches have their rules.
LEMMA RestSafe ==
  ASSUME NEW old \in Paths, NEW new \in Paths, NEW t \in [Switches -> Hops],
         \A s \in Switches : t[s] = RuleBetween(old, new, s)
  PROVE  SafeFrom(t, Rest(old, new))
<1> DEFINE M == Modified(old, new)
           ms == Forward(new, M)
           r(s) == IF On(new, s) THEN NextOn(new, s) ELSE RuleOn(old, s)
           g == [s \in Switches |-> r(s)]
<1>1. /\ ms \in Seq(Message) /\ Delete(Deleted(old, new)) \in Seq(Message)
      /\ M \in Seq(Switches) /\ ToSet(M) \subseteq ToSet(new) /\ Follows(old, new) \subseteq ToSet(M)
  BY MoveTyped, ListFacts
<1>2. \A s : r(s) \in Hops
  BY RulesTyped DEF RuleOn
<1>3. g \in [Switches -> Hops]
  BY <1>2
<1>4. SafeFrom(t, ms)
  BY ModifiedSafe
<1>5. SafeFrom(g, Delete(Deleted(old, new)))
  <2>1. \A s \in Switches : On(new, s) => g[s] = NextOn(new, s)
    OBVIOUS
  <2> HIDE DEF g
  <2>2. QED
    BY <1>3, <2>1, DeletedSafe
<1>6. ASSUME NEW s \in Switches PROVE EndsAt(ms, t[s], s, g[s])
  <2>1. /\ Agrees(ms, s, NextOn(new, s))
        /\ Reaches(ms, s) <=> s \in ToSet(M)
    BY <1>1, ForwardAgrees
  <2>2. g[s] = r(s)
    OBVIOUS
  <2> HIDE DEF ms, M, g
  <2>3. PICK h : EndsAt(ms, t[s], s, h)
    <3>1. t[s] \in Hops
      OBVIOUS
    <3>2. QED
      BY <1>1, <3>1, EndsAtSome
  <2>4. CASE On(new, s)
    <3>1. t[s] = NextOn(new, s) \/ Reaches(ms, s)
      <4>1. CASE s \in Follows(old, new)
        BY <1>1, <2>1, <4>1
      <4>2. CASE s \notin Follows(old, new)
        <5>1. On(old, s) => NextOn(old, s) = NextOn(new, s)
          BY <2>4, <4>2, NotFollowsKeeps
        <5>2. QED
          BY <2>4, <5>1 DEF RuleBetween, RuleOn
      <4>3. QED
        BY <4>1, <4>2
    <3>2. h = NextOn(new, s)
      BY <1>1, <2>1, <2>3, <3>1, EndsAtIs
    <3>3. QED
      BY <2>2, <2>3, <2>4, <3>2
  <2>5. CASE ~On(new, s)
    <3>1. ~Reaches(ms, s)
      BY <1>1, <2>1, <2>5, PathElements
    <3>2. Agrees(ms, s, t[s])
      BY <3>1 DEF Agrees, Reaches
    <3>3. h = t[s]
      BY <1>1, <2>3, <3>2, EndsAtIs
    <3>4. t[s] = RuleOn(old, s)
      BY <2>5 DEF RuleBetween, RuleOn
    <3>5. QED
      BY <2>2, <2>3, <2>5, <3>3, <3>4
  <2>6. QED
    BY <2>4, <2>5
<1> HIDE DEF g, ms
<1>7. SafeFrom(t, ms \o Delete(Deleted(old, new)))
  BY <1>1, <1>3, <1>4, <1>5, <1>6, SafeConcat
<1>8. QED
  BY <1>7 DEF Rest, ms

\* A move of a flow is safe when the messages already under way are, and put it on the old path.
LEMMA MoveSafe ==
  ASSUME NEW old \in Paths, NEW new \in Paths, NEW ms \in Seq(Message),
         NEW t \in [Switches -> Hops], SafeFrom(t, ms),
         \A s \in Switches : EndsAt(ms, t[s], s, RuleOn(old, s))
  PROVE  SafeFrom(t, (ms \o Forward(new, Added(old, new))) \o Rest(old, new))
<1> DEFINE as == Forward(new, Added(old, new))
           a == [s \in Switches |-> RuleOn(old, s)]
           b == [s \in Switches |-> RuleBetween(old, new, s)]
<1>1. as \in Seq(Message) /\ Rest(old, new) \in Seq(Message)
  BY MoveTyped
<1>2. a \in [Switches -> Hops] /\ b \in [Switches -> Hops]
  BY RulesTyped
<1>3. \A s \in Switches : a[s] = RuleOn(old, s) /\ b[s] = RuleBetween(old, new, s)
  OBVIOUS
<1> HIDE DEF a, b
<1>4. SafeFrom(a, as)
  BY <1>2, <1>3, AddedSafe
<1>5. SafeFrom(b, Rest(old, new))
  BY <1>2, <1>3, RestSafe
<1> DEFINE c == ms \o as
<1>6. SafeFrom(t, c) /\ c \in Seq(Message)
  <2>1. \A s \in Switches : EndsAt(ms, t[s], s, a[s])
    BY <1>3
  <2> HIDE DEF as
  <2>2. SafeFrom(t, ms \o as)
    BY <1>1, <1>2, <1>4, <2>1, SafeConcat
  <2>3. QED
    BY <1>1, <2>2, ConcatProperties
<1>7. \A s \in Switches : EndsAt(c, t[s], s, b[s])
  BY <1>3, MoveStarts
<1> HIDE DEF c
<1>8. SafeFrom(t, c \o Rest(old, new))
  BY <1>1, <1>2, <1>5, <1>6, <1>7, SafeConcat
<1>9. QED
  BY <1>8 DEF c

----------------------------------------------------------------------------
(* The flow is never interrupted.                                          *)

\* A flow that is up is routed, and what is under way and still to be sent keeps it up as long
\* as it is applied in its order.
KeepsUp ==
  /\ up => routed
  /\ up /\ ~reordered /\ ~torn => SafeFrom(table, wire \o pending)

\* The oldest message of all is applied.
LEMMA FirstMessage ==
  ASSUME NEW T, NEW ms \in Seq(T), Len(ms) >= 1
  PROVE  ms[1] \in T /\ RemoveAt(ms, 1) \in Seq(T) /\ ms = <<ms[1]>> \o RemoveAt(ms, 1)
<1> DEFINE r == RemoveAt(ms, 1)
           one == <<ms[1]>>
<1>1. Len(ms) \in Nat /\ 1 \in 1 .. Len(ms) /\ ms[1] \in T
  BY LenProperties, ElementOfSeq
<1>2. /\ r \in Seq(T) /\ Len(r) = Len(ms) - 1
      /\ \A j \in 1 .. Len(ms) - 1 : r[j] = IF j < 1 THEN ms[j] ELSE ms[j + 1]
  BY <1>1, RemoveAtProperties
<1>3. one \in Seq(T) /\ Len(one) = 1 /\ one[1] = ms[1]
  BY <1>1
<1> HIDE DEF r, one
<1> DEFINE c == one \o r
<1>4. /\ c \in Seq(T) /\ Len(c) = Len(one) + Len(r)
      /\ \A i \in 1 .. Len(one) + Len(r) : c[i] = IF i <= Len(one) THEN one[i] ELSE r[i - Len(one)]
  <2>1. one \in Seq(T) /\ r \in Seq(T)
    BY <1>2, <1>3
  <2>2. QED
    BY <2>1, ConcatProperties
<1> HIDE DEF c
<1>5. Len(c) = Len(ms)
  BY <1>1, <1>2, <1>3, <1>4
<1>6. ASSUME NEW i \in 1 .. Len(ms) PROVE c[i] = ms[i]
  <2>1. CASE i = 1
    BY <1>1, <1>2, <1>3, <1>4, <2>1
  <2>2. CASE i # 1
    <3>1. i - 1 \in 1 .. Len(ms) - 1 /\ ~(i - 1 < 1) /\ (i - 1) + 1 = i
      BY <1>1, <2>2
    <3>2. r[i - 1] = ms[(i - 1) + 1]
      BY <1>2, <3>1
    <3>3. c[i] = r[i - 1]
      BY <1>1, <1>2, <1>3, <1>4, <2>2
    <3>4. QED
      BY <3>1, <3>2, <3>3
  <2>3. QED
    BY <2>1, <2>2
<1>7. c = ms
  BY <1>4, <1>5, <1>6, SeqEqual
<1>8. QED
  BY <1>1, <1>2, <1>7 DEF c, r, one

\* A switch applies a message.
LEMMA ApplyKeepsUp ==
  ASSUME ReroutingInv, ReroutingInv', KeepsUp, NEW i \in DOMAIN wire, SwitchApplies(i)
  PROVE  KeepsUp'
<1>1. /\ table' = [table EXCEPT ![wire[i].switch] = wire[i].hop]
      /\ wire' = RemoveAt(wire, i)
      /\ reordered' = (Len(wire) > 1 /\ (reordered \/ i > 1))
      /\ up' = (up \/ (Len(wire) = 1 /\ routed /\ Delivers'))
      /\ UNCHANGED <<routed, pending, chosen, pc, torn>>
  BY DEF SwitchApplies
<1>2. /\ wire \in Seq(Message) /\ pending \in Seq(Message) /\ table \in [Switches -> Hops]
      /\ wire' \in Seq(Message) /\ pending' \in Seq(Message) /\ table' \in [Switches -> Hops]
  BY DEF ReroutingInv, TypeOK
<1>3. Len(wire) \in Nat /\ i \in 1 .. Len(wire) /\ Len(wire) >= 1 /\ Len(wire') = Len(wire) - 1
  <2>1. Len(wire) \in Nat /\ i \in 1 .. Len(wire)
    BY <1>2, LenProperties
  <2>2. Len(RemoveAt(wire, i)) = Len(wire) - 1
    BY <1>2, <2>1, RemoveAtProperties
  <2>3. QED
    BY <1>1, <2>1, <2>2
<1>4. up' => routed'
  BY <1>1 DEF KeepsUp
<1>5. ASSUME up', ~reordered', ~torn'
      PROVE  SafeFrom(table', wire' \o pending')
  <2>1. routed' /\ chosen' \in Paths
    BY <1>4, <1>5 DEF ReroutingInv, Phases
  <2>2. CASE Len(wire) = 1
    <3>1. wire' = <<>>
      BY <1>2, <1>3, <2>2, EmptySeq
    <3>2. wire' \o pending' = pending'
      BY <1>2, <3>1, ConcatEmptySeq
    <3>3. CASE pc' = "sleep"
      <4>1. PICK old \in Paths :
              /\ pending' = Rest(old, chosen')
              /\ \A s \in Switches : EndsAt(wire', table'[s], s, RuleBetween(old, chosen', s))
        BY <1>5, <3>3 DEF ReroutingInv, Phases, Asleep
      <4>2. \A s \in Switches : table'[s] = RuleBetween(old, chosen', s)
        BY <3>1, <4>1, EndsAtEmpty
      <4>3. SafeFrom(table', Rest(old, chosen'))
        BY <1>2, <2>1, <4>2, RestSafe
      <4>4. QED
        BY <3>2, <4>1, <4>3
    <3>4. CASE pc' # "sleep"
      <4>1. /\ pending' = <<>>
            /\ \A s \in Switches : EndsAt(wire', table'[s], s, RuleOn(chosen', s))
        BY <1>5, <2>1, <3>4 DEF ReroutingInv, Phases, Awake
      <4>2. \A s \in Switches : table'[s] = RuleOn(chosen', s)
        BY <3>1, <4>1, EndsAtEmpty
      <4>3. \A s : On(chosen', s) => table'[s] = NextOn(chosen', s)
        BY <2>1, <4>2, OnPath DEF RuleOn
      <4>4. Leads(table')
        BY <2>1, <4>3, PathLeads
      <4>5. SafeFrom(table', <<>>)
        BY <1>2, <4>4, SafeEmpty
      <4>6. QED
        BY <3>2, <4>1, <4>5
    <3>5. QED
      BY <3>3, <3>4
  <2>3. CASE Len(wire) # 1
    <3>1. Len(wire) > 1 /\ up /\ ~reordered /\ i = 1 /\ ~torn
      <4>1. Len(wire) > 1
        BY <1>3, <2>3
      <4>2. up /\ ~torn
        BY <1>1, <1>5, <2>3, Zenon
      <4>3. ~reordered /\ ~(i > 1)
        BY <1>1, <1>5, <4>1, Zenon
      <4>4. QED
        BY <1>3, <4>1, <4>2, <4>3
    <3> DEFINE m == wire[1]
               r == RemoveAt(wire, 1)
    <3>2. m \in Message /\ r \in Seq(Message) /\ wire = <<m>> \o r
      BY <1>2, <1>3, FirstMessage
    <3>3. wire' = r /\ table' = [table EXCEPT ![m.switch] = m.hop]
      BY <1>1, <3>1
    <3>4. SafeFrom(table, wire \o pending)
      BY <3>1 DEF KeepsUp
    <3> HIDE DEF m, r
    <3>5. <<m>> \in Seq(Message) /\ r \o pending \in Seq(Message)
      BY <1>2, <3>2, ConcatProperties
    <3>6. (<<m>> \o r) \o pending = <<m>> \o (r \o pending)
      BY <1>2, <3>2, <3>5, ConcatAssociative
    <3>7. SafeFrom(table, <<m>> \o (r \o pending))
      BY <3>2, <3>4, <3>6
    <3>8. SafeFrom([table EXCEPT ![m.switch] = m.hop], r \o pending)
      BY <1>2, <3>2, <3>5, <3>7, SafeTail
    <3>9. QED
      BY <1>1, <3>3, <3>8
  <2>4. QED
    BY <2>2, <2>3
<1>6. QED
  BY <1>4, <1>5 DEF KeepsUp

\* A move begins or goes on.
LEMMA MoveKeepsUp ==
  ASSUME ReroutingInv, KeepsUp, Reroute \/ RerouteWakes
  PROVE  KeepsUp'
<1>1. UNCHANGED <<table, routed, reordered, up>> /\ (torn => torn')
  <2>1. UNCHANGED <<table, routed, reordered, up>>
    BY DEF Reroute, RerouteWakes
  <2>2. torn' = torn \/ torn' = (torn \/ ~routed)
    BY DEF Reroute, RerouteWakes
  <2>3. torn => torn'
    BY <2>2, Zenon
  <2>4. QED
    BY <2>1, <2>3
<1>2. wire \in Seq(Message) /\ pending \in Seq(Message) /\ table \in [Switches -> Hops]
  BY DEF ReroutingInv, TypeOK
<1>3. ASSUME up, ~reordered, ~torn', Reroute
      PROVE  SafeFrom(table, wire' \o pending')
  <2> DEFINE old == chosen
             new == Head(actions)
  <2>1. new \in Paths
    <3>1. actions \in Seq(Paths) /\ actions # <<>>
      BY <1>3 DEF ReroutingInv, TypeOK, Reroute
    <3>2. QED
      BY <3>1, HeadTailProperties
  <2>2. /\ pc = "poll" /\ wire' = wire \o Forward(new, Added(old, new))
        /\ pending' = Rest(old, new) /\ torn' = (torn \/ ~routed)
    BY <1>3 DEF Reroute, Send, Rest
  <2> HIDE DEF new
  <2>3. ~torn /\ routed /\ old \in Paths
    BY <1>3, <2>2 DEF ReroutingInv, Phases
  <2>4. pending = <<>> /\ \A s \in Switches : EndsAt(wire, table[s], s, RuleOn(old, s))
    BY <2>2, <2>3 DEF ReroutingInv, Phases, Awake
  <2>5. SafeFrom(table, wire)
    <3>1. SafeFrom(table, wire \o pending)
      BY <1>3, <2>3 DEF KeepsUp
    <3>2. wire \o <<>> = wire
      BY <1>2, ConcatEmptySeq
    <3>3. QED
      BY <2>4, <3>1, <3>2
  <2>6. SafeFrom(table, (wire \o Forward(new, Added(old, new))) \o Rest(old, new))
    BY <1>2, <2>1, <2>3, <2>4, <2>5, MoveSafe
  <2>7. QED
    BY <2>2, <2>6
<1>4. ASSUME up, ~reordered, ~torn', RerouteWakes
      PROVE  SafeFrom(table, wire' \o pending')
  <2>1. wire' = wire \o pending /\ pending' = <<>> /\ ~torn
    BY <1>1, <1>4 DEF RerouteWakes, Send
  <2>2. wire \o pending \in Seq(Message)
    BY <1>2, ConcatProperties
  <2>3. (wire \o pending) \o <<>> = wire \o pending
    BY <2>2, ConcatEmptySeq
  <2>4. SafeFrom(table, wire \o pending)
    BY <1>4, <2>1 DEF KeepsUp
  <2>5. QED
    BY <2>1, <2>3, <2>4
<1>5. QED
  BY <1>1, <1>3, <1>4 DEF KeepsUp

\* The other actions send nothing, or the flow is not up.
LEMMA OthersKeepUp ==
  ASSUME ReroutingInv, KeepsUp,
         \/ PacketMisses \/ RoutingIp \/ NoAction \/ Report \/ LearnerAnswers
         \/ PutIterationFlag \/ UNCHANGED vars
  PROVE  KeepsUp'
<1>1. CASE RoutingIp
  <2>1. UNCHANGED <<table, pending, reordered, torn, up>>
    BY <1>1 DEF RoutingIp
  <2>2. CASE routed
    <3>1. UNCHANGED <<wire, routed>>
      BY <1>1, <2>2 DEF RoutingIp
    <3>2. QED
      BY <2>1, <3>1 DEF KeepsUp
  <2>3. CASE ~routed
    BY <2>1, <2>3 DEF KeepsUp
  <2>4. QED
    BY <2>2, <2>3
<1>2. CASE Report
  <2>1. UNCHANGED <<table, pending, reordered, torn>> /\ up' = (up /\ ~iteration)
    BY <1>2 DEF Report
  <2>2. CASE iteration
    BY <2>1, <2>2 DEF KeepsUp
  <2>3. CASE ~iteration
    <3>1. UNCHANGED <<wire, routed>>
      BY <1>2, <2>3 DEF Report
    <3>2. QED
      BY <2>1, <3>1 DEF KeepsUp
  <2>4. QED
    BY <2>2, <2>3
<1>3. CASE PacketMisses \/ NoAction \/ LearnerAnswers \/ PutIterationFlag \/ UNCHANGED vars
  <2>1. UNCHANGED <<table, wire, routed, pending, reordered, torn, up>>
    BY <1>3 DEF PacketMisses, NoAction, LearnerAnswers, PutIterationFlag, vars
  <2>2. QED
    BY <2>1 DEF KeepsUp
<1>4. QED
  BY <1>1, <1>2, <1>3

\* A flow whose first packets have found their rules is delivered while it is moved (reroute), as
\* long as no message overtakes an older one.
THEOREM NeverInterruptedHolds == Spec => []NeverInterrupted
<1>1. Init => KeepsUp
  BY DEF Init, KeepsUp
<1>2. ReroutingInv /\ ReroutingInv' /\ KeepsUp /\ [Next]_vars => KeepsUp'
  BY ApplyKeepsUp, MoveKeepsUp, OthersKeepUp DEF Next
<1>3. ReroutingInv /\ KeepsUp => NeverInterrupted
  <2> SUFFICES ASSUME ReroutingInv, KeepsUp, up, ~reordered, ~torn
               PROVE  Delivers
    BY DEF NeverInterrupted
  <2>1. wire \o pending \in Seq(Message) /\ table \in [Switches -> Hops]
    BY ConcatProperties DEF ReroutingInv, TypeOK
  <2> DEFINE c == wire \o pending
  <2> HIDE DEF c
  <2>2. 0 \in 0 .. Len(c) /\ SafeFrom(table, c)
    BY <2>1, LenProperties DEF KeepsUp, c
  <2>3. Prefix(c, 0) \in Seq(Message) /\ Len(Prefix(c, 0)) = 0
    BY <2>1, <2>2, PrefixFacts DEF c
  <2>4. Prefix(c, 0) = <<>>
    BY <2>3, EmptySeq
  <2>5. \A s \in Switches : EndsAt(Prefix(c, 0), table[s], s, table[s])
    BY <2>4, EndsAtEmpty
  <2>6. Leads(table)
    BY <2>1, <2>2, <2>5 DEF SafeFrom
  <2>7. QED
    BY <2>6, LeadsDelivers
<1>4. QED
  BY <1>1, <1>2, <1>3, ReroutingCorrect, PTL DEF Spec
=============================================================================
