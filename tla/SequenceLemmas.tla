--------------------------- MODULE SequenceLemmas ---------------------------
(***************************************************************************)
(* Facts about the operators of the community modules on sequences that    *)
(* the proofs of this project need: Python's list.remove and what it keeps.*)
(***************************************************************************)
EXTENDS SequencesExt, SequenceTheorems, FunctionTheorems, FiniteSetTheorems, WellFoundedInduction,
        TLAPS

\* A non-empty set of naturals has a least element.
LEMMA NatsHaveLeast ==
  ASSUME NEW S \in SUBSET Nat, S # {}
  PROVE  \E x \in S : \A y \in S : x <= y
<1> DEFINE R == {p \in Nat \X Nat : p[1] < p[2]}
<1>1. R = OpToRel(<, Nat)
  BY DEF OpToRel
<1>2. IsWellFoundedOn(R, Nat)
  BY <1>1, NatLessThanWellFounded, Zenon
<1>3. \E x \in S : \A y \in S : ~(<<y, x>> \in R)
  <2> HIDE DEF R
  <2>1. QED
    BY <1>2, WFMin
<1>4. PICK x \in S : \A y \in S : ~(<<y, x>> \in R)
  BY <1>3
<1>5. ASSUME NEW y \in S PROVE x <= y
  <2>1. x \in Nat /\ y \in Nat
    OBVIOUS
  <2>2. ~(<<y, x>> \in R)
    BY <1>4
  <2>3. QED
    BY <2>1, <2>2
<1>6. QED
  BY <1>5

\* Min chooses it.
LEMMA MinOfNats ==
  ASSUME NEW S \in SUBSET Nat, S # {}
  PROVE  Min(S) \in S
BY NatsHaveLeast DEF Min

\* list.remove takes out one element, at a position where it is.
LEMMA RemoveFirstIsRemoveAt ==
  ASSUME NEW T, NEW s \in Seq(T), NEW e, \E i \in 1..Len(s) : s[i] = e
  PROVE  \E k \in 1..Len(s) : s[k] = e /\ RemoveFirst(s, e) = RemoveAt(s, k)
<1> DEFINE I == {i \in 1..Len(s) : s[i] = e}
<1>1. I # {} /\ I \in SUBSET Nat
  OBVIOUS
<1>2. Min(I) \in I
  BY <1>1, MinOfNats
<1>3. RemoveFirst(s, e) = RemoveAt(s, Min(I))
  BY <1>1 DEF RemoveFirst, SelectInSeq
<1>4. QED
  BY <1>2, <1>3

\* The elements behind a removed position move up by one, the others stay.
LEMMA RemoveAtProperties ==
  ASSUME NEW T, NEW s \in Seq(T), NEW k \in 1..Len(s)
  PROVE  /\ RemoveAt(s, k) \in Seq(T)
         /\ Len(RemoveAt(s, k)) = Len(s) - 1
         /\ \A j \in 1..(Len(s) - 1) :
              RemoveAt(s, k)[j] = IF j < k THEN s[j] ELSE s[j + 1]
<1> DEFINE front == SubSeq(s, 1, k - 1)
           back == SubSeq(s, k + 1, Len(s))
<1>0. Len(s) \in Nat /\ \A i \in 1..Len(s) : s[i] \in T
  BY LenProperties, ElementOfSeq
<1>1. /\ front \in Seq(T)
      /\ Len(front) = k - 1
      /\ \A i \in 1..(k - 1) : front[i] = s[i]
  BY <1>0, SubSeqProperties
<1>2. /\ back \in Seq(T)
      /\ Len(back) = Len(s) - k
      /\ \A i \in 1..(Len(s) - k) : back[i] = s[k + i]
  <2>1. \A i \in (k + 1)..Len(s) : s[i] \in T
    BY <1>0
  <2>2. /\ back \in Seq(T)
        /\ Len(back) = IF k + 1 <= Len(s) THEN Len(s) - (k + 1) + 1 ELSE 0
        /\ \A i \in 1..(Len(s) - (k + 1) + 1) : back[i] = s[(k + 1) + i - 1]
    BY <1>0, <2>1, SubSeqProperties
  <2>3. QED
    BY <1>0, <2>2
<1>3. /\ front \o back \in Seq(T)
      /\ Len(front \o back) = Len(front) + Len(back)
      /\ \A i \in 1..(Len(front) + Len(back)) :
           (front \o back)[i] = IF i <= Len(front) THEN front[i] ELSE back[i - Len(front)]
  BY <1>1, <1>2, ConcatProperties
<1>4. RemoveAt(s, k) = front \o back
  BY DEF RemoveAt
<1> HIDE DEF front, back
<1>5. ASSUME NEW j \in 1..(Len(s) - 1)
      PROVE  (front \o back)[j] = IF j < k THEN s[j] ELSE s[j + 1]
  <2>1. CASE j < k
    BY <1>0, <1>1, <1>2, <1>3, <2>1
  <2>2. CASE ~(j < k)
    <3>1. (front \o back)[j] = back[j - (k - 1)]
      BY <1>0, <1>1, <1>2, <1>3, <2>2
    <3>2. j - (k - 1) \in 1..(Len(s) - k)
      BY <1>0, <2>2
    <3>3. QED
      BY <1>0, <1>2, <2>2, <3>1, <3>2
  <2>3. QED
    BY <2>1, <2>2
<1>6. Len(front) + Len(back) = Len(s) - 1
  BY <1>0, <1>1, <1>2
<1>7. QED
  BY <1>3, <1>4, <1>5, <1>6

\* list.remove never changes the type of a list.
LEMMA RemoveFirstType ==
  ASSUME NEW T, NEW s \in Seq(T), NEW e
  PROVE  RemoveFirst(s, e) \in Seq(T)
<1>1. CASE \E i \in 1..Len(s) : s[i] = e
  <2>1. PICK k \in 1..Len(s) : RemoveFirst(s, e) = RemoveAt(s, k)
    BY <1>1, RemoveFirstIsRemoveAt
  <2>2. QED
    BY <2>1, RemoveAtProperties
<1>2. CASE ~\E i \in 1..Len(s) : s[i] = e
  BY <1>2 DEF RemoveFirst
<1>3. QED
  BY <1>1, <1>2

\* What one call of list.remove does to a sequence that holds the element.
LEMMA RemoveFirstProperties ==
  ASSUME NEW T, NEW s \in Seq(T), NEW e, \E i \in 1..Len(s) : s[i] = e
  PROVE  /\ RemoveFirst(s, e) \in Seq(T)
         /\ ToSet(RemoveFirst(s, e)) \subseteq ToSet(s)
         /\ \A x \in ToSet(s) : x # e => x \in ToSet(RemoveFirst(s, e))
<1>1. PICK k \in 1..Len(s) : s[k] = e /\ RemoveFirst(s, e) = RemoveAt(s, k)
  BY RemoveFirstIsRemoveAt
<1> DEFINE r == RemoveAt(s, k)
<1>2. /\ Len(s) \in Nat
      /\ r \in Seq(T)
      /\ Len(r) = Len(s) - 1
      /\ \A j \in 1..(Len(s) - 1) : r[j] = IF j < k THEN s[j] ELSE s[j + 1]
  BY RemoveAtProperties, LenProperties
<1>3. DOMAIN s = 1..Len(s) /\ DOMAIN r = 1..(Len(s) - 1)
  BY <1>2, LenProperties
<1> HIDE DEF r
<1>4. ToSet(r) \subseteq ToSet(s)
  <2>1. \A j \in DOMAIN r : j \in DOMAIN s /\ j + 1 \in DOMAIN s /\ (r[j] = s[j] \/ r[j] = s[j + 1])
    BY <1>2, <1>3
  <2>2. QED
    BY <2>1 DEF ToSet
<1>5. ASSUME NEW x \in ToSet(s), x # e
      PROVE  x \in ToSet(r)
  <2>1. PICK i \in 1..Len(s) : s[i] = x
    BY <1>3 DEF ToSet
  <2>2. i # k
    BY <1>1, <1>5, <2>1
  <2>3. CASE i < k
    <3>1. i \in 1..(Len(s) - 1) /\ r[i] = s[i]
      BY <1>2, <2>3
    <3>2. QED
      BY <1>3, <2>1, <3>1 DEF ToSet
  <2>4. CASE i > k
    <3>1. i - 1 \in 1..(Len(s) - 1) /\ r[i - 1] = s[i]
      BY <1>2, <2>4
    <3>2. QED
      BY <1>3, <2>1, <3>1 DEF ToSet
  <2>5. QED
    BY <2>2, <2>3, <2>4
<1>6. QED
  BY <1>1, <1>2, <1>4, <1>5 DEF r

\* Two elements that remain after list.remove stood in the same order before it.
LEMMA RemoveFirstOrder ==
  ASSUME NEW T, NEW s \in Seq(T), NEW e, \E i \in 1..Len(s) : s[i] = e,
         NEW i \in DOMAIN RemoveFirst(s, e), NEW j \in DOMAIN RemoveFirst(s, e), i < j
  PROVE  \E a, b \in DOMAIN s :
           a < b /\ RemoveFirst(s, e)[i] = s[a] /\ RemoveFirst(s, e)[j] = s[b]
<1>1. PICK k \in 1..Len(s) : s[k] = e /\ RemoveFirst(s, e) = RemoveAt(s, k)
  BY RemoveFirstIsRemoveAt
<1> DEFINE r == RemoveAt(s, k)
<1>2. /\ Len(s) \in Nat
      /\ r \in Seq(T)
      /\ Len(r) = Len(s) - 1
      /\ \A m \in 1..(Len(s) - 1) : r[m] = IF m < k THEN s[m] ELSE s[m + 1]
  BY RemoveAtProperties, LenProperties
<1>3. DOMAIN s = 1..Len(s) /\ DOMAIN r = 1..(Len(s) - 1)
  BY <1>2, LenProperties
<1>4. RemoveFirst(s, e) = r
  BY <1>1
<1> HIDE DEF r
<1> DEFINE At(m) == IF m < k THEN m ELSE m + 1
<1>5. i \in 1..(Len(s) - 1) /\ j \in 1..(Len(s) - 1)
  BY <1>3, <1>4
<1>6. At(i) \in DOMAIN s /\ At(j) \in DOMAIN s /\ At(i) < At(j)
  BY <1>2, <1>3, <1>5
<1>7. r[i] = s[At(i)] /\ r[j] = s[At(j)]
  BY <1>2, <1>5
<1>8. QED
  BY <1>4, <1>6, <1>7

\* An element that stands in a sequence once is gone after list.remove.
LEMMA RemoveFirstLast ==
  ASSUME NEW T, NEW s \in Seq(T), NEW e, \E i \in 1..Len(s) : s[i] = e,
         \A i, j \in 1..Len(s) : s[i] = s[j] => i = j
  PROVE  e \notin ToSet(RemoveFirst(s, e))
<1>1. PICK k \in 1..Len(s) : s[k] = e /\ RemoveFirst(s, e) = RemoveAt(s, k)
  BY RemoveFirstIsRemoveAt
<1> DEFINE r == RemoveAt(s, k)
<1>2. /\ Len(s) \in Nat /\ r \in Seq(T) /\ Len(r) = Len(s) - 1
      /\ \A j \in 1..(Len(s) - 1) : r[j] = IF j < k THEN s[j] ELSE s[j + 1]
  BY RemoveAtProperties, LenProperties
<1>0. DOMAIN r = 1..(Len(s) - 1)
  BY <1>2, LenProperties
<1> HIDE DEF r
<1>3. ASSUME NEW j \in 1..(Len(s) - 1) PROVE r[j] # e
  <2>1. CASE j < k
    <3>1. j \in 1..Len(s) /\ j # k /\ r[j] = s[j]
      BY <1>2, <2>1
    <3>2. QED
      BY <1>1, <3>1
  <2>2. CASE ~(j < k)
    <3>1. j + 1 \in 1..Len(s) /\ j + 1 # k /\ r[j] = s[j + 1]
      BY <1>2, <2>2
    <3>2. QED
      BY <1>1, <3>1
  <2>3. QED
    BY <2>1, <2>2
<1>4. QED
  BY <1>0, <1>1, <1>3 DEF ToSet, r

----------------------------------------------------------------------------
\* Counting.

\* Where a sequence has an element of X.
Positions(s, X) == {k \in DOMAIN s : s[k] \in X}

\* A sequence has such places finitely often.
LEMMA PositionsFinite ==
  ASSUME NEW T, NEW s \in Seq(T), NEW X
  PROVE  IsFiniteSet(Positions(s, X)) /\ Cardinality(Positions(s, X)) \in Nat
<1>1. DOMAIN s = 1..Len(s) /\ Len(s) \in Nat
  BY LenProperties
<1>2. IsFiniteSet(1..Len(s))
  BY <1>1, FS_Interval
<1>3. Positions(s, X) \in SUBSET (1..Len(s))
  BY <1>1 DEF Positions
<1>4. IsFiniteSet(Positions(s, X))
  BY <1>2, <1>3, FS_Subset
<1>5. QED
  BY <1>4, FS_CardinalityType

\* list.append adds one place.
LEMMA AppendPositions ==
  ASSUME NEW T, NEW s \in Seq(T), NEW e \in T, NEW X
  PROVE  Cardinality(Positions(Append(s, e), X)) =
           Cardinality(Positions(s, X)) + (IF e \in X THEN 1 ELSE 0)
<1> DEFINE r == Append(s, e)
           P == Positions(s, X)
<1>1. /\ Len(s) \in Nat /\ DOMAIN s = 1..Len(s)
      /\ r \in Seq(T) /\ Len(r) = Len(s) + 1
      /\ \A i \in 1..Len(s) : r[i] = s[i]
      /\ r[Len(s) + 1] = e
  BY AppendProperties, LenProperties
<1>2. DOMAIN r = 1..(Len(s) + 1)
  BY <1>1, LenProperties
<1>3. IsFiniteSet(P) /\ Cardinality(P) \in Nat
  BY PositionsFinite
<1>4. Len(s) + 1 \notin P
  BY <1>1 DEF Positions
<1> HIDE DEF r
<1>5. Positions(r, X) = IF e \in X THEN P \cup {Len(s) + 1} ELSE P
  BY <1>1, <1>2 DEF Positions
<1> HIDE DEF P
<1>6. Cardinality(P \cup {Len(s) + 1}) = Cardinality(P) + 1
  BY <1>3, <1>4, FS_AddElement
<1>7. QED
  BY <1>3, <1>5, <1>6 DEF r, P

\* list.remove takes one away, where the element is.
LEMMA RemoveFirstPositions ==
  ASSUME NEW T, NEW s \in Seq(T), NEW e, \E i \in 1..Len(s) : s[i] = e, NEW X
  PROVE  Cardinality(Positions(RemoveFirst(s, e), X)) =
           Cardinality(Positions(s, X)) - (IF e \in X THEN 1 ELSE 0)
<1>1. PICK k \in 1..Len(s) : s[k] = e /\ RemoveFirst(s, e) = RemoveAt(s, k)
  BY RemoveFirstIsRemoveAt
<1> DEFINE r == RemoveAt(s, k)
           At(m) == IF m < k THEN m ELSE m + 1
           P == Positions(s, X)
           R == Positions(r, X)
           f == [m \in R |-> At(m)]
<1>2. /\ Len(s) \in Nat /\ r \in Seq(T) /\ Len(r) = Len(s) - 1
      /\ \A m \in 1..(Len(s) - 1) : r[m] = IF m < k THEN s[m] ELSE s[m + 1]
  BY RemoveAtProperties, LenProperties
<1>3. DOMAIN s = 1..Len(s) /\ DOMAIN r = 1..(Len(s) - 1)
  BY <1>2, LenProperties
<1>4. IsFiniteSet(P) /\ Cardinality(P) \in Nat /\ IsFiniteSet(R) /\ Cardinality(R) \in Nat
  BY <1>2, PositionsFinite
<1>5. k \in P <=> e \in X
  BY <1>1, <1>3 DEF Positions
<1>6. \A m \in 1..(Len(s) - 1) : m \in R <=> At(m) \in P \ {k}
  <2> HIDE DEF r
  <2> QED
    BY <1>2, <1>3 DEF Positions
<1>7. \A i \in P \ {k} : \E m \in R : At(m) = i
  <2> SUFFICES ASSUME NEW i \in P \ {k} PROVE \E m \in R : At(m) = i
    OBVIOUS
  <2>1. i \in 1..Len(s) /\ i # k
    BY <1>3 DEF Positions
  <2> DEFINE m == IF i < k THEN i ELSE i - 1
  <2>2. m \in 1..(Len(s) - 1) /\ At(m) = i
    BY <1>2, <2>1
  <2> HIDE DEF m
  <2>3. m \in R
    BY <1>6, <2>2
  <2> QED
    BY <2>2, <2>3
<1>8. R \subseteq 1..(Len(s) - 1)
  BY <1>3 DEF Positions
<1> HIDE DEF r, P, R
<1>9. f \in Bijection(R, P \ {k})
  <2>1. \A m \in R : f[m] = At(m) /\ f[m] \in P \ {k}
    BY <1>6, <1>8
  <2>2. \A a, b \in R : f[a] = f[b] => a = b
    BY <1>2, <1>8
  <2>3. f \in [R -> P \ {k}]
    BY <2>1
  <2>4. \A i \in P \ {k} : \E m \in R : f[m] = i
    BY <1>7, <2>1
  <2> HIDE DEF f
  <2> QED
    BY <2>2, <2>3, <2>4, Fun_IsBij
<1>10. Cardinality(R) = Cardinality(P \ {k})
  <2>1. ExistsBijection(R, P \ {k})
    BY <1>9 DEF ExistsBijection
  <2> QED
    BY <1>4, <2>1, FS_Bijection
<1>11. Cardinality(P \ {k}) = IF e \in X THEN Cardinality(P) - 1 ELSE Cardinality(P)
  BY <1>4, <1>5, FS_RemoveElement
<1>12. QED
  BY <1>1, <1>4, <1>10, <1>11 DEF r, P, R
----------------------------------------------------------------------------
\* Sequences of increasing numbers.

Increasing(s) == \A i, j \in DOMAIN s : i < j => s[i] < s[j]
\* The first element is the least, and the others keep their order.
LEMMA IncreasingTail ==
  ASSUME NEW s \in Seq(Nat), s # <<>>, Increasing(s)
  PROVE  /\ Head(s) \in ToSet(s) /\ Tail(s) \in Seq(Nat) /\ Increasing(Tail(s))
         /\ ToSet(Tail(s)) = ToSet(s) \ {Head(s)}
         /\ \A p \in ToSet(s) : Head(s) <= p
<1> DEFINE r == Tail(s)
<1>1. /\ Len(s) \in Nat \ {0} /\ DOMAIN s = 1..Len(s) /\ Head(s) = s[1]
      /\ r \in Seq(Nat) /\ Len(r) = Len(s) - 1
      /\ \A i \in 1..Len(r) : r[i] = s[i + 1]
  BY HeadTailProperties, LenProperties, EmptySeq
<1>2. DOMAIN r = 1..(Len(s) - 1)
  BY <1>1, LenProperties
<1>3. \A i \in 1..Len(s) : s[i] \in Nat
  BY ElementOfSeq
<1> HIDE DEF r
<1>4. Increasing(r)
  <2> SUFFICES ASSUME NEW i \in DOMAIN r, NEW j \in DOMAIN r, i < j PROVE r[i] < r[j]
    BY DEF Increasing
  <2>1. i \in 1..(Len(s) - 1) /\ j \in 1..(Len(s) - 1)
    BY <1>2
  <2>2. Len(s) \in Nat
    BY <1>1
  <2>3. i + 1 \in 1..Len(s) /\ j + 1 \in 1..Len(s) /\ i + 1 < j + 1
    BY <2>1, <2>2
  <2>4. r[i] = s[i + 1] /\ r[j] = s[j + 1]
    BY <1>1, <2>1
  <2>5. QED
    BY <1>1, <2>3, <2>4 DEF Increasing
<1>5. \A i \in 2..Len(s) : i - 1 \in DOMAIN r /\ r[i - 1] = s[i]
  BY <1>1, <1>2
<1>6. \A i \in 2..Len(s) : s[1] < s[i]
  <2>1. 1 \in DOMAIN s /\ \A i \in 2..Len(s) : i \in DOMAIN s /\ 1 < i
    BY <1>1
  <2>2. QED
    BY <2>1 DEF Increasing
<1>7. \A i \in DOMAIN r : i + 1 \in 2..Len(s) /\ r[i] = s[i + 1]
  <2>1. \A i \in DOMAIN r : i \in 1..Len(s) - 1
    BY <1>1, <1>2
  <2>2. \A i \in 1..Len(s) - 1 : i + 1 \in 2..Len(s)
    BY <1>1
  <2>3. QED
    BY <1>1, <1>2, <2>1, <2>2
<1>8. 1..Len(s) = {1} \cup 2..Len(s)
  BY <1>1
<1>9. ToSet(r) = ToSet(s) \ {Head(s)}
  <2>1. \A x \in ToSet(r) : x \in ToSet(s) \ {Head(s)}
    <3> SUFFICES ASSUME NEW i \in DOMAIN r PROVE r[i] \in ToSet(s) /\ r[i] # s[1]
      BY <1>1 DEF ToSet
    <3>1. i + 1 \in 2..Len(s) /\ r[i] = s[i + 1] /\ s[1] < s[i + 1]
      BY <1>6, <1>7
    <3>2. s[1] \in Nat /\ s[i + 1] \in Nat /\ i + 1 \in DOMAIN s
      BY <1>1, <1>3, <3>1
    <3>3. QED
      BY <3>1, <3>2 DEF ToSet
  <2>2. \A x \in ToSet(s) \ {Head(s)} : x \in ToSet(r)
    BY <1>1, <1>5, <1>8 DEF ToSet
  <2>3. QED
    BY <2>1, <2>2
<1>10. \A p \in ToSet(s) : s[1] <= p
  <2>1. \A i \in DOMAIN s : s[i] \in Nat /\ s[1] \in Nat
    BY <1>1, <1>3
  <2>2. \A i \in DOMAIN s : i = 1 \/ i \in 2..Len(s)
    BY <1>1, <1>8
  <2>3. \A i \in DOMAIN s : s[1] <= s[i]
    BY <1>6, <2>1, <2>2
  <2>4. QED
    BY <2>3 DEF ToSet
<1>11. s[1] \in ToSet(s)
  BY <1>1 DEF ToSet
<1>12. QED
  BY <1>1, <1>4, <1>9, <1>10, <1>11 DEF r

\* A larger element may be appended.
LEMMA IncreasingAppend ==
  ASSUME NEW s \in Seq(Nat), NEW e \in Nat, Increasing(s), \A p \in ToSet(s) : p < e
  PROVE  /\ Append(s, e) \in Seq(Nat) /\ Increasing(Append(s, e))
         /\ ToSet(Append(s, e)) = ToSet(s) \cup {e}
<1> DEFINE r == Append(s, e)
<1>1. /\ Len(s) \in Nat /\ DOMAIN s = 1..Len(s)
      /\ r \in Seq(Nat) /\ Len(r) = Len(s) + 1
      /\ \A i \in 1..Len(s) : r[i] = s[i]
      /\ r[Len(s) + 1] = e
  BY AppendProperties, LenProperties
<1>2. DOMAIN r = 1..Len(s) \cup {Len(s) + 1}
  BY <1>1, LenProperties
<1>3. \A i \in 1..Len(s) : s[i] < e
  BY <1>1 DEF ToSet
<1> HIDE DEF r
<1>4. Increasing(r)
  BY <1>1, <1>2, <1>3 DEF Increasing
<1>5. ToSet(r) = ToSet(s) \cup {e}
  BY <1>1, <1>2 DEF ToSet
<1>6. QED
  BY <1>1, <1>4, <1>5 DEF r

\* Any element may be taken out.
LEMMA IncreasingRemoveAt ==
  ASSUME NEW s \in Seq(Nat), NEW k \in DOMAIN s, Increasing(s)
  PROVE  /\ s[k] \in ToSet(s)
         /\ RemoveAt(s, k) \in Seq(Nat) /\ Increasing(RemoveAt(s, k))
         /\ ToSet(RemoveAt(s, k)) = ToSet(s) \ {s[k]}
<1> DEFINE r == RemoveAt(s, k)
           At(i) == IF i < k THEN i ELSE i + 1
<1>1. DOMAIN s = 1..Len(s) /\ Len(s) \in Nat /\ \A i \in 1..Len(s) : s[i] \in Nat
  BY LenProperties, ElementOfSeq
<1>2. /\ r \in Seq(Nat) /\ Len(r) = Len(s) - 1
      /\ \A i \in 1..(Len(s) - 1) : r[i] = IF i < k THEN s[i] ELSE s[i + 1]
  BY <1>1, RemoveAtProperties
<1>3. DOMAIN r = 1..(Len(s) - 1)
  BY <1>2, LenProperties
<1> HIDE DEF r
<1>4. \A i \in DOMAIN r : At(i) \in DOMAIN s /\ At(i) # k /\ r[i] = s[At(i)]
  <2>1. \A i \in DOMAIN r : At(i) \in DOMAIN s /\ At(i) # k
    BY <1>1, <1>3
  <2>2. \A i \in DOMAIN r : r[i] = s[At(i)]
    BY <1>2, <1>3
  <2>3. QED
    BY <2>1, <2>2
<1>5. \A i, j \in DOMAIN r : i < j => At(i) < At(j)
  BY <1>1, <1>3
<1>6. \A i \in DOMAIN s : i # k => \E j \in DOMAIN r : At(j) = i
  <2> SUFFICES ASSUME NEW i \in DOMAIN s, i # k PROVE \E j \in DOMAIN r : At(j) = i
    OBVIOUS
  <2> DEFINE j == IF i < k THEN i ELSE i - 1
  <2>1. j \in DOMAIN r /\ At(j) = i
    BY <1>1, <1>3
  <2> HIDE DEF j
  <2>2. QED
    BY <2>1
<1>7. \A i, j \in DOMAIN s : i # j => s[i] # s[j]
  BY <1>1 DEF Increasing
<1> HIDE DEF At
<1>8. Increasing(r)
  BY <1>4, <1>5 DEF Increasing
<1>9. ToSet(r) = ToSet(s) \ {s[k]}
  <2>1. \A x \in ToSet(r) : x \in ToSet(s) /\ x # s[k]
    BY <1>4, <1>7 DEF ToSet
  <2>2. \A x \in ToSet(s) : x # s[k] => x \in ToSet(r)
    BY <1>4, <1>6 DEF ToSet
  <2>3. QED
    BY <2>1, <2>2
<1>10. QED
  BY <1>2, <1>8, <1>9 DEF r, ToSet

\* No element stands in it twice.
LEMMA IncreasingCardinality ==
  ASSUME NEW s \in Seq(Nat), Increasing(s)
  PROVE  IsFiniteSet(ToSet(s)) /\ Cardinality(ToSet(s)) = Len(s) /\ Len(s) \in Nat
<1>1. DOMAIN s = 1..Len(s) /\ Len(s) \in Nat /\ \A i \in 1..Len(s) : s[i] \in Nat
  BY LenProperties, ElementOfSeq
<1>2. \A i, j \in DOMAIN s : s[i] = s[j] => i = j
  BY <1>1 DEF Increasing
<1>3. s \in [DOMAIN s -> ToSet(s)] /\ \A x \in ToSet(s) : \E i \in DOMAIN s : s[i] = x
  BY LenProperties DEF ToSet
<1>4. s \in Bijection(DOMAIN s, ToSet(s))
  BY <1>2, <1>3, Fun_IsBij
<1>5. IsFiniteSet(DOMAIN s) /\ Cardinality(DOMAIN s) = Len(s)
  BY <1>1, FS_Interval
<1>6. ExistsBijection(DOMAIN s, ToSet(s))
  BY <1>4 DEF ExistsBijection
<1>7. QED
  BY <1>1, <1>5, <1>6, FS_Bijection

\* The elements of two lists.
LEMMA ToSetConcat ==
  ASSUME NEW T, NEW s \in Seq(T), NEW t \in Seq(T)
  PROVE  ToSet(s \o t) = ToSet(s) \cup ToSet(t)
<1>1. /\ Len(s) \in Nat /\ Len(t) \in Nat
      /\ DOMAIN s = 1 .. Len(s) /\ DOMAIN t = 1 .. Len(t)
      /\ DOMAIN (s \o t) = 1 .. Len(s) + Len(t)
      /\ \A i \in 1 .. Len(s) + Len(t) :
           (s \o t)[i] = IF i <= Len(s) THEN s[i] ELSE t[i - Len(s)]
  BY ConcatProperties, LenProperties
<1> DEFINE c == s \o t
<1> HIDE DEF c
<1>2. ToSet(c) \subseteq ToSet(s) \cup ToSet(t)
  BY <1>1 DEF ToSet, c
<1>3. ToSet(s) \subseteq ToSet(c)
  BY <1>1 DEF ToSet, c
<1>4. ASSUME NEW i \in 1 .. Len(t) PROVE t[i] \in ToSet(c)
  <2>1. i + Len(s) \in 1 .. Len(s) + Len(t) /\ c[i + Len(s)] = t[i]
    BY <1>1 DEF c
  <2>2. QED
    BY <1>1, <2>1 DEF ToSet, c
<1>5. QED
  BY <1>1, <1>2, <1>3, <1>4 DEF ToSet, c
=============================================================================
