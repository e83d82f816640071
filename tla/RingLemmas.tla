----------------------------- MODULE RingLemmas -----------------------------
(***************************************************************************)
(* Facts that the proofs about several components need: the slots of a     *)
(* ring indexed by number % size, the greatest and the least element of an *)
(* interval, and the elements of shortened and extended sequences.         *)
(***************************************************************************)
EXTENDS Integers, Sequences, FiniteSets, FiniteSetsExt, SequencesExt, TLAPS, SequenceTheorems,
        FiniteSetTheorems, WellFoundedInduction

\* The quotient and the remainder put a number together.
LEMMA Division ==
    ASSUME NEW n \in Nat \ {0}, NEW i \in Int
    PROVE  /\ i \div n \in Int
           /\ i % n \in 0 .. n - 1
           /\ i = n * (i \div n) + (i % n)
OBVIOUS

\* A positive multiple is at least as great as what it is a multiple of.
LEMMA PositiveMultiple ==
    ASSUME NEW n \in Nat \ {0}, NEW k \in Int, 0 < n * k
    PROVE  n <= n * k
<1>1. k >= 1
  <2>1. ASSUME k <= 0 PROVE n * k <= 0
    BY <2>1
  <2>. QED  BY <2>1
<1>2. n * k = n + n * (k - 1)
  OBVIOUS
<1>3. n * (k - 1) >= 0
  BY <1>1
<1>. QED  BY <1>2, <1>3

\* Two numbers less than a ring's size apart have different slots.
LEMMA DifferentSlots ==
    ASSUME NEW n \in Nat \ {0}, NEW i \in Int, NEW j \in Int, i < j, j < i + n
    PROVE  i % n # j % n
<1>. SUFFICES ASSUME i % n = j % n PROVE FALSE
  OBVIOUS
<1>. DEFINE k == (j \div n) - (i \div n)
<1>1. i \div n \in Int /\ i % n \in Int /\ i = n * (i \div n) + (i % n)
  BY Division
<1>2. j \div n \in Int /\ j % n \in Int /\ j = n * (j \div n) + (j % n)
  BY Division
<1>3. n * k = n * (j \div n) - n * (i \div n)
  BY <1>1, <1>2
<1>4. k \in Int /\ n * k = j - i
  <2>1. n * (i \div n) \in Int /\ n * (j \div n) \in Int
    BY <1>1, <1>2
  <2>. QED  BY <1>1, <1>2, <1>3, <2>1
<1>. HIDE DEF k
<1>5. n <= n * k
  BY <1>4, PositiveMultiple
<1>. QED  BY <1>4, <1>5

\* Whole rounds through a ring lead back to the same slot.
LEMMA SameSlot ==
    ASSUME NEW n \in Nat \ {0}, NEW i \in Int, NEW q \in Int
    PROVE  (i + n * q) % n = i % n
<1>. DEFINE j == i + n * q
<1>0. n * q \in Int /\ j \in Int
  OBVIOUS
<1>1. i \div n \in Int /\ i % n \in 0 .. n - 1 /\ i = n * (i \div n) + (i % n)
  BY Division
<1>. HIDE DEF j
<1>2. j \div n \in Int /\ j % n \in 0 .. n - 1 /\ j = n * (j \div n) + (j % n)
  BY <1>0, Division
<1>3. ASSUME NEW a \in Int, NEW b \in Int, NEW u \in 0 .. n - 1, NEW v \in 0 .. n - 1,
             n * a + u = n * b + v
      PROVE  u = v
  <2>1. n * a \in Int /\ n * b \in Int
    OBVIOUS
  <2>2. n * (a - b) = n * a - n * b /\ n * (b - a) = n * b - n * a
    OBVIOUS
  <2>3. ~(0 < n * (a - b))
    <3>1. n * (a - b) < n
      BY <1>3, <2>1, <2>2
    <3>. QED  BY <3>1, PositiveMultiple
  <2>4. ~(0 < n * (b - a))
    <3>1. n * (b - a) < n
      BY <1>3, <2>1, <2>2
    <3>. QED  BY <3>1, PositiveMultiple
  <2>. QED  BY <1>3, <2>1, <2>2, <2>3, <2>4
<1>4. j = n * ((i \div n) + q) + (i % n)
  <2>1. n * ((i \div n) + q) = n * (i \div n) + n * q
    BY <1>1
  <2>2. n * (i \div n) \in Int
    BY <1>1
  <2>. QED  BY <1>0, <1>1, <2>1, <2>2 DEF j
<1>5. j % n = i % n
  <2>. DEFINE a == j \div n   b == (i \div n) + q
  <2>1. a \in Int /\ b \in Int /\ n * a + (j % n) = n * b + (i % n)
    BY <1>1, <1>2, <1>4
  <2>. HIDE DEF a, b
  <2>. QED  BY <1>1, <1>2, <1>3, <2>1
<1>. QED  BY <1>5 DEF j

\* Every slot in use holds a number of the last round through the ring.
LEMMA NewestInSlot ==
    ASSUME NEW n \in Nat \ {0}, NEW r \in Nat, NEW i \in 1 .. r
    PROVE  LET o == Max({k \in 1 .. r : k % n = i % n})
           IN  o \in i .. r /\ o % n = i % n /\ r < o + n
<1>. DEFINE q == (r - i) \div n
            o == i + n * q
            K == {k \in 1 .. r : k % n = i % n}
<1>1. q \in Int /\ (r - i) % n \in 0 .. n - 1 /\ r - i = n * q + ((r - i) % n)
  BY Division
<1>. HIDE DEF q
<1>2. n * q \in Int
  BY <1>1
<1>3. q >= 0
  <2>. SUFFICES ASSUME q <= -1 PROVE FALSE
    BY <1>1
  <2>1. n * q = n * (q + 1) - n /\ n * (q + 1) <= 0
    BY <1>1
  <2>2. n * (q + 1) \in Int
    BY <1>1
  <2>. QED  BY <1>1, <1>2, <2>1, <2>2
<1>4. n * q >= 0
  BY <1>1, <1>3
<1>5. o \in i .. r /\ r < o + n
  BY <1>1, <1>2, <1>4
<1>6. o % n = i % n
  <2>1. i \in Int
    OBVIOUS
  <2>. QED  BY <1>1, <2>1, SameSlot
<1>. HIDE DEF o
<1>7. \A k \in K : k <= o
  <2>. SUFFICES ASSUME NEW k \in K PROVE k <= o
    OBVIOUS
  <2>1. k \in Int /\ o \in Int /\ k % n = o % n /\ k < o + n
    BY <1>5, <1>6
  <2>2. ~(o < k)
    BY <2>1, DifferentSlots
  <2>. QED  BY <2>1, <2>2
<1>8. Max(K) = o
  BY <1>5, <1>6, <1>7 DEF Max
<1>. QED  BY <1>5, <1>6, <1>8

\* The window of a ring: a number above a is above r - n, if r is at most n ahead of a.
LEMMA NotYetOverwritten ==
    ASSUME NEW n \in Int, NEW r \in Int, NEW a \in Int, NEW p \in Int, NEW i \in Int,
           r - a <= p, p <= n, i > a
    PROVE  i > r - n
OBVIOUS

\* The greatest and the least of two numbers, and of an interval.
LEMMA MaxOfPair ==
    ASSUME NEW a \in Int, NEW b \in Int
    PROVE  Max({a, b}) = IF a >= b THEN a ELSE b
BY DEF Max

LEMMA MinOfPair ==
    ASSUME NEW a \in Int, NEW b \in Int
    PROVE  Min({a, b}) = IF a <= b THEN a ELSE b
BY DEF Min

LEMMA MaxOfInterval ==
    ASSUME NEW a \in Int, NEW b \in Int, a <= b
    PROVE  Max(a .. b) = b
BY DEF Max

LEMMA MinOfInterval ==
    ASSUME NEW a \in Int, NEW b \in Int, a <= b
    PROVE  Min(a .. b) = a
BY DEF Min

\* The part of an interval above a number.
LEMMA AboveInInterval ==
    ASSUME NEW a \in Int, NEW b \in Int, NEW c \in Int
    PROVE  {i \in a + 1 .. b : i > c} = (IF a <= c THEN c + 1 ELSE a + 1) .. b
OBVIOUS

\* Numbers are counted from 0, so that a set of them has a least element.
LEMMA LeastElement ==
    ASSUME NEW S \in SUBSET Nat, S # {}
    PROVE  Min(S) \in S /\ \A y \in S : Min(S) <= y
<1>. DEFINE R == {ss \in Nat \X Nat : ss[1] < ss[2]}
<1>1. IsWellFoundedOn(R, Nat)
  BY NatLessThanWellFounded, Zenon DEF OpToRel
<1>a. \A x, y \in Nat : x < y => <<x, y>> \in R
  OBVIOUS
<1>. HIDE DEF R
<1>2. PICK x \in S : \A y \in S : ~(<<y, x>> \in R)
  BY <1>1, WFMin
<1>3. \A y \in S : x <= y
  <2>. SUFFICES ASSUME NEW y \in S PROVE x <= y
    OBVIOUS
  <2>1. x \in Nat /\ y \in Nat /\ ~(y < x)
    BY <1>2, <1>a
  <2>. QED  BY <2>1
<1>. QED  BY <1>3 DEF Min

\* The greatest of a number and an interval above it.
LEMMA MaxOfExtended ==
    ASSUME NEW a \in Int, NEW b \in Int, NEW c \in Int, a <= c
    PROVE  Max({a} \union (b .. c)) = c \/ (b > c /\ Max({a} \union (b .. c)) = a)
<1>1. CASE b <= c
  BY <1>1 DEF Max
<1>2. CASE b > c
  <2>1. {a} \union (b .. c) = {a}
    BY <1>2
  <2>. QED  BY <1>2, <2>1 DEF Max
<1>. QED  BY <1>1, <1>2

LEMMA MaxOfNewer ==
    ASSUME NEW a \in Int, NEW f \in Int, NEW b \in Int, a < f
    PROVE  Max({a} \union (f .. b)) = IF f <= b THEN b ELSE a
<1>1. CASE f <= b
  BY <1>1 DEF Max
<1>2. CASE f > b
  <2>1. {a} \union (f .. b) = {a}
    BY <1>2
  <2>. QED  BY <1>2, <2>1 DEF Max
<1>. QED  BY <1>1, <1>2

\* Dropping the first k elements of a sequence.
LEMMA SuffixElements ==
    ASSUME NEW S, NEW s \in Seq(S), NEW k \in 0 .. Len(s)
    PROVE  /\ SubSeq(s, k + 1, Len(s)) \in Seq(S)
           /\ Len(SubSeq(s, k + 1, Len(s))) = Len(s) - k
           /\ \A i \in 1 .. Len(s) - k : SubSeq(s, k + 1, Len(s))[i] = s[i + k]
<1>1. Len(s) \in Nat /\ \A i \in k + 1 .. Len(s) : s[i] \in S
  OBVIOUS
<1>. DEFINE t == SubSeq(s, k + 1, Len(s))
<1>2. k + 1 \in Int /\ Len(s) \in Int
  BY <1>1
<1>3. /\ t \in Seq(S)
      /\ Len(t) = IF k + 1 <= Len(s) THEN Len(s) - (k + 1) + 1 ELSE 0
      /\ \A i \in 1 .. Len(s) - (k + 1) + 1 : t[i] = s[k + 1 + i - 1]
  BY <1>1, <1>2, SubSeqProperties
<1>. HIDE DEF t
<1>4. Len(t) = Len(s) - k
  BY <1>1, <1>3
<1>5. ASSUME NEW i \in 1 .. Len(s) - k PROVE t[i] = s[i + k]
  <2>1. i \in 1 .. Len(s) - (k + 1) + 1 /\ k + 1 + i - 1 = i + k
    BY <1>1
  <2>. QED  BY <1>3, <2>1
<1>. QED  BY <1>3, <1>4, <1>5 DEF t

\* Adding an element at the end, and dropping the first one to make room for it.
LEMMA ShiftElements ==
    ASSUME NEW S, NEW s \in Seq(S), NEW e \in S, s # <<>>
    PROVE  /\ Append(Tail(s), e) \in Seq(S)
           /\ Len(Append(Tail(s), e)) = Len(s)
           /\ \A i \in 1 .. Len(s) - 1 : Append(Tail(s), e)[i] = s[i + 1]
           /\ Append(Tail(s), e)[Len(s)] = e
<1>1. /\ Tail(s) \in Seq(S) /\ Len(s) \in Nat /\ Len(Tail(s)) = Len(s) - 1
      /\ \A i \in 1 .. Len(s) - 1 : Tail(s)[i] = s[i + 1]
  BY HeadTailProperties, LenProperties
<1>. QED  BY <1>1, AppendProperties

\* A channel of at most n messages loses its oldest to a message sent when it is full: what
\* it holds after that is what it held, without the first d, and the message last.
LEMMA BoundedAppend ==
    ASSUME NEW S, NEW c \in Seq(S), NEW m \in S, NEW n \in Nat \ {0}, NEW after,
           after = IF Len(c) < n THEN Append(c, m) ELSE Append(Tail(c), m)
    PROVE  /\ after \in Seq(S)
           /\ \E d \in {0, 1} :
                 /\ Len(after) = Len(c) - d + 1
                 /\ \A k \in 1 .. Len(c) - d : after[k] = c[k + d]
                 /\ after[Len(c) - d + 1] = m
<1>. Len(c) \in Nat
  OBVIOUS
<1>1. CASE Len(c) < n
  <2>1. after = Append(c, m)
    BY <1>1
  <2>2. /\ Append(c, m) \in Seq(S)
        /\ Len(Append(c, m)) = Len(c) + 1
        /\ \A k \in 1 .. Len(c) : Append(c, m)[k] = c[k]
        /\ Append(c, m)[Len(c) + 1] = m
    BY AppendProperties
  <2>3. /\ Len(Append(c, m)) = Len(c) - 0 + 1
        /\ \A k \in 1 .. Len(c) - 0 : Append(c, m)[k] = c[k + 0]
        /\ Append(c, m)[Len(c) - 0 + 1] = m
    BY <2>2
  <2>. QED  BY <2>1, <2>2, <2>3
<1>2. CASE ~(Len(c) < n)
  <2>1. after = Append(Tail(c), m) /\ c # <<>>
    BY <1>2
  <2>2. /\ Append(Tail(c), m) \in Seq(S)
        /\ Len(Append(Tail(c), m)) = Len(c)
        /\ \A k \in 1 .. Len(c) - 1 : Append(Tail(c), m)[k] = c[k + 1]
        /\ Append(Tail(c), m)[Len(c)] = m
    BY <2>1, ShiftElements
  <2>3. /\ Len(Append(Tail(c), m)) = Len(c) - 1 + 1
        /\ Append(Tail(c), m)[Len(c) - 1 + 1] = m
    BY <2>2
  <2>. QED  BY <2>1, <2>2, <2>3
<1>. QED  BY <1>1, <1>2

\* Sequences that agree up to n have the same prefix of length n.
LEMMA SamePrefix ==
    ASSUME NEW S, NEW s \in Seq(S), NEW t \in Seq(S), NEW n \in 0 .. Len(s), n <= Len(t),
           \A i \in 1 .. n : s[i] = t[i]
    PROVE  SubSeq(s, 1, n) = SubSeq(t, 1, n)
<1>1. /\ SubSeq(s, 1, n) \in Seq(S) /\ Len(SubSeq(s, 1, n)) = n
      /\ \A i \in 1 .. n : SubSeq(s, 1, n)[i] = s[i]
  OBVIOUS
<1>2. /\ SubSeq(t, 1, n) \in Seq(S) /\ Len(SubSeq(t, 1, n)) = n
      /\ \A i \in 1 .. n : SubSeq(t, 1, n)[i] = t[i]
  OBVIOUS
<1>. QED  BY <1>1, <1>2, SeqEqual

\* A prefix followed by the elements after it is a longer prefix.
LEMMA LongerPrefix ==
    ASSUME NEW S, NEW s \in Seq(S), NEW n \in 0 .. Len(s), NEW d \in 0 .. Len(s) - n,
           NEW t \in Seq(S), Len(t) = d, \A k \in 1 .. d : t[k] = s[n + k]
    PROVE  SubSeq(s, 1, n) \o t = SubSeq(s, 1, n + d)
<1>1. /\ SubSeq(s, 1, n) \in Seq(S) /\ Len(SubSeq(s, 1, n)) = n
      /\ \A i \in 1 .. n : SubSeq(s, 1, n)[i] = s[i]
  OBVIOUS
<1>2. /\ SubSeq(s, 1, n + d) \in Seq(S) /\ Len(SubSeq(s, 1, n + d)) = n + d
      /\ \A i \in 1 .. n + d : SubSeq(s, 1, n + d)[i] = s[i]
  OBVIOUS
<1>3. /\ SubSeq(s, 1, n) \o t \in Seq(S) /\ Len(SubSeq(s, 1, n) \o t) = n + d
      /\ \A i \in 1 .. n + d : (SubSeq(s, 1, n) \o t)[i] =
                IF i <= n THEN SubSeq(s, 1, n)[i] ELSE t[i - n]
  BY SMTT(30), <1>1, ConcatProperties
<1>4. ASSUME NEW i \in 1 .. n + d PROVE (SubSeq(s, 1, n) \o t)[i] = SubSeq(s, 1, n + d)[i]
  <2>1. CASE i <= n
    BY <1>1, <1>2, <1>3, <2>1
  <2>2. CASE i > n
    <3>1. i - n \in 1 .. d /\ n + (i - n) = i
      BY <2>2
    <3>. QED  BY <1>2, <1>3, <2>2, <3>1
  <2>. QED  BY <2>1, <2>2
<1>. QED  BY <1>2, <1>3, <1>4, SeqEqual

\* A finite set of numbers has a greatest element.
LEMMA GreatestElement ==
    ASSUME NEW S \in SUBSET Nat, S # {}, NEW b \in Nat, \A x \in S : x <= b
    PROVE  Max(S) \in S /\ \A x \in S : x <= Max(S)
<1>. DEFINE T == {b - x : x \in S}
<1>1. T \in SUBSET Nat /\ T # {}
  <2>1. \A x \in S : b - x \in Nat
    OBVIOUS
  <2>2. \E x \in S : b - x \in T
    OBVIOUS
  <2>. QED  BY <2>1, <2>2
<1>. HIDE DEF T
<1>2. Min(T) \in T /\ \A y \in T : Min(T) <= y
  BY <1>1, LeastElement
<1>3. PICK m \in S : Min(T) = b - m
  BY <1>2 DEF T
<1>4. \A x \in S : x <= m
  <2>. SUFFICES ASSUME NEW x \in S PROVE x <= m
    OBVIOUS
  <2>1. b - m <= b - x
    BY <1>2, <1>3 DEF T
  <2>. QED  BY <2>1
<1>. QED  BY <1>4 DEF Max

\* A sequence without its element at k.
LEMMA RemoveAtElements ==
    ASSUME NEW S, NEW s \in Seq(S), NEW k \in 1 .. Len(s)
    PROVE  /\ RemoveAt(s, k) \in Seq(S)
           /\ Len(RemoveAt(s, k)) = Len(s) - 1
           /\ \A i \in 1 .. k - 1 : RemoveAt(s, k)[i] = s[i]
           /\ \A i \in k .. Len(s) - 1 : RemoveAt(s, k)[i] = s[i + 1]
<1>. DEFINE a == SubSeq(s, 1, k - 1)
            b == SubSeq(s, k + 1, Len(s))
<1>0. Len(s) \in Nat
  OBVIOUS
<1>1. a \in Seq(S) /\ Len(a) = k - 1 /\ \A i \in 1 .. k - 1 : a[i] = s[i]
  BY <1>0
<1>2. b \in Seq(S) /\ Len(b) = Len(s) - k /\ \A i \in 1 .. Len(s) - k : b[i] = s[i + k]
  BY SuffixElements
<1>3. RemoveAt(s, k) = a \o b
  BY DEF RemoveAt
<1>. HIDE DEF a, b
<1>4. /\ a \o b \in Seq(S) /\ Len(a \o b) = Len(a) + Len(b)
      /\ \A i \in 1 .. Len(a) + Len(b) :
            (a \o b)[i] = IF i <= Len(a) THEN a[i] ELSE b[i - Len(a)]
  BY <1>1, <1>2, ConcatProperties
<1>5. Len(a \o b) = Len(s) - 1
  BY <1>0, <1>1, <1>2, <1>4
<1>6. \A i \in 1 .. k - 1 : (a \o b)[i] = s[i]
  BY <1>0, <1>1, <1>2, <1>4
<1>7. ASSUME NEW i \in k .. Len(s) - 1 PROVE (a \o b)[i] = s[i + 1]
  <2>1. (a \o b)[i] = b[i - (k - 1)]
    BY <1>0, <1>1, <1>2, <1>4
  <2>2. i - (k - 1) \in 1 .. Len(s) - k
    BY <1>0
  <2>3. b[i - (k - 1)] = s[(i - (k - 1)) + k]
    BY <1>2, <2>2
  <2>4. (i - (k - 1)) + k = i + 1
    BY <1>0
  <2>. QED  BY <2>1, <2>3, <2>4
<1>. QED  BY <1>3, <1>4, <1>5, <1>6, <1>7
=============================================================================
