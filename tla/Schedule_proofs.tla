--------------------------- MODULE Schedule_proofs ---------------------------
(***************************************************************************)
(* The safety of Schedule for any intervals, jitters, delays and waits and *)
(* any finite set of chats.                                                *)
(***************************************************************************)
EXTENDS Schedule, FiniteSetTheorems, SequenceTheorems, WellFoundedInduction, TLAPS

-----------------------------------------------------------------------------
(* Sequences without repetitions, as in Slots_proofs.                      *)

Ordered(seq, D) == ToSet(seq) = D /\ IsInjective(seq)

LEMMA OrderedEmpty == Ordered(<<>>, {})
BY DEF Ordered, ToSet, IsInjective

LEMMA OrderedAppend ==
  ASSUME NEW S, NEW seq \in Seq(S), NEW x \in S
  PROVE  /\ Append(seq, x) \in Seq(S)
         /\ ToSet(Append(seq, x)) = ToSet(seq) \cup {x}
         /\ IsInjective(seq) /\ x \notin ToSet(seq) => IsInjective(Append(seq, x))
<1> DEFINE app == Append(seq, x)
<1>1. /\ app \in Seq(S) /\ Len(app) = Len(seq) + 1 /\ Len(seq) \in Nat
      /\ DOMAIN app = 1 .. Len(seq) + 1 /\ DOMAIN seq = 1 .. Len(seq)
      /\ \A i \in 1 .. Len(seq) : app[i] = seq[i]
      /\ app[Len(seq) + 1] = x
  BY AppendProperties, LenProperties
<1> HIDE DEF app
<1>2. ToSet(app) = ToSet(seq) \cup {x}
  <2>1. 1 .. Len(seq) + 1 = (1 .. Len(seq)) \cup {Len(seq) + 1}
    BY <1>1
  <2> QED
    BY <2>1, <1>1 DEF ToSet
<1>3. ASSUME IsInjective(seq), x \notin ToSet(seq), NEW i \in DOMAIN app, NEW j \in DOMAIN app,
             app[i] = app[j]
      PROVE  i = j
  <2>1. \A k \in DOMAIN seq : seq[k] # x
    BY <1>3 DEF ToSet
  <2>2. CASE i \in DOMAIN seq /\ j \in DOMAIN seq
    BY <1>1, <1>3, <2>2 DEF IsInjective
  <2>3. CASE i \notin DOMAIN seq \/ j \notin DOMAIN seq
    BY <1>1, <1>3, <2>1, <2>3
  <2> QED
    BY <2>2, <2>3
<1> QED
  BY <1>1, <1>2, <1>3 DEF IsInjective, app

LEMMA OrderedConcat ==
  ASSUME NEW S, NEW p \in Seq(S), NEW q \in Seq(S), NEW D, NEW E,
         Ordered(p, D), Ordered(q, E), D \cap E = {}
  PROVE  p \o q \in Seq(S) /\ Ordered(p \o q, D \cup E)
<1> DEFINE cat == p \o q
           m == Len(p)
           n == Len(q)
<1>1. /\ cat \in Seq(S) /\ m \in Nat /\ n \in Nat
      /\ DOMAIN cat = 1 .. m + n /\ DOMAIN p = 1 .. m /\ DOMAIN q = 1 .. n
      /\ \A i \in 1 .. m + n : cat[i] = IF i <= m THEN p[i] ELSE q[i - m]
  BY ConcatProperties, LenProperties
<1> HIDE DEF cat, m, n
<1>2. \A i \in 1 .. m : i \in 1 .. m + n /\ cat[i] = p[i]
  BY <1>1
<1>3. \A i \in 1 .. n : i + m \in 1 .. m + n /\ cat[i + m] = q[i]
  BY <1>1
<1>4. \A i \in 1 .. m + n : \/ i \in 1 .. m /\ cat[i] = p[i] /\ cat[i] \in D
                            \/ i - m \in 1 .. n /\ cat[i] = q[i - m] /\ cat[i] \in E
  <2>1. \A i \in 1 .. m : p[i] \in D
    BY <1>1 DEF Ordered, ToSet
  <2>2. \A i \in 1 .. n : q[i] \in E
    BY <1>1 DEF Ordered, ToSet
  <2>3. \A i \in 1 .. m + n : i \in 1 .. m \/ (i - m \in 1 .. n /\ ~(i <= m))
    BY <1>1
  <2> QED
    BY <2>1, <2>2, <2>3, <1>1
<1>5. ToSet(cat) = D \cup E
  <2>1. D = {p[i] : i \in 1 .. m} /\ E = {q[i] : i \in 1 .. n}
    BY <1>1 DEF Ordered, ToSet
  <2>2. ToSet(cat) = {cat[i] : i \in 1 .. m + n}
    BY <1>1 DEF ToSet
  <2>3. \A i \in 1 .. m + n : cat[i] \in D \cup E
    BY <1>4
  <2>4. ASSUME NEW i \in 1 .. m PROVE p[i] \in ToSet(cat)
    BY <1>2, <2>2
  <2>5. ASSUME NEW i \in 1 .. n PROVE q[i] \in ToSet(cat)
    BY <1>3, <2>2
  <2> QED
    BY <2>1, <2>2, <2>3, <2>4, <2>5
<1>6. ASSUME NEW i \in 1 .. m + n, NEW j \in 1 .. m + n, cat[i] = cat[j] PROVE i = j
  <2>1. CASE i \in 1 .. m /\ cat[i] = p[i] /\ cat[i] \in D
    <3>1. j \in 1 .. m /\ cat[j] = p[j]
      BY <1>4, <1>6, <2>1
    <3> QED
      BY <3>1, <2>1, <1>6, <1>1 DEF Ordered, IsInjective
  <2>2. CASE i - m \in 1 .. n /\ cat[i] = q[i - m] /\ cat[i] \in E
    <3>1. j - m \in 1 .. n /\ cat[j] = q[j - m]
      BY <1>4, <1>6, <2>2
    <3>2. i - m = j - m
      BY <3>1, <2>2, <1>6, <1>1 DEF Ordered, IsInjective
    <3> QED
      BY <3>2, <1>1
  <2> QED
    BY <2>1, <2>2, <1>4
<1> QED
  BY <1>1, <1>5, <1>6 DEF Ordered, IsInjective, cat

-----------------------------------------------------------------------------
(* What a queue has besides S: the recursive function is there, by         *)
(* induction on the prefixes; and then so are its values.                  *)

Leaves(left, seq, S) ==
  left = [n \in 0 .. Len(seq) |->
           IF n = 0 THEN <<>>
           ELSE IF seq[n] \in S THEN left[n - 1] ELSE Append(left[n - 1], seq[n])]

LEMMA WithoutIs ==
  ASSUME NEW seq, NEW S
  PROVE  Without(seq, S) = (CHOOSE left : Leaves(left, seq, S))[Len(seq)]
BY DEF Without, Leaves

\* The natural numbers are the only set that holds 0 and every successor.
LEMMA Induction ==
  ASSUME NEW P, 0 \in P, \A n \in Nat : n \in P => n + 1 \in P
  PROVE  Nat \subseteq P
<1> DEFINE T == Nat \ P
<1> SUFFICES ASSUME T # {} PROVE FALSE
  OBVIOUS
<1>1. IsWellFoundedOn(OpToRel(<, Nat), Nat)
  BY NatLessThanWellFounded
<1>2. PICK x \in T : \A y \in T : ~(<<y, x>> \in OpToRel(<, Nat))
  BY <1>1, WFMin
<1>3. \A y \in T : ~(y < x)
  BY <1>2 DEF OpToRel
<1>4. x - 1 \in Nat /\ x - 1 \in P
  BY <1>3
<1> QED
  BY <1>4

LEMMA LeavesExist ==
  ASSUME NEW S, NEW seq \in Seq(S), NEW D
  PROVE  \E left : Leaves(left, seq, D)
<1> DEFINE N == 0 .. Len(seq)
           Eq(h, n) == h[n] = IF n = 0 THEN <<>>
                              ELSE IF seq[n] \in D THEN h[n - 1] ELSE Append(h[n - 1], seq[n])
           P == {n \in Nat : \E h \in [N -> Seq(S)] : \A m \in N : m <= n => Eq(h, m)}
<1>1. 0 \in P
  <2> DEFINE z == [n \in N |-> <<>>]
  <2>1. z \in [N -> Seq(S)]
    BY EmptySeq
  <2>2. \A m \in N : m <= 0 => Eq(z, m)
    OBVIOUS
  <2> HIDE DEF z, Eq
  <2> QED
    BY <2>1, <2>2
<1>2. ASSUME NEW n \in Nat, n \in P PROVE n + 1 \in P
  <2>1. PICK h \in [N -> Seq(S)] : \A m \in N : m <= n => Eq(h, m)
    BY <1>2
  <2> DEFINE g == [m \in N |-> IF m = 0 THEN <<>>
                               ELSE IF seq[m] \in D THEN h[m - 1] ELSE Append(h[m - 1], seq[m])]
  <2>2. ASSUME NEW m \in N, m # 0 PROVE m - 1 \in N /\ h[m - 1] \in Seq(S) /\ seq[m] \in S
    BY <2>2
  <2>3. g \in [N -> Seq(S)]
    <3>1. ASSUME NEW m \in N PROVE g[m] \in Seq(S)
      BY <2>2, EmptySeq, AppendProperties
    <3> QED
      BY <3>1
  <2>4. ASSUME NEW m \in N, m <= n PROVE g[m] = h[m]
    BY <2>1, <2>4
  <2>5. ASSUME NEW m \in N, m <= n + 1 PROVE Eq(g, m)
    <3>1. CASE m = 0
      BY <3>1
    <3>2. CASE m # 0
      <4>1. m - 1 \in N /\ m - 1 <= n
        BY <2>5, <3>2
      <4>2. g[m - 1] = h[m - 1]
        BY <4>1, <2>4
      <4> QED
        BY <4>2, <3>2
    <3> QED
      BY <3>1, <3>2
  <2> HIDE DEF g, Eq
  <2> QED
    BY <2>3, <2>5
<1>3. Len(seq) \in P
  <2> HIDE DEF P
  <2> QED
    BY <1>1, <1>2, Induction
<1>4. PICK h \in [N -> Seq(S)] : \A m \in N : m <= Len(seq) => Eq(h, m)
  BY <1>3
<1>5. \A m \in N : Eq(h, m)
  BY <1>4
<1>6. h = [n \in N |-> h[n]]
  OBVIOUS
<1> QED
  BY <1>5, <1>6 DEF Leaves

\* Of a sequence without repetitions is left what it has besides D, without
\* repetitions.
LEMMA WithoutOf ==
  ASSUME NEW S, NEW seq \in Seq(S), NEW E, Ordered(seq, E), NEW D
  PROVE  Without(seq, D) \in Seq(S) /\ Ordered(Without(seq, D), E \ D)
<1> DEFINE left == CHOOSE h : Leaves(h, seq, D)
           Before(n) == {seq[i] : i \in 1 .. n}
           P == {n \in Nat : n <= Len(seq) => left[n] \in Seq(S) /\ Ordered(left[n], Before(n) \ D)}
<1>1. Leaves(left, seq, D)
  BY LeavesExist
<1>2. Without(seq, D) = left[Len(seq)]
  BY WithoutIs
<1> HIDE DEF left
<1>3. \A n \in 0 .. Len(seq) :
        left[n] = IF n = 0 THEN <<>>
                  ELSE IF seq[n] \in D THEN left[n - 1] ELSE Append(left[n - 1], seq[n])
  BY <1>1 DEF Leaves
<1>4. Len(seq) \in Nat /\ DOMAIN seq = 1 .. Len(seq) /\ \A i \in 1 .. Len(seq) : seq[i] \in S
  BY LenProperties, ElementOfSeq
<1>5. 0 \in P
  <2>1. left[0] = <<>> /\ Before(0) = {}
    BY <1>3, <1>4
  <2> QED
    <3>1. Before(0) \ D = {}
      BY <2>1
    <3> HIDE DEF Before
    <3> QED
      BY <2>1, <3>1, EmptySeq, OrderedEmpty
<1>6. ASSUME NEW n \in Nat, n \in P PROVE n + 1 \in P
  <2> SUFFICES ASSUME n + 1 <= Len(seq)
               PROVE  left[n + 1] \in Seq(S) /\ Ordered(left[n + 1], Before(n + 1) \ D)
    OBVIOUS
  <2>1. left[n] \in Seq(S) /\ Ordered(left[n], Before(n) \ D)
    BY <1>6, <1>4
  <2>2. left[n + 1] = IF seq[n + 1] \in D THEN left[n] ELSE Append(left[n], seq[n + 1])
    BY <1>3, <1>4
  <2>3. Before(n + 1) = Before(n) \cup {seq[n + 1]} /\ seq[n + 1] \in S
    <3>1. 1 .. n + 1 = (1 .. n) \cup {n + 1}
      OBVIOUS
    <3> QED
      BY <3>1, <1>4
  <2>4. seq[n + 1] \notin Before(n)
    BY <1>4 DEF Ordered, IsInjective
  <2> HIDE DEF Before
  <2>5. CASE seq[n + 1] \notin D
    <3>1. seq[n + 1] \notin ToSet(left[n])
      BY <2>1, <2>4 DEF Ordered
    <3> QED
      BY <2>1, <2>2, <2>3, <2>5, <3>1, OrderedAppend DEF Ordered
  <2>6. CASE seq[n + 1] \in D
    BY <2>1, <2>2, <2>3, <2>6 DEF Ordered
  <2> QED
    BY <2>5, <2>6
<1>7. Len(seq) \in P
  <2> HIDE DEF P
  <2> QED
    BY <1>4, <1>5, <1>6, Induction
<1>8. Before(Len(seq)) = E
  BY <1>4 DEF Ordered, ToSet
<1> HIDE DEF Before
<1>9. left[Len(seq)] \in Seq(S) /\ Ordered(left[Len(seq)], Before(Len(seq)) \ D)
  <2>1. Len(seq) <= Len(seq) =>
          left[Len(seq)] \in Seq(S) /\ Ordered(left[Len(seq)], Before(Len(seq)) \ D)
    BY <1>7, Zenon
  <2> QED
    BY <1>4, <2>1
<1> QED
  BY <1>2, <1>8, <1>9

-----------------------------------------------------------------------------
(* Numbers                                                                 *)

\* A finite set of numbers has a bound: by induction on its size.
LEMMA FiniteBounded ==
  ASSUME NEW S \in SUBSET Nat, IsFiniteSet(S)
  PROVE  \E n \in Nat : \A x \in S : x <= n
<1> DEFINE Bounded(T) == \E n \in Nat : \A x \in T : x <= n
           P == {k \in Nat : \A T \in SUBSET S : Cardinality(T) = k => Bounded(T)}
<1>1. \A T \in SUBSET S : IsFiniteSet(T) /\ Cardinality(T) \in Nat
  BY FS_Subset, FS_CardinalityType
<1>2. 0 \in P
  <2>1. \A T \in SUBSET S : Cardinality(T) = 0 => T = {}
    BY <1>1, FS_EmptySet
  <2> QED
    BY <2>1
<1>3. ASSUME NEW k \in Nat, k \in P PROVE k + 1 \in P
  <2>0. k + 1 \in Nat
    OBVIOUS
  <2> SUFFICES ASSUME NEW T \in SUBSET S, Cardinality(T) = k + 1 PROVE Bounded(T)
    <3> HIDE DEF Bounded
    <3> QED
      BY <2>0
  <2>7. T # {}
    <3>1. Cardinality({}) = 0 /\ k + 1 # 0
      BY FS_EmptySet
    <3> QED
      BY <3>1
  <2>1. PICK x \in T : TRUE
    BY <2>7
  <2>2. Cardinality(T \ {x}) = k
    BY <1>1, FS_RemoveElement
  <2>3. PICK n \in Nat : \A y \in T \ {x} : y <= n
    BY <1>3, <2>2
  <2>4. x \in Nat
    OBVIOUS
  <2>5. CASE x <= n
    BY <2>3, <2>5
  <2>6. CASE n <= x
    BY <2>3, <2>4, <2>6
  <2> QED
    BY <2>4, <2>5, <2>6
<1>4. Cardinality(S) \in P
  <2> HIDE DEF P
  <2> QED
    BY <1>1, <1>2, <1>3, Induction
<1> QED
  BY <1>4

LEMMA MaxIs ==
  ASSUME NEW S \in SUBSET Nat, NEW m \in S, \A x \in S : x <= m
  PROVE  Max(S) = m
<1>1. \A x \in S : (\A y \in S : x >= y) => x = m
  BY SMT
<1>2. \A y \in S : m >= y
  BY SMT
<1> QED
  BY <1>1, <1>2, Zenon DEF Max

LEMMA MinIs ==
  ASSUME NEW S \in SUBSET Nat, NEW m \in S, \A x \in S : m <= x
  PROVE  Min(S) = m
<1>1. \A x \in S : (\A y \in S : x <= y) => x = m
  BY SMT
<1> QED
  BY <1>1, Zenon DEF Min

\* A set of numbers with a bound has a greatest member: its least bound.
LEMMA MaxOf ==
  ASSUME NEW S \in SUBSET Nat, S # {}, NEW n \in Nat, \A x \in S : x <= n
  PROVE  Max(S) \in S /\ \A x \in S : x <= Max(S)
<1> DEFINE U == {k \in Nat : \A x \in S : x <= k}
<1>1. IsWellFoundedOn(OpToRel(<, Nat), Nat)
  BY NatLessThanWellFounded
<1>2. PICK m \in U : \A k \in U : ~(<<k, m>> \in OpToRel(<, Nat))
  BY <1>1, WFMin
<1>3. \A k \in U : ~(k < m)
  BY <1>2 DEF OpToRel
<1>4. m \in S
  <2> SUFFICES ASSUME m \notin S PROVE FALSE
    OBVIOUS
  <2>1. \A x \in S : x < m
    OBVIOUS
  <2>4. PICK x \in S : TRUE
    OBVIOUS
  <2>3. m # 0
    <3>1. x \in Nat /\ x < m
      BY <2>1
    <3> QED
      BY <3>1
  <2>2. m - 1 \in U
    BY <2>1, <2>3
  <2> QED
    BY <1>3, <2>2
<1>5. Max(S) = m
  BY <1>4, MaxIs
<1> QED
  BY <1>4, <1>5

LEMMA HorizonType ==
  /\ Horizon \in Nat \ {0}
  /\ \A a \in Lens, b \in Jits : a + b \in 1 .. Horizon
  /\ \A d \in Delays : d \in 0 .. Horizon
  /\ \A h \in Holds : h \in 1 .. Horizon
<1> DEFINE A == {a + b : a \in Lens, b \in Jits}
           S == A \cup Delays \cup Holds
<1>1. PICK n1 \in Nat : \A x \in Lens : x <= n1
  BY ScheduleAssumption, FiniteBounded
<1>2. PICK n2 \in Nat : \A x \in Jits : x <= n2
  BY ScheduleAssumption, FiniteBounded
<1>3. PICK n3 \in Nat : \A x \in Delays : x <= n3
  BY ScheduleAssumption, FiniteBounded
<1>4. PICK n4 \in Nat : \A x \in Holds : x <= n4
  <2>1. Holds \in SUBSET Nat
    BY ScheduleAssumption
  <2> QED
    BY <2>1, ScheduleAssumption, FiniteBounded
<1>5. \A a \in Lens, b \in Jits : a + b \in S /\ a + b >= 1 /\ a + b <= n1 + n2
  BY <1>1, <1>2, ScheduleAssumption
<1>6. S \in SUBSET Nat /\ S # {}
  <2>1. Delays \in SUBSET Nat /\ Holds \in SUBSET Nat /\ 0 \in Delays
    BY ScheduleAssumption
  <2>2. A \in SUBSET Nat
    BY ScheduleAssumption
  <2>3. 0 \in S
    BY <2>1
  <2>4. S \in SUBSET Nat
    <3> HIDE DEF A
    <3> QED
      BY <2>1, <2>2
  <2> QED
    <3> HIDE DEF S
    <3> QED
      BY <2>3, <2>4
<1>7. \A x \in S : x <= n1 + n2 + n3 + n4
  <2>1. \A x \in Delays \cup Holds : x <= n1 + n2 + n3 + n4
    BY <1>3, <1>4, ScheduleAssumption
  <2>2. \A a \in Lens, b \in Jits : a + b <= n1 + n2 + n3 + n4
    BY <1>5, ScheduleAssumption
  <2> QED
    BY <2>1, <2>2
<1>8. Horizon = Max(S)
  BY DEF Horizon
<1>9. Horizon \in S /\ \A x \in S : x <= Horizon
  <2> HIDE DEF S
  <2> QED
    BY <1>6, <1>7, <1>8, MaxOf
<1>10. \A x \in S : x \in Nat
  BY <1>6
<1>11. Horizon \in Nat /\ Horizon >= 1
  <2>1. PICK a \in Lens : TRUE
    BY ScheduleAssumption
  <2>2. a + 0 \in S /\ a + 0 >= 1
    BY <1>5, ScheduleAssumption
  <2> QED
    <3> HIDE DEF S
    <3> QED
      BY <2>2, <1>9, <1>10
<1>12. \A a \in Lens, b \in Jits : a + b \in 1 .. Horizon
  <2> SUFFICES ASSUME NEW a \in Lens, NEW b \in Jits PROVE a + b \in 1 .. Horizon
    OBVIOUS
  <2>1. a + b \in S /\ a + b >= 1 /\ a + b \in Nat
    BY <1>5, <1>10
  <2> HIDE DEF S
  <2> QED
    BY <2>1, <1>9, <1>11
<1>13. \A d \in Delays : d \in S
  OBVIOUS
<1>14. \A h \in Holds : h \in S /\ h >= 1
  BY ScheduleAssumption
<1> HIDE DEF S
<1>15. ASSUME NEW d \in Delays PROVE d \in 0 .. Horizon
  <2>1. d \in Nat /\ d <= Horizon
    BY <1>9, <1>10, <1>13
  <2> QED
    BY <2>1, <1>11
<1>16. ASSUME NEW h \in Holds PROVE h \in 1 .. Horizon
  <2>1. h \in Nat /\ h <= Horizon /\ h >= 1
    BY <1>9, <1>10, <1>14
  <2> QED
    BY <2>1, <1>11
<1> QED
  BY <1>11, <1>12, <1>15, <1>16

\* The shortest and the longest pause.
Lo(x, d) == IF Jitter(x, d) >= Interval(x, d) THEN 1 ELSE Interval(x, d) - Jitter(x, d)
Hi(x, d) == Interval(x, d) + Jitter(x, d)

LEMMA PausesOf ==
  ASSUME NEW x \in Options, NEW d \in Defaults
  PROVE  /\ Lo(x, d) \in 1 .. Horizon /\ Hi(x, d) \in 1 .. Horizon /\ Lo(x, d) <= Hi(x, d)
         /\ Pauses(x, d) = Lo(x, d) .. Hi(x, d)
         /\ Min(Pauses(x, d)) = Lo(x, d) /\ Max(Pauses(x, d)) = Hi(x, d)
<1> DEFINE n == Interval(x, d)
           j == Jitter(x, d)
<1>1. n \in Lens /\ j \in Jits
  BY DEF Options, Defaults, Opt, Interval, Jitter
<1>2. n \in Nat \ {0} /\ j \in Nat /\ n + j \in 1 .. Horizon
  BY <1>1, HorizonType, ScheduleAssumption
<1>3. Pauses(x, d) = Lo(x, d) .. Hi(x, d)
  BY DEF Pauses, Lo, Hi
<1>4. Lo(x, d) \in 1 .. Horizon /\ Hi(x, d) \in 1 .. Horizon /\ Lo(x, d) <= Hi(x, d)
  <2> HIDE DEF n, j
  <2>1. Lo(x, d) = IF j >= n THEN 1 ELSE n - j
    BY DEF Lo, n, j
  <2>2. Hi(x, d) = n + j
    BY DEF Hi, n, j
  <2> QED
    BY <1>2, <2>1, <2>2, HorizonType
<1> DEFINE lo == Lo(x, d)
           hi == Hi(x, d)
<1>5. lo \in Nat /\ hi \in Nat /\ lo <= hi
  BY <1>4, HorizonType
<1> HIDE DEF lo, hi
<1>6. Min(lo .. hi) = lo /\ Max(lo .. hi) = hi
  <2>1. lo .. hi \in SUBSET Nat /\ lo \in lo .. hi /\ hi \in lo .. hi
    BY <1>5
  <2>2. \A y \in lo .. hi : lo <= y /\ y <= hi
    BY <1>5
  <2> QED
    BY <2>1, <2>2, MinIs, MaxIs
<1> QED
  BY <1>3, <1>4, <1>6 DEF lo, hi

LEMMA PairMinMax ==
  ASSUME NEW a \in Nat, NEW b \in Nat
  PROVE  /\ Min({a, b}) = IF a <= b THEN a ELSE b
         /\ Max({a, b}) = IF a >= b THEN a ELSE b
<1>1. CASE a <= b
  <2>1. Min({a, b}) = a
    BY <1>1, MinIs
  <2>2. Max({a, b}) = b
    BY <1>1, MaxIs
  <2> QED
    BY <1>1, <2>1, <2>2
<1>2. CASE b < a
  <2>1. Min({a, b}) = b
    BY <1>2, MinIs
  <2>2. Max({a, b}) = a
    BY <1>2, MaxIs
  <2> QED
    BY <1>2, <2>1, <2>2
<1> QED
  BY <1>1, <1>2

\* The orders of a set: between sets of one size, an injection is onto.
LEMMA SetToSeqsOf ==
  ASSUME NEW S, IsFiniteSet(S), NEW q \in SetToSeqs(S)
  PROVE  q \in Seq(S) /\ Ordered(q, S)
<1> DEFINE n == Cardinality(S)
<1>1. n \in Nat
  BY FS_CardinalityType
<1>2. q \in [1 .. n -> S] /\ \A i, j \in 1 .. n : i # j => q[i] # q[j]
  BY DEF SetToSeqs
<1>3. IsInjective(q)
  BY <1>2 DEF IsInjective
<1>4. IsFiniteSet(1 .. n) /\ Cardinality(1 .. n) = n
  BY <1>1, FS_Interval
<1>5. q \in Injection(1 .. n, S)
  BY <1>2, <1>3 DEF Injection, IsInjective
<1>6. q \in Surjection(1 .. n, S)
  BY <1>4, <1>5, FS_Injection
<1>7. ToSet(q) = S
  BY <1>2, <1>6 DEF Surjection, ToSet
<1>8. q \in Seq(S)
  BY <1>1, <1>2, SeqDef
<1> QED
  BY <1>3, <1>7, <1>8 DEF Ordered

-----------------------------------------------------------------------------
(* The inductive invariant                                                 *)

Rec == [age : 0 .. Horizon, pause : 0 .. Horizon]

Types ==
  /\ cfg \in [Chats -> Options] /\ std \in Defaults
  /\ last \in [Chats -> Ages] /\ running \in BOOLEAN /\ bumped \in BOOLEAN
  /\ loop \in [at : {"rest", "ask"}, chat : {NoChat}] \cup [at : {"send", "sent"}, chat : Chats]
  /\ timer \in [Chats -> 0 .. Absent]
  /\ owes \in [Watched -> Rec] /\ hold \in [Watched -> 0 .. Horizon]
  /\ forgot \subseteq Watched /\ unbumped \subseteq Watched

Due == {c \in Chats : timer[c] = 0}

\* The queue has the chats that are due, once each.
Queued == queue \in Seq(Chats) /\ Ordered(queue, Due)

\* A delivery at which the loop is, is not booked.
Out(c) == loop.at = "sent" /\ loop.chat = c

\* A debt is no more than the settings in force ask for.  Booked, it is at least
\* as old as the last send, and the timer does not fall due before it is over.
Debt(o, age, left, out, least) ==
  o # Free =>
    /\ o.age < o.pause /\ o.pause <= least
    /\ ~out => age <= o.age /\ (left # Absent => o.pause <= left + o.age)

Spaced ==
  /\ \A c \in Watched : Debt(owes[c], last[c], timer[c], Out(c), Lo(cfg[c], std))
  /\ loop.at = "send" /\ loop.chat \in Watched => owes[loop.chat] = Free

\* A wait is in the chat's timer, unless forgotten.
Held ==
  /\ \A c \in Watched : hold[c] > 0 /\ c \notin forgot => timer[c] # Absent /\ hold[c] <= timer[c]
  /\ loop.at \in {"send", "sent"} /\ loop.chat \in Watched =>
       hold[loop.chat] = 0 \/ loop.chat \in forgot

\* TimersFollow, for a chat that is switched off too.
Follow ==
  ~bumped => \A c \in Watched \ unbumped :
               timer[c] # Absent => timer[c] <= Longest(c) \/ timer[c] <= hold[c]

Inv == Types /\ Queued /\ Spaced /\ Held /\ Follow

\* Asking for the next chat changes no wait.
Asked == loop.at = "ask" /\ loop'.at = "send" => hold' = hold

-----------------------------------------------------------------------------
(* Settings and timers                                                     *)

LEMMA WatchedChats == Watched \subseteq Chats /\ IsFiniteSet(Chats) /\ NoChat \notin Chats
BY ScheduleAssumption

LEMMA TimesSame ==
  ASSUME NEW x, NEW y, NEW d, NEW e, Times(x) = Times(y), d.len = e.len, d.jit = e.jit
  PROVE  /\ Lo(x, d) = Lo(y, e) /\ Hi(x, d) = Hi(y, e) /\ Pauses(x, d) = Pauses(y, e)
         /\ x.delay = y.delay
<1>1. x.len = y.len /\ x.jit = y.jit /\ x.delay = y.delay
  BY DEF Times
<1>2. Interval(x, d) = Interval(y, e) /\ Jitter(x, d) = Jitter(y, e)
  BY <1>1 DEF Interval, Jitter
<1> QED
  BY <1>1, <1>2, Zenon DEF Lo, Hi, Pauses

Most(x, d, age) ==
  LET most == Max({Max(Pauses(x, d)), x.delay})
  IN  IF age = Never THEN x.delay ELSE IF most > age THEN most - age ELSE 0

LEMMA MostOf ==
  ASSUME NEW x \in Options, NEW d \in Defaults, NEW age
  PROVE  /\ x.delay \in 0 .. Horizon
         /\ Most(x, d, age) = LET most == IF Hi(x, d) >= x.delay THEN Hi(x, d) ELSE x.delay
                              IN  IF age = Never THEN x.delay ELSE IF most > age THEN most - age ELSE 0
<1>1. x.delay \in 0 .. Horizon
  BY HorizonType DEF Options
<1>2. Max(Pauses(x, d)) = Hi(x, d) /\ Hi(x, d) \in 1 .. Horizon
  BY PausesOf
<1>3. Max({Max(Pauses(x, d)), x.delay}) = IF Hi(x, d) >= x.delay THEN Hi(x, d) ELSE x.delay
  <2>1. Hi(x, d) \in Nat /\ x.delay \in Nat
    BY <1>1, <1>2, HorizonType
  <2> QED
    BY <1>2, <2>1, PairMinMax
<1> QED
  BY <1>1, <1>3, Zenon DEF Most

LEMMA LongestIs ==
  ASSUME NEW c
  PROVE  Longest(c) = Most(cfg[c], std, last[c]) /\ Longest(c)' = Most(cfg'[c], std', last'[c])
BY DEF Longest, Most, Never

LEMMA LongestOf ==
  ASSUME Types, NEW c \in Chats
  PROVE  /\ cfg[c].delay \in 0 .. Horizon
         /\ Longest(c) = LET most == IF Hi(cfg[c], std) >= cfg[c].delay THEN Hi(cfg[c], std)
                                     ELSE cfg[c].delay
                         IN  IF last[c] = Never THEN cfg[c].delay
                             ELSE IF most > last[c] THEN most - last[c] ELSE 0
BY LongestIs, MostOf DEF Types

LEMMA LongestSame ==
  ASSUME Types, Types', NEW c \in Chats, last'[c] = last[c], Times(cfg'[c]) = Times(cfg[c]),
         std'.len = std.len, std'.jit = std.jit
  PROVE  Longest(c)' = Longest(c)
<1>1. Pauses(cfg'[c], std') = Pauses(cfg[c], std) /\ cfg'[c].delay = cfg[c].delay
  BY TimesSame
<1> QED
  BY <1>1 DEF Longest, Never

\* A new timer is no longer than the settings make it, and does not fall due
\* before the shortest pause since the last send is over.
LEMMA NextFireOf ==
  ASSUME Types, NEW c \in Chats, NEW n \in NextFire(c)
  PROVE  /\ n \in 0 .. Horizon /\ n <= Longest(c)
         /\ last[c] # Never => Lo(cfg[c], std) <= n + last[c]
<1> DEFINE lo == Lo(cfg[c], std)
           hi == Hi(cfg[c], std)
           age == last[c]
           first == cfg[c].delay
<1>1. cfg[c] \in Options /\ std \in Defaults /\ age \in Ages
  BY DEF Types
<1>2. Pauses(cfg[c], std) = lo .. hi /\ lo \in 1 .. Horizon /\ hi \in 1 .. Horizon
  BY <1>1, PausesOf
<1>3. first \in 0 .. Horizon
  BY LongestOf
<1>4. Longest(c) = IF age = Never THEN first
                   ELSE IF (IF hi >= first THEN hi ELSE first) > age
                        THEN (IF hi >= first THEN hi ELSE first) - age ELSE 0
  BY LongestOf
<1>5. Horizon \in Nat
  BY HorizonType
<1>6. CASE age = Never
  <2>1. n = first
    BY <1>6 DEF NextFire
  <2> QED
    BY <2>1, <1>3, <1>4, <1>5, <1>6
<1>7. CASE age # Never
  <2>1. PICK p \in lo .. hi : n = IF p > age THEN p - age ELSE 0
    BY <1>2, <1>7 DEF NextFire
  <2>2. age \in 0 .. Horizon
    BY <1>1, <1>5, <1>7 DEF Ages, Never
  <2> HIDE DEF lo, hi, age, first
  <2>3. lo <= p /\ p <= hi /\ p \in Nat
    BY <1>2, <1>5, <2>1
  <2>4. n \in 0 .. Horizon /\ lo <= n + age
    BY <1>2, <1>5, <2>1, <2>2, <2>3
  <2>5. n <= Longest(c)
    BY <1>2, <1>3, <1>4, <1>5, <1>7, <2>1, <2>2, <2>3
  <2> QED
    BY <2>4, <2>5 DEF lo, age
<1> QED
  BY <1>6, <1>7

LEMMA FreeRec == Free \in Rec
BY HorizonType DEF Free, Rec

LEMMA FreeDebt ==
  ASSUME NEW age, NEW left, NEW out, NEW least
  PROVE  Debt(Free, age, left, out, least)
BY DEF Debt

\* A debt remains when the timer is forgotten, or set as long as the pauses ask.
LEMMA DebtMoved ==
  ASSUME NEW o \in Rec, NEW age \in Ages, NEW left \in 0 .. Absent, NEW left2 \in 0 .. Absent,
         NEW out \in BOOLEAN, NEW out2 \in BOOLEAN, NEW least \in 0 .. Horizon,
         Debt(o, age, left, out, least), ~out2 => ~out,
         left2 = left \/ left2 = Absent \/ (age # Never => least <= left2 + age)
  PROVE  Debt(o, age, left2, out2, least)
<1> SUFFICES ASSUME o # Free
             PROVE  /\ o.age < o.pause /\ o.pause <= least
                    /\ ~out2 => age <= o.age /\ (left2 # Absent => o.pause <= left2 + o.age)
  BY DEF Debt
<1>1. /\ o.age < o.pause /\ o.pause <= least
      /\ ~out => age <= o.age /\ (left # Absent => o.pause <= left + o.age)
  BY DEF Debt
<1>2. o.age \in 0 .. Horizon /\ o.pause \in 0 .. Horizon
  BY DEF Rec
<1>3. Horizon \in Nat
  BY HorizonType
<1>4. age \in 0 .. Horizon + 1 /\ left2 \in 0 .. Horizon + 1
  BY DEF Ages, Never, Absent
<1> SUFFICES ASSUME ~out2, left2 # Absent PROVE o.pause <= left2 + o.age
  BY <1>1
<1>5. age <= o.age /\ age # Never
  BY <1>1, <1>2, <1>3, <1>4 DEF Never
<1>6. CASE left2 = left
  BY <1>1, <1>6
<1>7. CASE least <= left2 + age
  BY <1>1, <1>2, <1>3, <1>4, <1>5, <1>7
<1> QED
  BY <1>5, <1>6, <1>7


\* The effects of the operators.
LEMMA SetOf ==
  ASSUME Types, Queued, NEW c \in Chats, NEW n \in 0 .. Horizon, Set(c, n)
  PROVE  /\ timer' \in [Chats -> 0 .. Absent] /\ Queued'
         /\ timer'[c] = n /\ \A x \in Chats \ {c} : timer'[x] = timer[x]
<1>1. timer' = [timer EXCEPT ![c] = n] /\ timer \in [Chats -> 0 .. Absent]
  BY DEF Set, Types
<1>2. n \in 0 .. Absent
  BY HorizonType DEF Absent
<1>3. timer' \in [Chats -> 0 .. Absent] /\ timer'[c] = n /\ \A x \in Chats \ {c} : timer'[x] = timer[x]
  BY <1>1, <1>2
<1> DEFINE q == Without(queue, {c})
<1>4. q \in Seq(Chats) /\ Ordered(q, Due \ {c})
  BY WithoutOf DEF Queued
<1>5. queue' = IF n = 0 THEN Append(q, c) ELSE q
  BY DEF Set
<1> HIDE DEF q
<1>6. CASE n = 0
  <2>1. Due' = (Due \ {c}) \cup {c}
    BY <1>3, <1>6 DEF Due
  <2>2. c \notin ToSet(q)
    BY <1>4 DEF Ordered
  <2> QED
    BY <1>3, <1>4, <1>5, <1>6, <2>1, <2>2, OrderedAppend DEF Ordered, Queued
<1>7. CASE n # 0
  <2>1. Due' = Due \ {c}
    BY <1>3, <1>7 DEF Due
  <2> QED
    BY <1>3, <1>4, <1>5, <1>7, <2>1 DEF Queued
<1> QED
  BY <1>6, <1>7

LEMMA ForgetOf ==
  ASSUME Types, Queued, NEW S \in SUBSET Chats, Forget(S)
  PROVE  /\ timer' \in [Chats -> 0 .. Absent] /\ Queued'
         /\ \A x \in Chats : timer'[x] = IF x \in S THEN Absent ELSE timer[x]
         /\ forgot' \subseteq Watched /\ forgot \subseteq forgot'
         /\ \A x \in S \cap Watched : hold[x] > 0 => x \in forgot'
<1>1. Absent \in 0 .. Absent /\ Absent # 0
  BY HorizonType DEF Absent
<1>2. /\ timer' = [x \in Chats |-> IF x \in S THEN Absent ELSE timer[x]]
      /\ timer \in [Chats -> 0 .. Absent]
  BY DEF Forget, Types
<1>3. timer' \in [Chats -> 0 .. Absent] /\ \A x \in Chats : timer'[x] = IF x \in S THEN Absent ELSE timer[x]
  BY <1>1, <1>2
<1>4. Due' = Due \ S
  BY <1>1, <1>3 DEF Due
<1>5. queue' = Without(queue, S)
  BY DEF Forget
<1>6. queue' \in Seq(Chats) /\ Ordered(queue', Due \ S)
  BY <1>5, WithoutOf DEF Queued
<1>7. Queued'
  BY <1>4, <1>6 DEF Queued
<1>8. /\ forgot' \subseteq Watched /\ forgot \subseteq forgot'
      /\ \A x \in S \cap Watched : hold[x] > 0 => x \in forgot'
  BY DEF Forget, Types
<1> QED
  BY <1>3, <1>7, <1>8

LEMMA FillOf ==
  ASSUME Types, Queued, Fill
  PROVE  /\ timer' \in [Chats -> 0 .. Absent] /\ Queued'
         /\ \A x \in Chats : \/ timer'[x] = timer[x]
                             \/ timer'[x] = Absent /\ x \notin On
                             \/ timer[x] = Absent /\ timer'[x] \in NextFire(x)
         /\ forgot' \subseteq Watched /\ forgot \subseteq forgot'
         /\ \A x \in Watched \ On : hold[x] > 0 => x \in forgot'
         /\ unbumped' \subseteq Watched
         /\ \A x \in Watched \ unbumped' :
              x \notin unbumped \/ timer'[x] = Absent \/ timer'[x] \in NextFire(x)
<1> DEFINE off == Chats \ On
           new == {c \in On : timer[c] = Absent}
<1>1. PICK f \in [new -> 0 .. Horizon] :
        /\ \A c \in new : f[c] \in NextFire(c)
        /\ timer' = [c \in Chats |-> IF c \in off THEN Absent ELSE IF c \in new THEN f[c] ELSE timer[c]]
        /\ \E late \in SetToSeqs({c \in new : f[c] = 0}) : queue' = Without(queue, off) \o late
        /\ forgot' = forgot \cup {c \in off \cap Watched : hold[c] > 0}
        /\ unbumped' = unbumped \ (off \cup new)
  BY DEF Fill
<1> DEFINE zero == {c \in new : f[c] = 0}
<1>2. On \subseteq Chats /\ timer \in [Chats -> 0 .. Absent]
  BY DEF On, Types
<1>3. Horizon \in Nat /\ Absent \in 0 .. Absent /\ Absent # 0
  BY HorizonType DEF Absent
<1>4. \A c \in new : f[c] \in 0 .. Absent /\ f[c] # Absent
  BY <1>1, <1>3 DEF Absent
<1>5. \A c \in Chats : timer'[c] = IF c \in off THEN Absent ELSE IF c \in new THEN f[c] ELSE timer[c]
  BY <1>1
<1>6. timer' \in [Chats -> 0 .. Absent]
  <2>1. \A c \in Chats : (IF c \in off THEN Absent ELSE IF c \in new THEN f[c] ELSE timer[c]) \in 0 .. Absent
    BY <1>2, <1>3, <1>4
  <2> QED
    BY <1>1, <2>1
<1>7. Due' = (Due \ off) \cup zero
  BY <1>2, <1>3, <1>5 DEF Due
<1>8. (Due \ off) \cap zero = {}
  BY <1>3 DEF Due
<1>9. PICK late \in SetToSeqs(zero) : queue' = Without(queue, off) \o late
  BY <1>1
<1>10. Without(queue, off) \in Seq(Chats) /\ Ordered(Without(queue, off), Due \ off)
  BY WithoutOf DEF Queued
<1>11. zero \subseteq Chats /\ IsFiniteSet(zero)
  BY <1>2, WatchedChats, FS_Subset
<1>12. late \in Seq(Chats) /\ Ordered(late, zero)
  <2> HIDE DEF zero
  <2>1. late \in Seq(zero) /\ Ordered(late, zero)
    BY <1>9, <1>11, SetToSeqsOf
  <2> QED
    BY <1>11, <2>1
<1>13. Queued'
  <2> HIDE DEF zero, off
  <2>1. queue' \in Seq(Chats) /\ Ordered(queue', (Due \ off) \cup zero)
    BY <1>8, <1>9, <1>10, <1>12, OrderedConcat
  <2> QED
    BY <1>7, <2>1 DEF Queued
<1>14. \A x \in Chats : \/ timer'[x] = timer[x]
                        \/ timer'[x] = Absent /\ x \notin On
                        \/ timer[x] = Absent /\ timer'[x] \in NextFire(x)
  BY <1>1, <1>5
<1>15. /\ forgot' \subseteq Watched /\ forgot \subseteq forgot' /\ unbumped' \subseteq Watched
       /\ \A x \in Watched \ On : hold[x] > 0 => x \in forgot'
  BY <1>1, WatchedChats DEF Types
<1>16. \A x \in Watched \ unbumped' :
         x \notin unbumped \/ timer'[x] = Absent \/ timer'[x] \in NextFire(x)
  BY <1>1, <1>5, WatchedChats
<1> HIDE DEF off, new
<1> QED
  BY <1>6, <1>13, <1>14, <1>15, <1>16

-----------------------------------------------------------------------------
(* Steps that change no time                                               *)

LEMMA LoopTypes ==
  ASSUME Types
  PROVE  /\ loop.at \in {"rest", "ask", "send", "sent"}
         /\ loop.at \in {"send", "sent"} => loop.chat \in Chats
         /\ loop.at \in {"rest", "ask"} => loop.chat = NoChat
         /\ \A c : Out(c) \in BOOLEAN
BY DEF Types, Out

\* What becomes of a watched chat: its timer is forgotten, or set as its turn
\* ends; a debt is kept or excused, and excused when a delivery is not booked.
MoveOf(c) ==
  /\ timer'[c] = timer[c] \/ timer'[c] = Absent \/ timer'[c] \in NextFire(c)
  /\ timer'[c] # timer[c] => hold[c] = 0 \/ c \in forgot'
  /\ c \in forgot => c \in forgot'
  /\ owes'[c] = owes[c] \/ owes'[c] = Free
  /\ Out(c) => owes'[c] = Free \/ loop' = loop
  /\ ~bumped' /\ c \notin unbumped' =>
       \/ timer'[c] = Absent
       \/ ~bumped /\ (c \notin unbumped \/ timer'[c] \in NextFire(c))

Move ==
  /\ std' = std /\ last' = last /\ hold' = hold
  /\ \A c \in Chats : Times(cfg'[c]) = Times(cfg[c])
  /\ loop'.at = "sent" => loop' = loop
  /\ loop'.at = "send" => loop' = loop \/ timer'[loop'.chat] = 0
  /\ \A c \in Watched : MoveOf(c)

LEMMA MoveSpaced ==
  ASSUME Inv, Types', Move
  PROVE  Spaced'
<1>1. ASSUME NEW c \in Watched
      PROVE  Debt(owes'[c], last'[c], timer'[c], Out(c)', Lo(cfg'[c], std'))
  <2>1. c \in Chats /\ MoveOf(c)
    BY WatchedChats DEF Move
  <2>2. Lo(cfg'[c], std') = Lo(cfg[c], std) /\ last'[c] = last[c]
    BY <2>1, TimesSame DEF Move
  <2>3. CASE owes'[c] = Free
    BY <2>3, FreeDebt
  <2>4. CASE owes'[c] # Free
    <3>1. owes'[c] = owes[c] /\ (Out(c) => loop' = loop)
      BY <2>1, <2>4 DEF MoveOf
    <3>2. ~Out(c)' => ~Out(c)
      BY <3>1 DEF Out
    <3>3. Debt(owes[c], last[c], timer[c], Out(c), Lo(cfg[c], std))
      BY DEF Inv, Spaced
    <3>4. \/ timer'[c] = timer[c] \/ timer'[c] = Absent
          \/ last[c] # Never => Lo(cfg[c], std) <= timer'[c] + last[c]
      BY <2>1, NextFireOf DEF MoveOf, Inv
    <3>5. /\ owes[c] \in Rec /\ last[c] \in Ages /\ timer[c] \in 0 .. Absent
          /\ timer'[c] \in 0 .. Absent /\ cfg[c] \in Options /\ std \in Defaults
      BY <2>1 DEF Inv, Types
    <3>6. Lo(cfg[c], std) \in 0 .. Horizon
      BY <3>5, PausesOf, HorizonType
    <3>7. Out(c) \in BOOLEAN /\ Out(c)' \in BOOLEAN
      BY DEF Out
    <3>8. Debt(owes[c], last[c], timer'[c], Out(c)', Lo(cfg[c], std))
      BY <3>2, <3>3, <3>4, <3>5, <3>6, <3>7, DebtMoved
    <3> QED
      BY <2>2, <3>1, <3>8
  <2> QED
    BY <2>3, <2>4
<1>2. ASSUME NEW c \in Watched, loop'.at = "send", loop'.chat = c PROVE owes'[c] = Free
  <2>1. MoveOf(c)
    BY <1>2 DEF Move
  <2>2. CASE loop' = loop
    <3>1. owes[c] = Free
      BY <1>2, <2>2 DEF Inv, Spaced
    <3> QED
      BY <3>1, <2>1 DEF MoveOf
  <2>3. CASE timer'[c] = 0
    <3>1. Debt(owes'[c], last'[c], 0, Out(c)', Lo(cfg'[c], std')) /\ ~Out(c)'
      BY <1>1, <1>2, <2>3 DEF Out
    <3>2. owes'[c] \in Rec /\ 0 # Absent
      BY <1>2, HorizonType DEF Types, Absent
    <3>3. owes'[c] # Free => owes'[c].age < owes'[c].pause /\ owes'[c].pause <= 0 + owes'[c].age
      BY <3>1, <3>2 DEF Debt
    <3> QED
      BY <3>2, <3>3 DEF Rec
  <2> QED
    BY <1>2, <2>2, <2>3 DEF Move
<1> QED
  BY <1>1, <1>2 DEF Spaced

LEMMA MoveHeld ==
  ASSUME Inv, Types', Move
  PROVE  Held'
<1>1. ASSUME NEW c \in Watched, hold'[c] > 0, c \notin forgot'
      PROVE  timer'[c] # Absent /\ hold'[c] <= timer'[c]
  <2>1. MoveOf(c) /\ hold'[c] = hold[c] /\ hold[c] \in 0 .. Horizon
    BY DEF Move, Inv, Types
  <2>2. timer'[c] = timer[c] /\ c \notin forgot
    BY <1>1, <2>1 DEF MoveOf
  <2> QED
    BY <1>1, <2>1, <2>2 DEF Inv, Held, Absent
<1>2. ASSUME loop'.at \in {"send", "sent"}, loop'.chat \in Watched
      PROVE  hold'[loop'.chat] = 0 \/ loop'.chat \in forgot'
  <2>1. MoveOf(loop'.chat) /\ hold' = hold
    BY <1>2 DEF Move
  <2>2. CASE loop' = loop
    <3>1. hold[loop'.chat] = 0 \/ loop'.chat \in forgot
      BY <1>2, <2>2 DEF Inv, Held
    <3> QED
      BY <2>1, <3>1 DEF MoveOf
  <2>3. CASE timer'[loop'.chat] = 0
    <3>1. hold'[loop'.chat] \in 0 .. Horizon /\ Horizon \in Nat
      BY <1>2, HorizonType DEF Types
    <3> QED
      BY <1>1, <1>2, <2>3, <3>1
  <2> QED
    BY <1>2, <2>2, <2>3 DEF Move
<1> QED
  BY <1>1, <1>2, WatchedChats DEF Held, Absent

LEMMA MoveFollow ==
  ASSUME Inv, Types', Move
  PROVE  Follow'
<1> SUFFICES ASSUME ~bumped', NEW c \in Watched \ unbumped', timer'[c] # Absent
             PROVE  timer'[c] <= Longest(c)' \/ timer'[c] <= hold'[c]
  BY DEF Follow, Absent
<1>1. c \in Chats /\ MoveOf(c)
  BY WatchedChats DEF Move
<1>2. Longest(c)' = Longest(c)
  BY <1>1, LongestSame DEF Inv, Move
<1>3. ~bumped /\ (c \notin unbumped \/ timer'[c] \in NextFire(c))
  BY <1>1 DEF MoveOf
<1>4. CASE timer'[c] \in NextFire(c)
  <2>1. timer'[c] <= Longest(c)
    BY <1>1, <1>4, NextFireOf DEF Inv
  <2> QED
    BY <1>2, <2>1
<1>5. CASE c \notin unbumped /\ timer'[c] = timer[c]
  <2>1. timer[c] <= Longest(c) \/ timer[c] <= hold[c]
    BY <1>3, <1>5 DEF Inv, Follow
  <2> QED
    BY <1>2, <1>5, <2>1 DEF Move
<1> QED
  BY <1>1, <1>3, <1>4, <1>5 DEF MoveOf

LEMMA MoveKeeps ==
  ASSUME Inv, Types', Queued', Move
  PROVE  Inv' /\ Asked
BY MoveSpaced, MoveHeld, MoveFollow DEF Inv, Asked, Move

-----------------------------------------------------------------------------
(* The loop                                                                *)

LEMMA SleepType ==
  ASSUME Sleep
  PROVE  /\ loop' \in [at : {"rest", "ask"}, chat : {NoChat}] \cup [at : {"send", "sent"}, chat : Chats]
         /\ loop'.at = "rest"
BY DEF Sleep, At

LEMMA ExcusedOf ==
  ASSUME Types, NEW S, owes' = Excused(S)
  PROVE  /\ owes' \in [Watched -> Rec]
         /\ \A c \in Watched : owes'[c] = owes[c] \/ owes'[c] = Free
         /\ \A c \in Watched : c \in S => owes'[c] = Free
BY FreeRec DEF Excused, Types

\* The timers of all chats are forgotten.
LEMMA ForgetAllOf ==
  ASSUME Types, Queued, Forget(Chats)
  PROVE  /\ timer' \in [Chats -> 0 .. Absent] /\ Queued'
         /\ forgot' \subseteq Watched
         /\ \A c \in Watched : /\ timer'[c] = Absent /\ (c \in forgot => c \in forgot')
                               /\ hold[c] > 0 => c \in forgot'
BY ForgetOf, WatchedChats

LEMMA MoveAllForgotten ==
  ASSUME Types, Queued, Forget(Chats), loop'.at \in {"rest", "ask"},
         std' = std, last' = last, hold' = hold, owes' \in [Watched -> Rec],
         \A c \in Chats : Times(cfg'[c]) = Times(cfg[c]),
         \A c \in Watched : owes'[c] = owes[c] \/ owes'[c] = Free,
         \A c \in Watched : Out(c) => owes'[c] = Free
  PROVE  Move
<1>1. \A c \in Watched : /\ timer'[c] = Absent /\ (c \in forgot => c \in forgot')
                         /\ hold[c] > 0 => c \in forgot'
  BY ForgetAllOf
<1>2. ASSUME NEW c \in Watched PROVE hold[c] = 0 \/ c \in forgot'
  <2>1. hold[c] \in 0 .. Horizon /\ Horizon \in Nat
    BY HorizonType DEF Types
  <2> QED
    BY <1>1, <2>1
<1>3. ASSUME NEW c \in Watched PROVE MoveOf(c)
  BY <1>1, <1>2 DEF MoveOf
<1> QED
  BY <1>3 DEF Move

LEMMA WakeKeeps ==
  ASSUME Inv, Wake
  PROVE  Inv' /\ Asked
<1>1. Types /\ Queued
  BY DEF Inv
<1>2. /\ loop.at = "rest" /\ loop' = [at |-> "ask", chat |-> NoChat] /\ bumped' = FALSE
      /\ cfg' = cfg /\ std' = std /\ last' = last /\ running' = running /\ owes' = owes /\ hold' = hold
  BY DEF Wake, At, options
<1>3. loop' \in [at : {"rest", "ask"}, chat : {NoChat}] \cup [at : {"send", "sent"}, chat : Chats]
  BY <1>2
<1>4. \A c : ~Out(c)
  BY <1>2 DEF Out
<1>5. CASE bumped
  <2>1. Forget(Chats) /\ unbumped' = {}
    BY <1>5 DEF Wake
  <2>2. Types'
    BY <1>1, <1>2, <1>3, <2>1, ForgetAllOf DEF Types, Absent
  <2>3. Move
    BY <1>1, <1>2, <1>4, <2>1, MoveAllForgotten DEF Types
  <2>4. Queued'
    BY <1>1, <2>1, ForgetAllOf
  <2> QED
    BY <2>2, <2>3, <2>4, MoveKeeps
<1>6. CASE ~bumped
  <2>1. timer' = timer /\ queue' = queue /\ forgot' = forgot /\ unbumped' = unbumped
    BY <1>6 DEF Wake, timers
  <2>2. Types'
    BY <1>1, <1>2, <1>3, <2>1 DEF Types, Absent
  <2>3. Queued'
    BY <1>1, <2>1 DEF Queued, Due
  <2>4. Move
    BY <1>2, <1>4, <1>6, <2>1 DEF Move, MoveOf
  <2> QED
    BY <2>2, <2>3, <2>4, MoveKeeps
<1> QED
  BY <1>5, <1>6

LEMMA RestKeeps ==
  ASSUME Inv, Offline \/ Stopped
  PROVE  Inv' /\ Asked
<1>1. Types /\ Queued
  BY DEF Inv
<1>2. /\ loop.at = "ask" /\ Sleep /\ bumped' = bumped /\ Forget(Chats) /\ unbumped' = {}
      /\ cfg' = cfg /\ std' = std /\ last' = last /\ running' = running /\ owes' = owes /\ hold' = hold
  BY DEF Offline, Stopped, options
<1>3. \A c : ~Out(c)
  BY <1>2 DEF Out
<1>4. Types'
  BY <1>1, <1>2, ForgetAllOf, SleepType DEF Types, Absent
<1>5. Move
  BY <1>1, <1>2, <1>3, MoveAllForgotten, SleepType DEF Types
<1>6. Queued'
  BY <1>1, <1>2, ForgetAllOf
<1> QED
  BY <1>4, <1>5, <1>6, MoveKeeps

LEMMA ChooseKeeps ==
  ASSUME Inv, Choose
  PROVE  Inv' /\ Asked
<1>1. Types /\ Queued /\ Held
  BY DEF Inv
<1>2. /\ loop.at = "ask" /\ Fill /\ bumped' = bumped
      /\ IF queue' = <<>> THEN Sleep ELSE At("send", Head(queue'))
      /\ cfg' = cfg /\ std' = std /\ last' = last /\ running' = running /\ owes' = owes /\ hold' = hold
  BY DEF Choose, Chosen, options
<1>3. /\ timer' \in [Chats -> 0 .. Absent] /\ Queued'
      /\ \A x \in Chats : \/ timer'[x] = timer[x]
                          \/ timer'[x] = Absent /\ x \notin On
                          \/ timer[x] = Absent /\ timer'[x] \in NextFire(x)
      /\ forgot' \subseteq Watched /\ forgot \subseteq forgot'
      /\ \A x \in Watched \ On : hold[x] > 0 => x \in forgot'
      /\ unbumped' \subseteq Watched
      /\ \A x \in Watched \ unbumped' :
           x \notin unbumped \/ timer'[x] = Absent \/ timer'[x] \in NextFire(x)
  BY <1>1, <1>2, FillOf
<1>4. /\ loop' \in [at : {"rest", "ask"}, chat : {NoChat}] \cup [at : {"send", "sent"}, chat : Chats]
      /\ loop'.at # "sent"
      /\ loop'.at = "send" => timer'[loop'.chat] = 0
  <2>1. CASE queue' = <<>>
    BY <1>2, <2>1, SleepType
  <2>2. CASE queue' # <<>>
    <3>1. queue' \in Seq(Chats) /\ ToSet(queue') = Due'
      BY <1>3 DEF Queued, Ordered
    <3>2. Head(queue') = queue'[1] /\ 1 \in DOMAIN queue'
      BY <2>2, <3>1
    <3>3. Head(queue') \in Due'
      BY <3>1, <3>2 DEF ToSet
    <3>4. loop' = [at |-> "send", chat |-> Head(queue')]
      BY <1>2, <2>2 DEF At
    <3> QED
      BY <3>3, <3>4 DEF Due
  <2> QED
    BY <2>1, <2>2
<1>5. Types'
  BY <1>1, <1>2, <1>3, <1>4 DEF Types, Absent
<1>6. ASSUME NEW c \in Watched PROVE MoveOf(c)
  <2>1. c \in Chats /\ ~Out(c)
    BY <1>2, WatchedChats DEF Out
  <2>2. timer'[c] # timer[c] => hold[c] = 0 \/ c \in forgot'
    <3>1. hold[c] \in 0 .. Horizon /\ Horizon \in Nat
      BY <1>1, HorizonType DEF Types
    <3>2. hold[c] > 0 /\ c \notin forgot => timer[c] # Absent
      BY <1>1 DEF Held
    <3> QED
      BY <1>3, <2>1, <3>1, <3>2
  <2>3. timer'[c] = timer[c] \/ timer'[c] = Absent \/ timer'[c] \in NextFire(c)
    BY <1>3, <2>1
  <2> QED
    BY <1>2, <1>3, <2>1, <2>2, <2>3 DEF MoveOf
<1>7. Move
  BY <1>2, <1>4, <1>6 DEF Move
<1> QED
  BY <1>3, <1>5, <1>7, MoveKeeps

\* A turn ends with a new timer; the delivery, if any, is not booked and excused.
LEMMA RescheduleKeeps ==
  ASSUME Inv, loop.at \in {"send", "sent"}, Reschedule(loop.chat),
         cfg' = cfg, std' = std, last' = last, running' = running, bumped' = bumped,
         hold' = hold, forgot' = forgot, owes' = Excused(Lost)
  PROVE  Inv' /\ Asked
<1> DEFINE b == loop.chat
<1>1. Types /\ Queued /\ Held
  BY DEF Inv
<1>2. b \in Chats /\ Sleep /\ unbumped' = unbumped \ {b}
  BY <1>1, LoopTypes DEF Reschedule
<1>3. PICK n \in NextFire(b) : Set(b, n)
  BY DEF Reschedule
<1>4. n \in 0 .. Horizon
  BY <1>1, <1>2, <1>3, NextFireOf
<1>5. /\ timer' \in [Chats -> 0 .. Absent] /\ Queued'
      /\ timer'[b] = n /\ \A x \in Chats \ {b} : timer'[x] = timer[x]
  BY <1>1, <1>2, <1>3, <1>4, SetOf
<1>6. /\ owes' \in [Watched -> Rec]
      /\ \A c \in Watched : owes'[c] = owes[c] \/ owes'[c] = Free
      /\ \A c \in Watched : c \in Lost => owes'[c] = Free
  BY <1>1, ExcusedOf
<1>7. Types'
  BY <1>1, <1>2, <1>5, <1>6, SleepType DEF Types, Absent
<1>8. ASSUME NEW c \in Watched PROVE MoveOf(c)
  <2>1. c \in Chats /\ (Out(c) => c \in Lost)
    BY WatchedChats DEF Out, Lost
  <2>2. CASE c = b
    <3>1. hold[c] = 0 \/ c \in forgot
      BY <1>1, <2>2 DEF Held
    <3>2. timer'[c] \in NextFire(c)
      BY <1>3, <1>5, <2>2
    <3> QED
      BY <1>6, <2>1, <3>1, <3>2 DEF MoveOf
  <2>3. CASE c # b
    <3>1. timer'[c] = timer[c] /\ (c \in unbumped' <=> c \in unbumped)
      BY <1>2, <1>5, <2>1, <2>3
    <3> QED
      BY <1>6, <2>1, <3>1 DEF MoveOf
  <2> QED
    BY <2>2, <2>3
<1>9. Move
  BY <1>2, <1>8, SleepType DEF Move
<1> QED
  BY <1>5, <1>7, <1>9, MoveKeeps

LEMMA NothingToSendKeeps ==
  ASSUME Inv, NothingToSend
  PROVE  Inv' /\ Asked
<1>1. /\ loop.at = "send" /\ Reschedule(loop.chat) /\ bumped' = bumped
      /\ cfg' = cfg /\ std' = std /\ last' = last /\ running' = running /\ owes' = owes
      /\ hold' = hold /\ forgot' = forgot
  BY DEF NothingToSend, options, waits
<1>2. owes' = Excused(Lost)
  <2>1. Lost = {} /\ owes \in [Watched -> Rec]
    BY <1>1 DEF Lost, Inv, Types
  <2> QED
    BY <1>1, <2>1 DEF Excused
<1> QED
  BY <1>1, <1>2, RescheduleKeeps

LEMMA SendFailsKeeps ==
  ASSUME Inv, SendFails
  PROVE  Inv' /\ Asked
<1>1. /\ loop.at \in {"send", "sent"} /\ Reschedule(loop.chat) /\ bumped' = bumped
      /\ cfg' = cfg /\ std' = std /\ last' = last /\ running' = running /\ owes' = Excused(Lost)
      /\ hold' = hold /\ forgot' = forgot
  BY DEF SendFails, options, waits
<1> QED
  BY <1>1, RescheduleKeeps

LEMMA SwitchOff ==
  ASSUME Types, NEW c \in Chats, NEW b \in BOOLEAN, cfg' = [cfg EXCEPT ![c].on = b]
  PROVE  /\ cfg' \in [Chats -> Options]
         /\ \A x \in Chats : Times(cfg'[x]) = Times(cfg[x])
<1>1. cfg' = [cfg EXCEPT ![c] = [cfg[c] EXCEPT !.on = b]] /\ cfg[c] \in Options
  BY DEF Types
<1>2. [cfg[c] EXCEPT !.on = b] \in Options /\ Times([cfg[c] EXCEPT !.on = b]) = Times(cfg[c])
  BY <1>1 DEF Options, Times
<1> QED
  BY <1>1, <1>2 DEF Types

LEMMA BadPeerKeeps ==
  ASSUME Inv, BadPeer
  PROVE  Inv' /\ Asked
<1> DEFINE b == loop.chat
<1>1. Types /\ Queued
  BY DEF Inv
<1>2. /\ loop.at = "send" /\ Sleep /\ cfg' = [cfg EXCEPT ![b].on = FALSE]
      /\ Forget({b}) /\ unbumped' = unbumped \ {b} /\ bumped' = bumped
      /\ std' = std /\ last' = last /\ running' = running /\ owes' = owes /\ hold' = hold
  BY DEF BadPeer
<1>3. b \in Chats
  BY <1>1, <1>2, LoopTypes
<1>4. cfg' \in [Chats -> Options] /\ \A x \in Chats : Times(cfg'[x]) = Times(cfg[x])
  BY <1>1, <1>2, <1>3, SwitchOff
<1>5. /\ timer' \in [Chats -> 0 .. Absent] /\ Queued'
      /\ \A x \in Chats : timer'[x] = IF x \in {b} THEN Absent ELSE timer[x]
      /\ forgot' \subseteq Watched /\ forgot \subseteq forgot'
      /\ \A x \in {b} \cap Watched : hold[x] > 0 => x \in forgot'
  BY <1>1, <1>2, <1>3, ForgetOf
<1>6. Types'
  BY <1>1, <1>2, <1>4, <1>5, SleepType DEF Types, Absent
<1>7. ASSUME NEW c \in Watched PROVE MoveOf(c)
  <2>1. c \in Chats /\ ~Out(c)
    BY <1>2, WatchedChats DEF Out
  <2>2. hold[c] \in 0 .. Horizon /\ Horizon \in Nat
    BY <1>1, HorizonType DEF Types
  <2>3. timer'[c] # timer[c] => hold[c] = 0 \/ c \in forgot'
    BY <1>5, <2>1, <2>2
  <2> QED
    BY <1>2, <1>5, <2>1, <2>3 DEF MoveOf
<1>8. Move
  BY <1>2, <1>4, <1>7, SleepType DEF Move
<1> QED
  BY <1>5, <1>6, <1>8, MoveKeeps

-----------------------------------------------------------------------------
(* The loop is restarted                                                   *)

LEMMA RestartOf ==
  ASSUME Types, Queued, Restart
  PROVE  /\ Forget(Chats) /\ bumped' = TRUE /\ unbumped' = {}
         /\ loop' \in [at : {"rest", "ask"}, chat : {NoChat}] \cup [at : {"send", "sent"}, chat : Chats]
         /\ loop'.at = "rest"
         /\ timer' \in [Chats -> 0 .. Absent] /\ Queued' /\ forgot' \subseteq Watched
BY ForgetAllOf, SleepType DEF Restart

LEMMA RestartKeeps ==
  ASSUME Inv, StartSpam \/ Reboot
  PROVE  Inv' /\ Asked
<1>1. Types /\ Queued
  BY DEF Inv
<1>2. /\ Restart /\ owes' = Excused(Lost) /\ running' \in BOOLEAN
      /\ cfg' = cfg /\ std' = std /\ last' = last /\ hold' = hold
  BY DEF StartSpam, Reboot, options, Inv, Types
<1>3. /\ Forget(Chats) /\ bumped' = TRUE /\ unbumped' = {}
      /\ loop' \in [at : {"rest", "ask"}, chat : {NoChat}] \cup [at : {"send", "sent"}, chat : Chats]
      /\ loop'.at = "rest"
      /\ timer' \in [Chats -> 0 .. Absent] /\ Queued' /\ forgot' \subseteq Watched
  BY <1>1, <1>2, RestartOf
<1>4. /\ owes' \in [Watched -> Rec]
      /\ \A c \in Watched : owes'[c] = owes[c] \/ owes'[c] = Free
      /\ \A c \in Watched : c \in Lost => owes'[c] = Free
  BY <1>1, <1>2, ExcusedOf
<1>5. \A c \in Watched : Out(c) => c \in Lost
  BY DEF Out, Lost
<1>6. Types'
  BY <1>1, <1>2, <1>3, <1>4 DEF Types, Absent
<1>7. Move
  BY <1>1, <1>2, <1>3, <1>4, <1>5, MoveAllForgotten
<1> QED
  BY <1>3, <1>6, <1>7, MoveKeeps

LEMMA StandKeeps ==
  ASSUME Inv, StopSpam \/ UNCHANGED vars
  PROVE  Inv' /\ Asked
<1>1. /\ running' \in BOOLEAN /\ cfg' = cfg /\ std' = std /\ last' = last /\ bumped' = bumped
      /\ loop' = loop /\ timer' = timer /\ queue' = queue /\ owes' = owes /\ hold' = hold
      /\ forgot' = forgot /\ unbumped' = unbumped
  BY DEF StopSpam, vars, options, timers, waits, Inv, Types
<1>2. Types'
  BY <1>1 DEF Inv, Types, Absent
<1>3. Queued'
  BY <1>1 DEF Inv, Queued, Due
<1>4. Move
  BY <1>1 DEF Move, MoveOf
<1> QED
  BY <1>2, <1>3, <1>4, MoveKeeps

-----------------------------------------------------------------------------
(* Deliveries and waits                                                    *)

LEMMA DeliverKeeps ==
  ASSUME Inv, Deliver
  PROVE  Inv' /\ Asked
<1> DEFINE b == loop.chat
<1>1. Types /\ Queued /\ Spaced /\ Held /\ Follow
  BY DEF Inv
<1>2. /\ loop.at = "send" /\ loop' = [at |-> "sent", chat |-> b]
      /\ owes' = [c \in Watched |-> IF c = b THEN [age |-> 0, pause |-> Min(Pauses(cfg[c], std))]
                                   ELSE owes[c]]
      /\ cfg' = cfg /\ std' = std /\ last' = last /\ running' = running /\ bumped' = bumped
      /\ timer' = timer /\ queue' = queue /\ hold' = hold /\ forgot' = forgot /\ unbumped' = unbumped
  BY DEF Deliver, At, options, timers, waits
<1>3. b \in Chats
  BY <1>1, <1>2, LoopTypes
<1>4. Lo(cfg[b], std) \in 1 .. Horizon /\ Min(Pauses(cfg[b], std)) = Lo(cfg[b], std)
  BY <1>1, <1>3, PausesOf DEF Types
<1>5. [age |-> 0, pause |-> Lo(cfg[b], std)] \in Rec
  BY <1>4, HorizonType DEF Rec
<1>6. owes' \in [Watched -> Rec]
  BY <1>1, <1>2, <1>4, <1>5 DEF Types
<1>7. Types'
  BY <1>1, <1>2, <1>3, <1>6 DEF Types, Absent
<1>8. Queued'
  BY <1>1, <1>2 DEF Queued, Due
<1>9. ASSUME NEW c \in Watched
      PROVE  Debt(owes'[c], last'[c], timer'[c], Out(c)', Lo(cfg'[c], std'))
  <2>1. CASE c = b
    <3>1. owes'[c] = [age |-> 0, pause |-> Lo(cfg[c], std)]
      BY <1>2, <1>4, <2>1
    <3>2. Out(c)'
      BY <1>2, <2>1 DEF Out
    <3>3. owes'[c].age < owes'[c].pause /\ owes'[c].pause <= Lo(cfg'[c], std')
      BY <1>2, <1>4, <2>1, <3>1
    <3> QED
      BY <3>2, <3>3 DEF Debt
  <2>2. CASE c # b
    <3>1. owes'[c] = owes[c] /\ (Out(c)' <=> Out(c))
      BY <1>2, <2>2 DEF Out
    <3>2. Debt(owes[c], last[c], timer[c], Out(c), Lo(cfg[c], std))
      BY <1>1 DEF Spaced
    <3> QED
      BY <1>2, <3>1, <3>2 DEF Debt
  <2> QED
    BY <2>1, <2>2
<1>10. Spaced'
  BY <1>2, <1>9 DEF Spaced
<1>11. Held'
  BY <1>1, <1>2 DEF Held, Absent
<1>12. Follow'
  BY <1>1, <1>2 DEF Follow, Longest, Absent, Never
<1> QED
  BY <1>2, <1>7, <1>8, <1>10, <1>11, <1>12 DEF Inv, Asked

LEMMA BookedKeeps ==
  ASSUME Inv, Booked
  PROVE  Inv' /\ Asked
<1> DEFINE b == loop.chat
<1>1. Types /\ Queued /\ Spaced /\ Held /\ Follow
  BY DEF Inv
<1>2. /\ loop.at = "sent" /\ Sleep /\ last' = [last EXCEPT ![b] = 0] /\ unbumped' = unbumped \ {b}
      /\ cfg' = cfg /\ std' = std /\ running' = running /\ bumped' = bumped
      /\ owes' = owes /\ hold' = hold /\ forgot' = forgot
  BY DEF Booked, options, waits
<1>3. b \in Chats /\ cfg[b] \in Options /\ std \in Defaults /\ Horizon \in Nat
  BY <1>1, <1>2, LoopTypes, HorizonType DEF Types
<1>4. PICK n \in Pauses(cfg[b], std) : Set(b, n)
  BY DEF Booked
<1>5. /\ Lo(cfg[b], std) \in 1 .. Horizon /\ Hi(cfg[b], std) \in 1 .. Horizon
      /\ n \in Lo(cfg[b], std) .. Hi(cfg[b], std)
  BY <1>3, <1>4, PausesOf
<1>6. n \in 1 .. Horizon /\ n \in 0 .. Horizon
  BY <1>3, <1>5
<1>7. /\ timer' \in [Chats -> 0 .. Absent] /\ Queued'
      /\ timer'[b] = n /\ \A x \in Chats \ {b} : timer'[x] = timer[x]
  BY <1>1, <1>3, <1>4, <1>6, SetOf
<1>8. /\ last' \in [Chats -> Ages] /\ last'[b] = 0 /\ \A x \in Chats \ {b} : last'[x] = last[x]
  <2>1. 0 \in Ages
    BY <1>3 DEF Ages, Never
  <2> QED
    BY <1>1, <1>2, <1>3, <2>1 DEF Types
<1>9. Types'
  BY <1>1, <1>2, <1>7, <1>8, SleepType DEF Types, Absent, Ages, Never
<1>10. ASSUME NEW c \in Watched
       PROVE  Debt(owes'[c], last'[c], timer'[c], Out(c)', Lo(cfg'[c], std'))
  <2>1. c \in Chats /\ owes[c] \in Rec
    BY <1>1, WatchedChats DEF Types
  <2>2. Debt(owes[c], last[c], timer[c], Out(c), Lo(cfg[c], std))
    BY <1>1 DEF Spaced
  <2>3. CASE c = b
    <3>1. owes[c] # Free => owes[c].age < owes[c].pause /\ owes[c].pause <= Lo(cfg[c], std)
      BY <2>2 DEF Debt
    <3>2. owes[c].age \in 0 .. Horizon /\ owes[c].pause \in 0 .. Horizon
      BY <2>1 DEF Rec
    <3>3. owes[c] # Free => 0 <= owes[c].age /\ owes[c].pause <= n + owes[c].age
      BY <1>3, <1>5, <2>3, <3>1, <3>2
    <3> QED
      BY <1>2, <1>7, <1>8, <2>3, <3>1, <3>3 DEF Debt
  <2>4. CASE c # b
    <3>1. ~Out(c) /\ timer'[c] = timer[c] /\ last'[c] = last[c]
      BY <1>7, <1>8, <2>1, <2>4 DEF Out
    <3> QED
      BY <1>2, <2>2, <3>1 DEF Debt
  <2> QED
    BY <2>3, <2>4
<1>11. Spaced'
  BY <1>2, <1>10, SleepType DEF Spaced
<1>12. Held'
  <2>1. \A c \in Watched : hold[c] > 0 /\ c \notin forgot => c # b
    BY <1>1, <1>2 DEF Held
  <2>2. \A c \in Watched : hold[c] > 0 /\ c \notin forgot => timer'[c] # Absent /\ hold[c] <= timer'[c]
    BY <1>1, <1>7, <2>1, WatchedChats DEF Held
  <2> QED
    BY <1>2, <2>2, SleepType DEF Held, Absent
<1>13. ASSUME ~bumped', NEW c \in Watched \ unbumped', timer'[c] # Absent
       PROVE  timer'[c] <= Longest(c)' \/ timer'[c] <= hold'[c]
  <2>1. c \in Chats
    BY WatchedChats
  <2>2. CASE c = b
    <3>1. /\ cfg'[c].delay \in 0 .. Horizon
          /\ Longest(c)' = LET most == IF Hi(cfg'[c], std') >= cfg'[c].delay THEN Hi(cfg'[c], std')
                                       ELSE cfg'[c].delay
                           IN  IF last'[c] = Never THEN cfg'[c].delay
                               ELSE IF most > last'[c] THEN most - last'[c] ELSE 0
      <4>1. cfg'[c] \in Options /\ std' \in Defaults
        BY <1>2, <1>3, <2>2
      <4> QED
        BY <4>1, LongestIs, MostOf
    <3>2. last'[c] = 0 /\ Never # 0 /\ timer'[c] = n
      BY <1>3, <1>7, <1>8, <2>2 DEF Never
    <3> QED
      BY <1>2, <1>3, <1>5, <2>2, <3>1, <3>2
  <2>3. CASE c # b
    <3>1. timer'[c] = timer[c] /\ last'[c] = last[c] /\ c \notin unbumped
      BY <1>2, <1>7, <1>8, <2>1, <2>3
    <3>2. Longest(c)' = Longest(c)
      BY <1>1, <1>2, <1>9, <2>1, <3>1, LongestSame
    <3>3. timer[c] <= Longest(c) \/ timer[c] <= hold[c]
      BY <1>1, <1>2, <1>13, <3>1 DEF Follow, Absent
    <3> QED
      BY <1>2, <3>1, <3>2, <3>3
  <2> QED
    BY <2>2, <2>3
<1>14. Follow'
  BY <1>13 DEF Follow, Absent
<1> QED
  BY <1>2, <1>7, <1>9, <1>11, <1>12, <1>14 DEF Inv, Asked

LEMMA HeldBackKeeps ==
  ASSUME Inv, HeldBack
  PROVE  Inv' /\ Asked
<1> DEFINE b == loop.chat
<1>1. Types /\ Queued /\ Spaced /\ Held /\ Follow
  BY DEF Inv
<1>2. /\ loop.at = "send" /\ Sleep /\ forgot' = forgot \ {b}
      /\ cfg' = cfg /\ std' = std /\ last' = last /\ running' = running /\ bumped' = bumped
      /\ owes' = owes /\ unbumped' = unbumped
  BY DEF HeldBack, options
<1>3. PICK n \in Holds : Set(b, n) /\ hold' = [x \in Watched |-> IF x = b THEN n ELSE hold[x]]
  BY DEF HeldBack
<1>4. b \in Chats /\ n \in 1 .. Horizon /\ Horizon \in Nat
  BY <1>1, <1>2, LoopTypes, HorizonType
<1>5. n \in 0 .. Horizon
  BY <1>4
<1>6. /\ timer' \in [Chats -> 0 .. Absent] /\ Queued'
      /\ timer'[b] = n /\ \A x \in Chats \ {b} : timer'[x] = timer[x]
  BY <1>1, <1>3, <1>4, <1>5, SetOf
<1>7. hold' \in [Watched -> 0 .. Horizon]
  BY <1>1, <1>3, <1>5 DEF Types
<1>8. Types'
  BY <1>1, <1>2, <1>6, <1>7, SleepType DEF Types, Absent
<1>9. ASSUME NEW c \in Watched
      PROVE  /\ Debt(owes'[c], last'[c], timer'[c], Out(c)', Lo(cfg'[c], std'))
             /\ hold'[c] > 0 /\ c \notin forgot' => timer'[c] # Absent /\ hold'[c] <= timer'[c]
             /\ ~bumped' /\ c \notin unbumped' /\ timer'[c] # Absent =>
                  timer'[c] <= Longest(c)' \/ timer'[c] <= hold'[c]
  <2>1. c \in Chats
    BY WatchedChats
  <2>2. CASE c = b
    <3>1. owes'[c] = Free /\ timer'[c] = n /\ hold'[c] = n /\ n # Absent
      BY <1>1, <1>2, <1>3, <1>4, <1>6, <2>2 DEF Spaced, Absent
    <3> QED
      BY <1>4, <3>1, FreeDebt
  <2>3. CASE c # b
    <3>1. timer'[c] = timer[c] /\ hold'[c] = hold[c] /\ (c \in forgot' <=> c \in forgot) /\ ~Out(c) /\ ~Out(c)'
      BY <1>2, <1>3, <1>6, <2>1, <2>3, SleepType DEF Out
    <3>2. Debt(owes[c], last[c], timer[c], Out(c), Lo(cfg[c], std))
      BY <1>1 DEF Spaced
    <3>3. Longest(c)' = Longest(c)
      BY <1>1, <1>2, <1>8, <2>1, LongestSame
    <3>4. hold[c] > 0 /\ c \notin forgot => timer[c] # Absent /\ hold[c] <= timer[c]
      BY <1>1 DEF Held
    <3>5. ~bumped /\ c \notin unbumped /\ timer[c] # Absent => timer[c] <= Longest(c) \/ timer[c] <= hold[c]
      BY <1>1 DEF Follow
    <3>6. Debt(owes'[c], last'[c], timer'[c], Out(c)', Lo(cfg'[c], std'))
      BY <1>2, <3>1, <3>2 DEF Debt
    <3> QED
      BY <1>2, <3>1, <3>3, <3>4, <3>5, <3>6
  <2> QED
    BY <2>2, <2>3
<1>10. Spaced'
  BY <1>2, <1>9, SleepType DEF Spaced
<1>11. Held'
  BY <1>2, <1>9, SleepType DEF Held, Absent
<1>12. Follow'
  BY <1>9 DEF Follow, Absent
<1> QED
  BY <1>2, <1>6, <1>8, <1>10, <1>11, <1>12 DEF Inv, Asked

\* The age of the last send may drop to none: the debt is older still, and the
\* settings make a timer no shorter.
LEMMA MostAtZero ==
  ASSUME NEW x \in Options, NEW d \in Defaults, NEW age \in Ages
  PROVE  Most(x, d, age) <= Most(x, d, 0)
<1> DEFINE hi == Hi(x, d)
           first == x.delay
           most == IF hi >= first THEN hi ELSE first
<1>1. hi \in 1 .. Horizon /\ first \in 0 .. Horizon /\ Horizon \in Nat
  BY PausesOf, MostOf, HorizonType
<1>2. \A n \in Ages : Most(x, d, n) = IF n = Never THEN first ELSE IF most > n THEN most - n ELSE 0
  BY MostOf
<1>3. 0 \in Ages /\ 0 # Never /\ age \in 0 .. Horizon + 1
  BY <1>1 DEF Ages, Never
<1> HIDE DEF hi, first
<1>4. Most(x, d, 0) = most /\ most \in Nat /\ first <= most
  BY <1>1, <1>2, <1>3
<1> QED
  BY <1>1, <1>2, <1>3, <1>4

LEMMA OtherBookedKeeps ==
  ASSUME Inv, NEW b \in Chats, OtherBooked(b)
  PROVE  Inv' /\ Asked
<1>1. Types /\ Queued /\ Spaced /\ Held /\ Follow
  BY DEF Inv
<1>2. /\ last' = [last EXCEPT ![b] = 0] /\ loop' = loop /\ timer' = timer /\ queue' = queue
      /\ cfg' = cfg /\ std' = std /\ running' = running /\ bumped' = bumped
      /\ owes' = owes /\ hold' = hold /\ forgot' = forgot /\ unbumped' = unbumped
  BY DEF OtherBooked, options, timers, waits
<1>3. /\ last' \in [Chats -> Ages] /\ last'[b] = 0 /\ \A x \in Chats \ {b} : last'[x] = last[x]
  <2>1. 0 \in Ages
    BY HorizonType DEF Ages, Never
  <2> QED
    BY <1>1, <1>2, <2>1 DEF Types
<1>4. Types'
  BY <1>1, <1>2, <1>3 DEF Types, Absent, Ages, Never
<1>5. Queued'
  BY <1>1, <1>2 DEF Queued, Due
<1>6. ASSUME NEW c \in Watched
      PROVE  Debt(owes'[c], last'[c], timer'[c], Out(c)', Lo(cfg'[c], std'))
  <2>1. c \in Chats /\ owes[c] \in Rec /\ (Out(c)' <=> Out(c))
    BY <1>1, <1>2, WatchedChats DEF Types, Out
  <2>2. Debt(owes[c], last[c], timer[c], Out(c), Lo(cfg[c], std))
    BY <1>1 DEF Spaced
  <2>3. last'[c] = last[c] \/ last'[c] = 0
    BY <1>3, <2>1
  <2>4. 0 <= owes[c].age
    BY <2>1, HorizonType DEF Rec
  <2> QED
    BY <1>2, <2>1, <2>2, <2>3, <2>4 DEF Debt
<1>7. Spaced'
  BY <1>1, <1>2, <1>6 DEF Spaced
<1>8. Held'
  BY <1>1, <1>2 DEF Held, Absent
<1>9. ASSUME ~bumped', NEW c \in Watched \ unbumped', timer'[c] # Absent
      PROVE  timer'[c] <= Longest(c)' \/ timer'[c] <= hold'[c]
  <2>1. c \in Chats /\ timer[c] \in 0 .. Absent /\ cfg[c] \in Options /\ std \in Defaults /\ last[c] \in Ages
    BY <1>1, WatchedChats DEF Types
  <2>2. timer[c] <= Longest(c) \/ timer[c] <= hold[c]
    BY <1>1, <1>2, <1>9 DEF Follow
  <2>3. Longest(c) = Most(cfg[c], std, last[c]) /\ Longest(c)' = Most(cfg[c], std, last'[c])
    BY <1>2, LongestIs
  <2>4. last'[c] = last[c] \/ last'[c] = 0
    BY <1>3, <2>1
  <2>5. Most(cfg[c], std, last[c]) <= Most(cfg[c], std, 0)
    BY <2>1, MostAtZero
  <2>6. \A n \in Ages : Most(cfg[c], std, n) \in Nat
    <3>1. Hi(cfg[c], std) \in 1 .. Horizon /\ cfg[c].delay \in 0 .. Horizon /\ Horizon \in Nat
      BY <2>1, PausesOf, MostOf, HorizonType
    <3> DEFINE most == IF Hi(cfg[c], std) >= cfg[c].delay THEN Hi(cfg[c], std) ELSE cfg[c].delay
    <3>2. \A n \in Ages : Most(cfg[c], std, n)
                          = IF n = Never THEN cfg[c].delay ELSE IF most > n THEN most - n ELSE 0
      BY <2>1, MostOf
    <3>3. most \in Nat /\ cfg[c].delay \in Nat
      BY <3>1
    <3> HIDE DEF most
    <3> QED
      BY <3>1, <3>2, <3>3 DEF Ages, Never
  <2>7. Longest(c) <= Longest(c)'
    <3>1. last'[c] \in Ages
      BY <1>3, <2>1
    <3> QED
      BY <2>1, <2>3, <2>4, <2>5, <2>6, <3>1
  <2>8. Longest(c) \in Nat /\ Longest(c)' \in Nat /\ timer[c] \in Nat
    BY <1>3, <2>1, <2>3, <2>6, HorizonType DEF Absent
  <2> QED
    BY <1>2, <2>2, <2>7, <2>8
<1>10. Follow'
  BY <1>9 DEF Follow, Absent
<1> QED
  BY <1>2, <1>4, <1>5, <1>7, <1>8, <1>10 DEF Inv, Asked

-----------------------------------------------------------------------------
(* Time                                                                    *)

LEMMA KeptOf ==
  ASSUME NEW o, o.age \in Nat, o.pause \in 0 .. Horizon, o \in [age : Nat, pause : Nat]
  PROVE  /\ Kept(o) \in Rec
         /\ Kept(o) = Free \/ (Kept(o) = o /\ o.age < o.pause)
<1>1. Horizon \in Nat
  BY HorizonType
<1>2. CASE o.age >= o.pause
  BY <1>2, FreeRec DEF Kept
<1>3. CASE ~(o.age >= o.pause)
  <2>1. Kept(o) = o /\ o.age < o.pause /\ o.age \in 0 .. Horizon
    BY <1>1, <1>3 DEF Kept
  <2> QED
    BY <2>1 DEF Rec
<1> QED
  BY <1>2, <1>3

LEMMA MostOlder ==
  ASSUME NEW x \in Options, NEW d \in Defaults, NEW age \in Ages
  PROVE  Most(x, d, age) - 1 <= Most(x, d, Older(age)) /\ Most(x, d, Older(age)) \in Nat
         /\ Most(x, d, age) \in Nat
<1> DEFINE hi == Hi(x, d)
           first == x.delay
           most == IF hi >= first THEN hi ELSE first
<1>1. hi \in 1 .. Horizon /\ first \in 0 .. Horizon /\ Horizon \in Nat
  BY PausesOf, MostOf, HorizonType
<1>2. \A n \in Ages : Most(x, d, n) = IF n = Never THEN first ELSE IF most > n THEN most - n ELSE 0
  BY MostOf
<1>3. Older(age) \in Ages /\ age \in 0 .. Horizon + 1
  BY <1>1 DEF Ages, Never, Older
<1> HIDE DEF hi, first
<1>4. most \in 0 .. Horizon
  BY <1>1
<1> HIDE DEF most
<1>5. CASE age = Never
  <2>1. Older(age) = Never
    BY <1>1, <1>5 DEF Never, Older
  <2> QED
    BY <1>1, <1>2, <1>3, <1>5, <2>1
<1>6. CASE age = Horizon
  <2>1. Older(age) = age /\ age # Never
    BY <1>1, <1>6 DEF Never, Older
  <2> QED
    BY <1>1, <1>2, <1>3, <1>4, <1>6, <2>1
<1>7. CASE age < Horizon
  <2>1. Older(age) = age + 1 /\ age # Never /\ age + 1 # Never
    BY <1>1, <1>3, <1>7 DEF Never, Older
  <2> QED
    BY <1>1, <1>2, <1>3, <1>4, <1>7, <2>1
<1> QED
  BY <1>1, <1>3, <1>5, <1>6, <1>7 DEF Never

\* A minute less of the timer, a minute more of the debt.
LEMMA DebtAges ==
  ASSUME NEW o \in Rec, NEW age \in Ages, NEW left \in 0 .. Absent, NEW out \in BOOLEAN,
         NEW least \in 0 .. Horizon, Debt(o, age, left, out, least),
         NEW older, older = [o EXCEPT !.age = @ + 1]
  PROVE  /\ Kept(older) \in Rec
         /\ Debt(Kept(older), Older(age), IF left \in 1 .. Horizon THEN left - 1 ELSE left, out, least)
<1>1. o.age \in 0 .. Horizon /\ o.pause \in 0 .. Horizon /\ Horizon \in Nat
  BY HorizonType DEF Rec
<1>2. /\ older.age = o.age + 1 /\ older.pause = o.pause
      /\ older.age \in Nat /\ older \in [age : Nat, pause : Nat]
  BY <1>1 DEF Rec
<1>3. /\ Kept(older) \in Rec
      /\ Kept(older) = Free \/ (Kept(older) = older /\ older.age < older.pause)
  BY <1>1, <1>2, KeptOf
<1>4. CASE Kept(older) = Free
  BY <1>3, <1>4, FreeDebt
<1>5. CASE Kept(older) = older /\ older.age < older.pause
  <2>1. o # Free
    BY <1>1, <1>2, <1>5 DEF Free
  <2>2. /\ o.pause <= least
        /\ ~out => age <= o.age /\ (left # Absent => o.pause <= left + o.age)
    BY <2>1 DEF Debt
  <2> DEFINE left2 == IF left \in 1 .. Horizon THEN left - 1 ELSE left
  <2>3. ASSUME ~out PROVE Older(age) <= older.age /\ (left2 # Absent => older.pause <= left2 + older.age)
    <3>1. age \in 0 .. Horizon + 1 /\ left \in 0 .. Horizon + 1
      BY DEF Ages, Never, Absent
    <3>2. age <= o.age /\ (left # Absent => o.pause <= left + o.age)
      BY <2>2, <2>3
    <3>3. Older(age) <= older.age
      BY <1>1, <1>2, <3>1, <3>2 DEF Older
    <3>4. CASE left \in 1 .. Horizon
      <4>1. left2 = left - 1 /\ left # Absent
        BY <1>1, <3>4 DEF Absent
      <4>2. left2 + older.age = left + o.age
        BY <1>1, <1>2, <3>1, <4>1
      <4> QED
        BY <1>2, <3>2, <3>3, <4>1, <4>2
    <3>5. CASE left \notin 1 .. Horizon
      <4>1. left = 0 \/ left = Absent
        BY <1>1, <3>1, <3>5 DEF Absent
      <4>2. CASE left = Absent
        BY <3>3, <3>5, <4>2
      <4>3. CASE left = 0
        <5>1. 0 # Absent
          BY <1>1 DEF Absent
        <5>2. o.pause <= 0 + o.age
          BY <3>2, <4>3, <5>1
        <5> QED
          BY <1>1, <1>2, <1>5, <3>3, <5>2
      <4> QED
        BY <4>1, <4>2, <4>3
    <3> QED
      BY <3>3, <3>4, <3>5
  <2> QED
    BY <1>2, <1>3, <1>5, <2>2, <2>3 DEF Debt
<1> QED
  BY <1>3, <1>4, <1>5

LEMMA TickKeeps ==
  ASSUME Inv, Tick
  PROVE  Inv' /\ Asked
<1>1. Types /\ Queued /\ Spaced /\ Held /\ Follow
  BY DEF Inv
<1>2. /\ timer' = [c \in Chats |-> IF timer[c] \in 1 .. Horizon THEN timer[c] - 1 ELSE timer[c]]
      /\ hold' = [c \in Watched |-> IF hold[c] > 0 THEN hold[c] - 1 ELSE 0]
      /\ last' = [c \in Chats |-> Older(last[c])]
      /\ owes' = [c \in Watched |-> Kept([owes[c] EXCEPT !.age = @ + 1])]
      /\ forgot' = {c \in forgot : hold'[c] > 0}
      /\ \E late \in SetToSeqs({c \in Chats : timer[c] = 1}) : queue' = queue \o late
      /\ cfg' = cfg /\ std' = std /\ running' = running /\ bumped' = bumped
      /\ loop' = loop /\ unbumped' = unbumped
  BY DEF Tick, options
<1>3. Horizon \in Nat /\ Horizon > 0
  BY HorizonType
<1>4. timer' \in [Chats -> 0 .. Absent]
  <2>1. \A c \in Chats : (IF timer[c] \in 1 .. Horizon THEN timer[c] - 1 ELSE timer[c]) \in 0 .. Absent
    BY <1>1, <1>3 DEF Types, Absent
  <2> QED
    BY <1>2, <2>1
<1>5. hold' \in [Watched -> 0 .. Horizon]
  <2>1. \A c \in Watched : (IF hold[c] > 0 THEN hold[c] - 1 ELSE 0) \in 0 .. Horizon
    BY <1>1, <1>3 DEF Types
  <2> QED
    BY <1>2, <2>1
<1>6. last' \in [Chats -> Ages]
  <2>1. \A c \in Chats : Older(last[c]) \in Ages
    BY <1>1, <1>3 DEF Types, Older, Ages, Never
  <2> QED
    BY <1>2, <2>1
<1>7. ASSUME NEW c \in Watched
      PROVE  /\ owes'[c] \in Rec
             /\ Debt(owes'[c], last'[c], timer'[c], Out(c)', Lo(cfg'[c], std'))
  <2>1. /\ c \in Chats /\ owes[c] \in Rec /\ last[c] \in Ages /\ timer[c] \in 0 .. Absent
        /\ cfg[c] \in Options /\ std \in Defaults
    BY <1>1, WatchedChats DEF Types
  <2>2. Lo(cfg[c], std) \in 0 .. Horizon
    BY <2>1, PausesOf, HorizonType
  <2>3. Debt(owes[c], last[c], timer[c], Out(c), Lo(cfg[c], std))
    BY <1>1 DEF Spaced
  <2>4. (Out(c)' <=> Out(c)) /\ Out(c) \in BOOLEAN
    BY <1>2 DEF Out
  <2> DEFINE older == [owes[c] EXCEPT !.age = @ + 1]
             left == IF timer[c] \in 1 .. Horizon THEN timer[c] - 1 ELSE timer[c]
  <2>5. /\ Kept(older) \in Rec
        /\ Debt(Kept(older), Older(last[c]), left, Out(c), Lo(cfg[c], std))
    BY <2>1, <2>2, <2>3, <2>4, DebtAges
  <2>6. owes'[c] = Kept(older) /\ last'[c] = Older(last[c]) /\ timer'[c] = left
    BY <1>2, <2>1
  <2> HIDE DEF older, left
  <2> QED
    BY <1>2, <2>4, <2>5, <2>6 DEF Debt
<1>8. owes' \in [Watched -> Rec]
  BY <1>2, <1>7
<1>9. Types'
  <2>1. Ages' = Ages /\ Absent' = Absent
    BY DEF Ages, Never, Absent
  <2> QED
    BY <1>1, <1>2, <1>4, <1>5, <1>6, <1>8, <2>1 DEF Types
<1>10. Queued'
  <2> DEFINE new == {c \in Chats : timer[c] = 1}
  <2>1. PICK late \in SetToSeqs(new) : queue' = queue \o late
    BY <1>2
  <2>2. IsFiniteSet(new) /\ new \subseteq Chats
    BY WatchedChats, FS_Subset
  <2>3. Due' = Due \cup new /\ Due \cap new = {}
    <3>1. \A c \in Chats : timer'[c] = 0 <=> timer[c] = 0 \/ timer[c] = 1
      BY <1>1, <1>2, <1>3 DEF Types, Absent
    <3> QED
      BY <3>1 DEF Due
  <2> HIDE DEF new
  <2>4. late \in Seq(new) /\ Ordered(late, new)
    BY <2>1, <2>2, SetToSeqsOf
  <2>5. late \in Seq(Chats)
    BY <2>2, <2>4
  <2>6. queue' \in Seq(Chats) /\ Ordered(queue', Due \cup new)
    BY <1>1, <2>1, <2>3, <2>4, <2>5, OrderedConcat DEF Queued
  <2> QED
    BY <2>3, <2>6 DEF Queued
<1>11. Spaced'
  <2>1. ASSUME loop'.at = "send", loop'.chat \in Watched PROVE owes'[loop'.chat] = Free
    <3> DEFINE c == loop.chat
               older == [owes[c] EXCEPT !.age = @ + 1]
    <3>1. c \in Watched /\ owes[c] = Free
      BY <1>1, <1>2, <2>1 DEF Spaced
    <3>2. older.age = 1 /\ older.pause = 0
      BY <3>1 DEF Free
    <3>3. owes'[c] = Kept(older)
      BY <1>2, <3>1
    <3> HIDE DEF older
    <3>4. Kept(older) = Free
      BY <3>2 DEF Kept
    <3> QED
      BY <1>2, <3>3, <3>4
  <2> QED
    BY <1>7, <2>1 DEF Spaced
<1>12. ASSUME NEW c \in Watched, hold'[c] > 0, c \notin forgot'
       PROVE  timer'[c] # Absent /\ hold'[c] <= timer'[c]
  <2>1. c \in Chats /\ hold[c] \in 0 .. Horizon /\ timer[c] \in 0 .. Absent
    BY <1>1, WatchedChats DEF Types
  <2>2. hold[c] > 0 /\ hold'[c] = hold[c] - 1 /\ c \notin forgot
    BY <1>2, <1>3, <1>12, <2>1
  <2>3. timer[c] # Absent /\ hold[c] <= timer[c]
    BY <1>1, <2>2 DEF Held
  <2>4. timer[c] \in 1 .. Horizon
    BY <1>3, <2>1, <2>2, <2>3 DEF Absent
  <2>5. timer'[c] = timer[c] - 1
    BY <1>2, <2>1, <2>4
  <2> QED
    BY <1>3, <2>1, <2>2, <2>3, <2>4, <2>5 DEF Absent
<1>13. Held'
  <2>1. ASSUME loop'.at \in {"send", "sent"}, loop'.chat \in Watched
        PROVE  hold'[loop'.chat] = 0 \/ loop'.chat \in forgot'
    <3>1. hold[loop.chat] = 0 \/ loop.chat \in forgot
      BY <1>1, <1>2, <2>1 DEF Held
    <3>2. hold'[loop.chat] \in 0 .. Horizon
      BY <1>2, <1>5, <2>1
    <3>3. hold[loop.chat] = 0 => hold'[loop.chat] = 0
      BY <1>2, <2>1
    <3>4. hold'[loop.chat] = 0 \/ hold'[loop.chat] > 0
      BY <1>3, <3>2
    <3>5. loop.chat \in forgot /\ hold'[loop.chat] > 0 => loop.chat \in forgot'
      BY <1>2
    <3> QED
      BY <1>2, <3>1, <3>3, <3>4, <3>5, Zenon
  <2>2. Absent' = Absent
    BY DEF Absent
  <2> QED
    BY <1>12, <2>1, <2>2 DEF Held
<1>14. ASSUME ~bumped', NEW c \in Watched \ unbumped', timer'[c] # Absent
       PROVE  timer'[c] <= Longest(c)' \/ timer'[c] <= hold'[c]
  <2>1. /\ c \in Chats /\ timer[c] \in 0 .. Absent /\ cfg[c] \in Options /\ std \in Defaults
        /\ last[c] \in Ages /\ hold[c] \in 0 .. Horizon
    BY <1>1, WatchedChats DEF Types
  <2>2. timer'[c] = (IF timer[c] \in 1 .. Horizon THEN timer[c] - 1 ELSE timer[c])
        /\ hold'[c] = IF hold[c] > 0 THEN hold[c] - 1 ELSE 0
    BY <1>2, <2>1
  <2>3. timer[c] \in 0 .. Horizon
    BY <1>3, <1>14, <2>1, <2>2 DEF Absent
  <2>4. timer[c] <= Longest(c) \/ timer[c] <= hold[c]
    BY <1>1, <1>2, <1>3, <1>14, <2>3 DEF Follow, Absent
  <2>5. Longest(c) = Most(cfg[c], std, last[c]) /\ Longest(c)' = Most(cfg[c], std, Older(last[c]))
    BY <1>2, <2>1, LongestIs
  <2>6. Longest(c) - 1 <= Longest(c)' /\ Longest(c)' \in Nat /\ Longest(c) \in Nat
    BY <2>1, <2>5, MostOlder
  <2>7. CASE timer[c] <= Longest(c)
    BY <1>3, <2>2, <2>3, <2>6, <2>7
  <2>8. CASE timer[c] <= hold[c]
    BY <1>3, <2>1, <2>2, <2>3, <2>8
  <2> QED
    BY <2>4, <2>7, <2>8
<1>15. Follow'
  <2>1. Absent' = Absent
    BY DEF Absent
  <2> QED
    BY <1>14, <2>1 DEF Follow
<1> QED
  BY <1>2, <1>9, <1>10, <1>11, <1>13, <1>15 DEF Inv, Asked

-----------------------------------------------------------------------------
(* The settings                                                            *)

\* New settings excuse a debt, or keep it with a pause as short as they allow.
LEMMA BecomeOf ==
  ASSUME Types, NEW f \in [Chats -> Options], NEW d \in Defaults, NEW S, Become(f, d, S),
         NEW c \in Watched
  PROVE  /\ cfg' = f /\ std' = d /\ owes'[c] \in Rec
         /\ owes[c] = Free \/ c \in S => owes'[c] = Free
         /\ \/ owes'[c] = Free
            \/ /\ owes[c] # Free /\ owes'[c].age = owes[c].age /\ owes'[c].age < owes'[c].pause
               /\ owes'[c].pause <= owes[c].pause /\ owes'[c].pause <= Lo(f[c], d)
<1>1. c \in Chats /\ f[c] \in Options /\ owes[c] \in Rec
  BY WatchedChats DEF Types
<1> DEFINE o == owes[c]
           lo == Lo(f[c], d)
           new == [o EXCEPT !.pause = Min({@, Min(Pauses(f[c], d))})]
           less == IF o.pause <= lo THEN o.pause ELSE lo
<1>2. lo \in 1 .. Horizon /\ Min(Pauses(f[c], d)) = lo /\ Horizon \in Nat
  BY <1>1, PausesOf, HorizonType
<1>3. o.age \in 0 .. Horizon /\ o.pause \in 0 .. Horizon
  BY <1>1 DEF Rec
<1>4. Min({o.pause, lo}) = less
  <2>1. o.pause \in Nat /\ lo \in Nat
    BY <1>2, <1>3
  <2> HIDE DEF lo, o
  <2> QED
    BY <2>1, PairMinMax
<1>5. new = [o EXCEPT !.pause = less]
  BY <1>2, <1>4
<1> HIDE DEF lo
<1>6. less \in 0 .. Horizon /\ less <= o.pause /\ less <= lo
  BY <1>2, <1>3
<1> HIDE DEF less
<1>7. new.age = o.age /\ new.pause = less /\ new \in [age : Nat, pause : Nat] /\ new.age \in Nat
  <2>1. o.age \in Nat /\ less \in Nat
    BY <1>2, <1>3, <1>6
  <2> QED
    BY <1>1, <1>5, <2>1 DEF Rec
<1> HIDE DEF new
<1>8. Kept(new) \in Rec /\ (Kept(new) = Free \/ (Kept(new) = new /\ new.age < new.pause))
  BY <1>6, <1>7, KeptOf
<1>9. owes'[c] = IF c \in S THEN Free ELSE Kept(new)
  BY DEF Become, new
<1>10. o = Free => Kept(new) = Free
  <2> SUFFICES ASSUME o = Free PROVE Kept(new) = Free
    OBVIOUS
  <2>1. o.age = 0 /\ o.pause = 0
    BY DEF Free
  <2>2. new.age = 0 /\ new.pause = 0
    BY <1>2, <1>6, <1>7, <2>1
  <2> QED
    BY <2>2 DEF Kept
<1>11. cfg' = f /\ std' = d
  BY DEF Become
<1>12. owes'[c] \in Rec
  BY <1>8, <1>9, FreeRec
<1>13. o = Free \/ c \in S => owes'[c] = Free
  BY <1>9, <1>10
<1>14. owes'[c] # Free => /\ o # Free /\ owes'[c].age = o.age /\ owes'[c].age < owes'[c].pause
                          /\ owes'[c].pause <= o.pause /\ owes'[c].pause <= lo
  BY <1>6, <1>7, <1>8, <1>9, <1>13
<1> QED
  BY <1>11, <1>12, <1>13, <1>14 DEF lo

LEMMA BecomeTypes ==
  ASSUME Types, NEW f \in [Chats -> Options], NEW d \in Defaults, NEW S, Become(f, d, S)
  PROVE  cfg' = f /\ std' = d /\ owes' \in [Watched -> Rec]
<1>1. cfg' = f /\ std' = d
  BY DEF Become
<1>2. \A c \in Watched : owes'[c] \in Rec
  BY BecomeOf
<1>3. owes' = [c \in Watched |-> owes'[c]]
  BY Zenon DEF Become
<1> QED
  BY <1>1, <1>2, <1>3

\* What becomes of a watched chat, as its settings become x and d.
SettleOf(c, x, d, S) ==
  /\ last'[c] = last[c] \/ c \in S
  /\ timer'[c] = timer[c] \/ timer'[c] = Absent
  /\ timer'[c] # timer[c] => hold[c] = 0 \/ c \in forgot'
  /\ c \in forgot => c \in forgot'
  /\ Out(c) => c \in S \/ loop' = loop
  /\ ~bumped' /\ c \notin unbumped' =>
       \/ timer'[c] = Absent
       \/ /\ ~bumped /\ c \notin unbumped /\ last'[c] = last[c]
          /\ Times(x) = Times(cfg[c]) /\ d.len = std.len /\ d.jit = std.jit

LEMMA SettleKeeps ==
  ASSUME Inv, NEW f \in [Chats -> Options], NEW d \in Defaults, NEW S, Become(f, d, S),
         Types', Queued', hold' = hold, loop' = loop \/ loop'.at = "rest",
         \A c \in Watched : SettleOf(c, f[c], d, S)
  PROVE  Inv' /\ Asked
<1>1. Types /\ Queued /\ Spaced /\ Held /\ Follow
  BY DEF Inv
<1>2. ASSUME NEW c \in Watched
      PROVE  Debt(owes'[c], last'[c], timer'[c], Out(c)', Lo(cfg'[c], std'))
  <2>1. SettleOf(c, f[c], d, S)
    OBVIOUS
  <2>2. /\ cfg' = f /\ std' = d /\ owes'[c] \in Rec
        /\ owes[c] = Free \/ c \in S => owes'[c] = Free
        /\ \/ owes'[c] = Free
           \/ /\ owes[c] # Free /\ owes'[c].age = owes[c].age /\ owes'[c].age < owes'[c].pause
              /\ owes'[c].pause <= owes[c].pause /\ owes'[c].pause <= Lo(f[c], d)
    BY <1>1, BecomeOf
  <2>3. CASE owes'[c] = Free
    BY <2>3, FreeDebt
  <2>4. CASE owes'[c] # Free
    <3>1. Debt(owes[c], last[c], timer[c], Out(c), Lo(cfg[c], std))
      BY <1>1 DEF Spaced
    <3>2. last'[c] = last[c] /\ (Out(c) => Out(c)')
      BY <2>1, <2>2, <2>4 DEF SettleOf, Out
    <3>3. ~Out(c)' => /\ last[c] <= owes[c].age
                      /\ timer[c] # Absent => owes[c].pause <= timer[c] + owes[c].age
      BY <2>2, <2>4, <3>1, <3>2 DEF Debt
    <3>4. ASSUME ~Out(c)', timer'[c] # Absent PROVE owes'[c].pause <= timer'[c] + owes'[c].age
      <4>1. timer'[c] = timer[c] /\ c \in Chats
        BY <2>1, <3>4, WatchedChats DEF SettleOf
      <4>2. /\ owes[c].pause <= timer[c] + owes[c].age
            /\ owes'[c].pause <= owes[c].pause /\ owes'[c].age = owes[c].age
        BY <2>2, <2>4, <3>3, <3>4, <4>1
      <4>3. /\ owes[c].pause \in Nat /\ owes'[c].pause \in Nat /\ owes[c].age \in Nat /\ timer[c] \in Nat
        BY <1>1, <2>2, <4>1, HorizonType DEF Types, Rec, Absent
      <4> QED
        BY <4>1, <4>2, <4>3
    <3> QED
      BY <2>2, <2>4, <3>2, <3>3, <3>4 DEF Debt
  <2> QED
    BY <2>3, <2>4
<1>3. Spaced'
  <2>1. ASSUME loop'.at = "send", loop'.chat \in Watched PROVE owes'[loop'.chat] = Free
    <3>1. owes[loop'.chat] = Free
      BY <1>1, <2>1 DEF Spaced
    <3> QED
      BY <1>1, <2>1, <3>1, BecomeOf
  <2> QED
    BY <1>2, <2>1 DEF Spaced
<1>4. ASSUME NEW c \in Watched, hold'[c] > 0, c \notin forgot'
      PROVE  timer'[c] # Absent /\ hold'[c] <= timer'[c]
  <2>1. SettleOf(c, f[c], d, S) /\ hold[c] \in 0 .. Horizon /\ Horizon \in Nat
    BY <1>1, HorizonType DEF Types
  <2>2. timer'[c] = timer[c] /\ c \notin forgot
    BY <1>4, <2>1 DEF SettleOf
  <2> QED
    BY <1>1, <1>4, <2>2 DEF Held
<1>5. Held'
  <2>1. ASSUME loop'.at \in {"send", "sent"}, loop'.chat \in Watched
        PROVE  hold'[loop'.chat] = 0 \/ loop'.chat \in forgot'
    <3>1. loop' = loop /\ (hold[loop.chat] = 0 \/ loop.chat \in forgot)
      BY <1>1, <2>1 DEF Held
    <3>2. SettleOf(loop.chat, f[loop.chat], d, S)
      BY <2>1, <3>1
    <3> QED
      BY <3>1, <3>2 DEF SettleOf
  <2> QED
    BY <1>4, <2>1 DEF Held, Absent
<1>6. ASSUME ~bumped', NEW c \in Watched \ unbumped', timer'[c] # Absent
      PROVE  timer'[c] <= Longest(c)' \/ timer'[c] <= hold'[c]
  <2>1. c \in Chats /\ SettleOf(c, f[c], d, S) /\ cfg' = f /\ std' = d
    BY <1>1, WatchedChats, BecomeTypes
  <2>2. /\ ~bumped /\ c \notin unbumped /\ last'[c] = last[c] /\ timer'[c] = timer[c]
        /\ Times(f[c]) = Times(cfg[c]) /\ d.len = std.len /\ d.jit = std.jit
    BY <1>6, <2>1 DEF SettleOf
  <2>3. Longest(c)' = Longest(c)
    BY <1>1, <2>1, <2>2, LongestSame
  <2>4. timer[c] <= Longest(c) \/ timer[c] <= hold[c]
    BY <1>1, <1>6, <2>2 DEF Follow
  <2> QED
    BY <2>2, <2>3, <2>4
<1>7. Follow'
  BY <1>6 DEF Follow, Absent
<1> QED
  BY <1>3, <1>5, <1>7 DEF Inv, Asked

LEMMA ByBotKeeps ==
  ASSUME Inv, NEW f \in [Chats -> Options], NEW d \in Defaults, ByBot(f, d)
  PROVE  Inv' /\ Asked
<1>1. Types /\ Queued
  BY DEF Inv
<1>2. /\ Become(f, d, {}) /\ unbumped' = unbumped \cup (Watched \cap Changed(f, d))
      /\ last' = last /\ running' = running /\ bumped' = bumped /\ loop' = loop
      /\ timer' = timer /\ queue' = queue /\ hold' = hold /\ forgot' = forgot
  BY DEF ByBot, timers, waits
<1>3. cfg' = f /\ std' = d /\ owes' \in [Watched -> Rec]
  BY <1>1, <1>2, BecomeTypes
<1>4. Types'
  BY <1>1, <1>2, <1>3 DEF Types, Absent, Ages, Never
<1>5. Queued'
  BY <1>1, <1>2 DEF Queued, Due
<1>6. ASSUME NEW c \in Watched PROVE SettleOf(c, f[c], d, {})
  <2>1. c \notin unbumped' => /\ c \notin unbumped /\ Times(f[c]) = Times(cfg[c])
                              /\ d.len = std.len /\ d.jit = std.jit
    BY <1>2, WatchedChats DEF Changed
  <2> QED
    BY <1>2, <2>1 DEF SettleOf
<1> QED
  BY <1>2, <1>4, <1>5, <1>6, SettleKeeps

\* The API: the loop goes on, with a new interval_seq when a time has changed ...
LEMMA ByApiKeeps ==
  ASSUME Inv, NEW f \in [Chats -> Options], NEW d \in Defaults, NEW b \in BOOLEAN,
         Become(f, d, {}), Untouched, bumped' = (bumped \/ b), unbumped' = unbumped,
         last' = last, running' = running, hold' = hold,
         \A c \in Chats : Times(f[c]) = Times(cfg[c]) \/ b,
         (d.len = std.len /\ d.jit = std.jit) \/ b
  PROVE  Inv' /\ Asked
<1>1. Types /\ Queued
  BY DEF Inv
<1>2. loop' = loop /\ timer' = timer /\ queue' = queue /\ forgot' = forgot
  BY DEF Untouched, timers
<1>3. cfg' = f /\ std' = d /\ owes' \in [Watched -> Rec]
  BY <1>1, BecomeTypes
<1>4. bumped' \in BOOLEAN
  BY <1>1 DEF Types
<1>5. Types'
  BY <1>1, <1>2, <1>3, <1>4 DEF Types, Absent, Ages, Never
<1>6. Queued'
  BY <1>1, <1>2 DEF Queued, Due
<1>7. ASSUME NEW c \in Watched PROVE SettleOf(c, f[c], d, {})
  <2>1. ~bumped' => /\ ~bumped /\ Times(f[c]) = Times(cfg[c])
                    /\ d.len = std.len /\ d.jit = std.jit
    BY WatchedChats
  <2> QED
    BY <1>2, <2>1 DEF SettleOf
<1> QED
  BY <1>2, <1>5, <1>6, <1>7, SettleKeeps

\* ... or is restarted.
LEMMA ApiRestartKeeps ==
  ASSUME Inv, NEW f \in [Chats -> Options], Become(f, std, Lost), Restart,
         last' = last, running' = running, hold' = hold
  PROVE  Inv' /\ Asked
<1>1. Types /\ Queued /\ std \in Defaults
  BY DEF Inv, Types
<1>2. /\ Forget(Chats) /\ bumped' = TRUE /\ unbumped' = {}
      /\ loop' \in [at : {"rest", "ask"}, chat : {NoChat}] \cup [at : {"send", "sent"}, chat : Chats]
      /\ loop'.at = "rest"
      /\ timer' \in [Chats -> 0 .. Absent] /\ Queued' /\ forgot' \subseteq Watched
  BY <1>1, RestartOf
<1>3. cfg' = f /\ std' = std /\ owes' \in [Watched -> Rec]
  BY <1>1, BecomeTypes
<1>4. Types'
  BY <1>1, <1>2, <1>3 DEF Types, Absent, Ages, Never
<1>5. ASSUME NEW c \in Watched PROVE SettleOf(c, f[c], std, Lost)
  <2>1. /\ timer'[c] = Absent /\ (c \in forgot => c \in forgot')
        /\ hold[c] > 0 => c \in forgot'
    BY <1>1, <1>2, ForgetAllOf
  <2>2. hold[c] \in 0 .. Horizon /\ Horizon \in Nat
    BY <1>1, HorizonType DEF Types
  <2>3. hold[c] = 0 \/ c \in forgot'
    BY <2>1, <2>2
  <2>4. Out(c) => c \in Lost
    BY DEF Out, Lost
  <2> QED
    BY <1>2, <2>1, <2>3, <2>4 DEF SettleOf
<1> QED
  BY <1>1, <1>2, <1>4, <1>5, SettleKeeps

LEMMA ChatTyped ==
  ASSUME Types, NEW c \in Chats, NEW x \in Options
  PROVE  /\ Chat(c, x) \in [Chats -> Options] /\ cfg[c] \in Options
         /\ Chat(c, x)[c] = x /\ \A y \in Chats \ {c} : Chat(c, x)[y] = cfg[y]
BY DEF Types, Chat

LEMMA OptionTyped ==
  ASSUME NEW x \in Options
  PROVE  /\ \A b \in BOOLEAN : /\ [x EXCEPT !.on = b] \in Options
                               /\ Times([x EXCEPT !.on = b]) = Times(x)
         /\ [x EXCEPT !.on = ~@] \in Options
         /\ \A v \in Opt(Lens) : [x EXCEPT !.len = v] \in Options
         /\ \A v \in Opt(Jits) : [x EXCEPT !.jit = v] \in Options
         /\ \A v \in Delays : [x EXCEPT !.delay = v] \in Options
BY DEF Options, Times

LEMMA BlankTyped == Blank \in Options /\ <<>> \in Opt(Lens) /\ <<>> \in Opt(Jits) /\ 0 \in Delays
BY ScheduleAssumption DEF Blank, Options, Opt

LEMMA UpsertChatKeeps ==
  ASSUME Inv, NEW c \in Chats, UpsertChat(c)
  PROVE  Inv' /\ Asked
<1>1. Types /\ cfg[c] \in Options /\ std \in Defaults
  BY DEF Inv, Types
<1>2. PICK x \in Patches(cfg[c]), b \in BOOLEAN :
        /\ Times(x) # Times(cfg[c]) => b
        /\ \/ /\ running /\ Become(Chat(c, x), std, Lost) /\ Restart
           \/ /\ ByApi(Chat(c, x), std, b) /\ Untouched
        /\ UNCHANGED <<last, running, hold>>
  BY DEF UpsertChat
<1>3. x \in Options
  BY <1>1, <1>2, OptionTyped DEF Patches
<1> DEFINE f == Chat(c, x)
<1>4. f \in [Chats -> Options] /\ f[c] = x /\ \A y \in Chats \ {c} : f[y] = cfg[y]
  BY <1>1, <1>3, ChatTyped
<1>5. last' = last /\ running' = running /\ hold' = hold
  BY <1>2
<1> HIDE DEF f
<1>6. CASE Become(f, std, Lost) /\ Restart
  BY <1>4, <1>5, <1>6, ApiRestartKeeps
<1>7. CASE ByApi(f, std, b) /\ Untouched
  <2>1. Become(f, std, {}) /\ bumped' = (bumped \/ b) /\ unbumped' = unbumped
    BY <1>7 DEF ByApi
  <2>2. \A y \in Chats : Times(f[y]) = Times(cfg[y]) \/ b
    BY <1>2, <1>4
  <2> QED
    BY <1>1, <1>4, <1>5, <1>7, <2>1, <2>2, ByApiKeeps
<1> QED
  BY <1>2, <1>6, <1>7 DEF f

LEMMA AllTyped ==
  ASSUME Types, NEW b \in BOOLEAN, NEW f, f = [c \in Chats |-> [cfg[c] EXCEPT !.on = b]]
  PROVE  /\ f \in [Chats -> Options]
         /\ \A c \in Chats : Times(f[c]) = Times(cfg[c])
<1>1. ASSUME NEW c \in Chats
      PROVE  [cfg[c] EXCEPT !.on = b] \in Options /\ Times([cfg[c] EXCEPT !.on = b]) = Times(cfg[c])
  <2>1. cfg[c] \in Options
    BY DEF Types
  <2> QED
    BY <2>1, OptionTyped
<1> QED
  BY <1>1

LEMMA BulkEnableKeeps ==
  ASSUME Inv, NEW b \in BOOLEAN, BulkEnable(b)
  PROVE  Inv' /\ Asked
<1> DEFINE f == [c \in Chats |-> [cfg[c] EXCEPT !.on = b]]
<1>1. Types /\ std \in Defaults
  BY DEF Inv, Types
<1>2. f \in [Chats -> Options] /\ \A c \in Chats : Times(f[c]) = Times(cfg[c])
  BY <1>1, AllTyped
<1>3. /\ \/ Become(f, std, Lost) /\ Restart
         \/ Become(f, std, {}) /\ Untouched /\ bumped' = bumped /\ unbumped' = unbumped
      /\ last' = last /\ running' = running /\ hold' = hold
  BY DEF BulkEnable
<1> HIDE DEF f
<1>4. CASE Become(f, std, Lost) /\ Restart
  BY <1>2, <1>3, <1>4, ApiRestartKeeps
<1>5. CASE Become(f, std, {}) /\ Untouched /\ bumped' = bumped /\ unbumped' = unbumped
  <2>1. bumped' = (bumped \/ FALSE)
    BY <1>1, <1>5 DEF Types
  <2> QED
    BY <1>1, <1>2, <1>3, <1>5, <2>1, ByApiKeeps
<1> QED
  BY <1>3, <1>4, <1>5

LEMMA PatchSlotKeeps ==
  ASSUME Inv, PatchSlot
  PROVE  Inv' /\ Asked
<1>1. cfg \in [Chats -> Options]
  BY DEF Inv, Types
<1>2. PICK d \in Defaults, b \in BOOLEAN :
        (d.len # std.len \/ d.jit # std.jit => b) /\ ByApi(cfg, d, b)
  BY DEF PatchSlot
<1>3. /\ Become(cfg, d, {}) /\ bumped' = (bumped \/ b) /\ unbumped' = unbumped
      /\ Untouched /\ last' = last /\ running' = running /\ hold' = hold
  BY <1>2 DEF PatchSlot, ByApi
<1> QED
  BY <1>1, <1>2, <1>3, ByApiKeeps

LEMMA DeleteChatKeeps ==
  ASSUME Inv, NEW b \in Chats, DeleteChat(b)
  PROVE  Inv' /\ Asked
<1> DEFINE f == Chat(b, Blank)
<1>1. Types /\ Queued /\ std \in Defaults
  BY DEF Inv, Types
<1>2. f \in [Chats -> Options] /\ \A y \in Chats \ {b} : f[y] = cfg[y]
  BY <1>1, BlankTyped, ChatTyped
<1>3. /\ Become(f, std, {b}) /\ last' = [last EXCEPT ![b] = Never]
      /\ unbumped' = unbumped \cup ({b} \cap Watched)
      /\ running' = running /\ bumped' = bumped /\ loop' = loop
      /\ timer' = timer /\ queue' = queue /\ hold' = hold /\ forgot' = forgot
  BY DEF DeleteChat, timers, waits
<1> HIDE DEF f
<1>4. cfg' = f /\ std' = std /\ owes' \in [Watched -> Rec]
  BY <1>1, <1>2, <1>3, BecomeTypes
<1>5. last' \in [Chats -> Ages] /\ \A y \in Chats \ {b} : last'[y] = last[y]
  <2>1. Never \in Ages
    BY HorizonType DEF Ages, Never
  <2> QED
    BY <1>1, <1>3, <2>1 DEF Types
<1>6. Types'
  BY <1>1, <1>2, <1>3, <1>4, <1>5 DEF Types, Absent, Ages, Never
<1>7. Queued'
  BY <1>1, <1>3 DEF Queued, Due
<1>8. ASSUME NEW c \in Watched PROVE SettleOf(c, f[c], std, {b})
  <2>1. c # b => last'[c] = last[c] /\ f[c] = cfg[c]
    BY <1>2, <1>5, WatchedChats
  <2>2. c = b => c \in unbumped'
    BY <1>3
  <2> QED
    BY <1>3, <2>1, <2>2 DEF SettleOf
<1> QED
  BY <1>1, <1>2, <1>3, <1>6, <1>7, <1>8, SettleKeeps

LEMMA BotStepKeeps ==
  ASSUME Inv, BotStep
  PROVE  Inv' /\ Asked
<1>1. Types /\ cfg \in [Chats -> Options] /\ std \in Defaults
  BY DEF Inv, Types
<1>2. ASSUME NEW c \in Chats, Toggle(c) \/ ClearInterval(c) \/ ClearJitter(c) \/ ClearDelay(c)
      PROVE  Inv' /\ Asked
  <2>1. /\ [cfg[c] EXCEPT !.on = ~@] \in Options /\ [cfg[c] EXCEPT !.len = <<>>] \in Options
        /\ [cfg[c] EXCEPT !.jit = <<>>] \in Options /\ [cfg[c] EXCEPT !.delay = 0] \in Options
    BY <1>1, BlankTyped, OptionTyped
  <2>2. \E x \in Options : ByBot(Chat(c, x), std)
    BY <1>2, <2>1 DEF Toggle, ClearInterval, ClearJitter, ClearDelay
  <2> QED
    BY <1>1, <2>2, ChatTyped, ByBotKeeps
<1>3. ASSUME NEW c \in Chats, AnswerJitter(c) \/ AnswerInterval(c) \/ AnswerDelay(c)
      PROVE  Inv' /\ Asked
  <2>1. /\ \A v \in Opt(Lens) : [cfg[c] EXCEPT !.len = v] \in Options
        /\ \A v \in Opt(Jits) : [cfg[c] EXCEPT !.jit = v] \in Options
        /\ \A v \in Delays : [cfg[c] EXCEPT !.delay = v] \in Options
    BY <1>1, OptionTyped
  <2>2. \E x \in Options : ByBot(Chat(c, x), std)
    BY <1>3, <2>1 DEF AnswerJitter, AnswerInterval, AnswerDelay
  <2> QED
    BY <1>1, <2>2, ChatTyped, ByBotKeeps
<1>4. ASSUME NEW b \in BOOLEAN, ToggleAll(b) PROVE Inv' /\ Asked
  <2> DEFINE f == [c \in Chats |-> [cfg[c] EXCEPT !.on = b]]
  <2>1. f \in [Chats -> Options] /\ ByBot(f, std)
    BY <1>1, <1>4, AllTyped DEF ToggleAll
  <2> HIDE DEF f
  <2> QED
    BY <1>1, <2>1, ByBotKeeps
<1>5. ASSUME ClearStdJitter \/ AnswerStdTimes PROVE Inv' /\ Asked
  <2>1. /\ [std EXCEPT !.jit = 0] \in Defaults
        /\ \A n \in Lens : [std EXCEPT !.len = n] \in Defaults
        /\ \A j \in Jits : [std EXCEPT !.jit = j] \in Defaults
    BY <1>1, ScheduleAssumption DEF Defaults
  <2>2. \E d \in Defaults : ByBot(cfg, d)
    BY <1>5, <2>1 DEF ClearStdJitter, AnswerStdTimes
  <2> QED
    BY <1>1, <2>2, ByBotKeeps
<1> QED
  BY <1>2, <1>3, <1>4, <1>5 DEF BotStep

-----------------------------------------------------------------------------
(* The specification                                                       *)

EditsOk == edits \in 0 .. MaxEdits

LEMMA InitInv ==
  ASSUME Init
  PROVE  Inv /\ EditsOk
<1>1. /\ cfg = [c \in Chats |-> [Blank EXCEPT !.on = TRUE]]
      /\ std = [len |-> Max(Lens), jit |-> 0]
      /\ last = [c \in Chats |-> Never] /\ running = TRUE /\ bumped = TRUE
      /\ loop = [at |-> "rest", chat |-> NoChat]
      /\ timer = [c \in Chats |-> Absent] /\ queue = <<>> /\ edits = 0
      /\ owes = [c \in Watched |-> Free] /\ hold = [c \in Watched |-> 0] /\ forgot = {} /\ unbumped = {}
  BY DEF Init
<1>2. Horizon \in Nat /\ Absent \in 0 .. Absent /\ Absent # 0 /\ Never \in Ages /\ 0 \in 0 .. Horizon
  BY HorizonType DEF Absent, Ages, Never
<1>3. [Blank EXCEPT !.on = TRUE] \in Options
  BY BlankTyped, OptionTyped
<1>4. Max(Lens) \in Lens /\ 0 \in Jits
  <2>1. Lens \in SUBSET Nat /\ Lens # {} /\ 0 \in Jits
    BY ScheduleAssumption
  <2>2. PICK n \in Nat : \A x \in Lens : x <= n
    BY <2>1, ScheduleAssumption, FiniteBounded
  <2> QED
    BY <2>1, <2>2, MaxOf
<1>5. Types
  BY <1>1, <1>2, <1>3, <1>4, FreeRec DEF Types, Defaults
<1>6. Queued
  <2>1. Due = {}
    BY <1>1, <1>2 DEF Due
  <2> QED
    BY <1>1, <2>1, OrderedEmpty, EmptySeq DEF Queued
<1>7. Spaced /\ Held /\ Follow
  <2>1. \A c \in Watched : owes[c] = Free /\ hold[c] = 0
    BY <1>1
  <2>2. Spaced
    BY <1>1, <2>1, FreeDebt DEF Spaced
  <2>3. Held
    BY <1>1, <2>1 DEF Held
  <2>4. Follow
    BY <1>1 DEF Follow
  <2> QED
    BY <2>2, <2>3, <2>4
<1>8. EditsOk
  BY <1>1, ScheduleAssumption DEF EditsOk
<1> QED
  BY <1>5, <1>6, <1>7, <1>8 DEF Inv

LEMMA LoopStepKeeps ==
  ASSUME Inv, LoopStep
  PROVE  Inv' /\ Asked /\ edits' = edits
<1>1. edits' = edits
  BY DEF LoopStep, Wake, Offline, Stopped, Choose, NothingToSend, Deliver, Booked, HeldBack, BadPeer, SendFails
<1> QED
  BY <1>1, WakeKeeps, RestKeeps, ChooseKeeps, NothingToSendKeeps, DeliverKeeps, BookedKeeps,
     HeldBackKeeps, BadPeerKeeps, SendFailsKeeps DEF LoopStep

LEMMA ApiStepKeeps ==
  ASSUME Inv, ApiStep
  PROVE  Inv' /\ Asked
BY PatchSlotKeeps, RestartKeeps, StandKeeps, BulkEnableKeeps, UpsertChatKeeps, DeleteChatKeeps,
   OtherBookedKeeps DEF ApiStep

LEMMA StepKeeps ==
  ASSUME Inv, EditsOk, [Next]_vars
  PROVE  Inv' /\ EditsOk' /\ Asked
<1>1. CASE LoopStep
  BY <1>1, LoopStepKeeps DEF EditsOk
<1>2. CASE Tick
  <2>1. edits' = edits
    BY <1>2 DEF Tick
  <2> QED
    BY <1>2, <2>1, TickKeeps DEF EditsOk
<1>3. CASE edits < MaxEdits /\ edits' = edits + 1 /\ (ApiStep \/ BotStep)
  <2>1. EditsOk'
    BY <1>3, ScheduleAssumption DEF EditsOk
  <2> QED
    BY <1>3, <2>1, ApiStepKeeps, BotStepKeeps
<1>4. CASE UNCHANGED vars
  <2>1. edits' = edits
    BY <1>4 DEF vars
  <2> QED
    BY <1>4, <2>1, StandKeeps DEF EditsOk
<1> QED
  BY <1>1, <1>2, <1>3, <1>4 DEF Next

LEMMA Invariance == Spec => [](Inv /\ EditsOk)
<1>1. Init => Inv /\ EditsOk
  BY InitInv
<1>2. (Inv /\ EditsOk) /\ [Next]_vars => (Inv /\ EditsOk)'
  BY StepKeeps
<1> QED
  BY <1>1, <1>2, PTL DEF Spec

\* No timer of the loop is longer than the settings in force make it, except
\* those that ran when the control bot changed the times, or the chat was
\* deleted; and the queue has the chats that are due, once each.
THEOREM ScheduleTimersFollow == Spec => []TimersFollow
<1>1. Inv /\ EditsOk => TimersFollow
  <2> SUFFICES ASSUME Inv, EditsOk PROVE TimersFollow
    OBVIOUS
  <2>1. Types /\ Queued /\ Follow
    BY DEF Inv
  <2>2. TypeOK
    <3>1. /\ loop.at \in {"rest", "ask", "send", "sent"} /\ loop.chat \in Chats \cup {NoChat}
      BY <2>1 DEF Types
    <3>2. ToSet(queue) = {c \in Chats : timer[c] = 0} /\ IsInjective(queue)
      BY <2>1 DEF Queued, Ordered, Due
    <3> QED
      BY <2>1, <3>1, <3>2 DEF TypeOK, Types, Rec, EditsOk
  <2>3. ASSUME ~bumped, NEW c \in (On \cap Watched) \ unbumped, timer[c] # Absent, hold[c] = 0
        PROVE  timer[c] <= Longest(c)
    <3>1. timer[c] <= Longest(c) \/ timer[c] <= 0
      BY <2>1, <2>3 DEF Follow
    <3>2. /\ c \in Chats /\ timer[c] \in 0 .. Absent /\ cfg[c] \in Options /\ std \in Defaults
          /\ last[c] \in Ages
      BY <2>1, WatchedChats DEF Types
    <3>3. Longest(c) \in Nat
      BY <3>2, LongestIs, MostOlder
    <3> QED
      BY <3>1, <3>2, <3>3, HorizonType DEF Absent
  <2> QED
    BY <2>2, <2>3 DEF TimersFollow
<1> QED
  BY <1>1, Invariance, PTL

\* Between two messages of the loop to a chat lies the shortest pause that the
\* settings allowed since the first, unless the first was not booked or the
\* chat deleted since.
THEOREM ScheduleSendsSpaced == Spec => SendsSpaced
<1>1. Inv => (loop.at = "send" /\ loop'.at = "sent" /\ loop.chat \in Watched => owes[loop.chat] = Free)
  BY DEF Inv, Spaced
<1> QED
  BY <1>1, Invariance, PTL DEF SendsSpaced

\* A chat that Telegram asked to leave alone is left alone for that long, unless
\* the loop forgot its timers since.
THEOREM ScheduleWaitsKept == Spec => WaitsKept
<1>1. ASSUME Inv, Inv', Asked, loop.at = "ask", loop'.at = "send", loop'.chat \in Watched
      PROVE  hold[loop'.chat] = 0 \/ loop'.chat \in forgot'
  <2>1. hold'[loop'.chat] = 0 \/ loop'.chat \in forgot'
    BY <1>1 DEF Inv, Held
  <2> QED
    BY <1>1, <2>1 DEF Asked
<1>2. Inv /\ EditsOk /\ [Next]_vars =>
        (loop.at = "ask" /\ loop'.at = "send" /\ loop'.chat \in Watched =>
           hold[loop'.chat] = 0 \/ loop'.chat \in forgot')
  BY <1>1, StepKeeps
<1> QED
  BY <1>2, Invariance, PTL DEF Spec, WaitsKept

=============================================================================
