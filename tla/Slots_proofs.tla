---------------------------- MODULE Slots_proofs ----------------------------
(***************************************************************************)
(* The safety of Slots for any numbers of slots, settings, requests and    *)
(* administrators, calls and crashes.                                      *)
(***************************************************************************)
EXTENDS Slots, FiniteSetTheorems, SequenceTheorems, WellFoundedInduction, TLAPS

-----------------------------------------------------------------------------
(* Sequences without repetitions.                                          *)

Ordered(seq, D) == ToSet(seq) = D /\ IsInjective(seq)

LEMMA OrderedEmpty == Ordered(<<>>, {})
BY DEF Ordered, ToSet, IsInjective

LEMMA OrderedAppend ==
  ASSUME NEW S, NEW seq \in Seq(S), NEW x \in S
  PROVE  /\ Append(seq, x) \in Seq(S)
         /\ ToSet(Append(seq, x)) = ToSet(seq) \cup {x}
         /\ IsInjective(seq) /\ x \notin ToSet(seq) => IsInjective(Append(seq, x))
<1> DEFINE app == Append(seq, x)
<1>1. /\ app \in Seq(S) /\ Len(app) = Len(seq) + 1 /\ Len(seq) \in Nat
      /\ DOMAIN app = 1 .. Len(seq) + 1 /\ DOMAIN seq = 1 .. Len(seq)
      /\ \A i \in 1 .. Len(seq) : app[i] = seq[i]
      /\ app[Len(seq) + 1] = x
  BY AppendProperties, LenProperties
<1> HIDE DEF app
<1>2. ToSet(app) = ToSet(seq) \cup {x}
  <2>1. 1 .. Len(seq) + 1 = (1 .. Len(seq)) \cup {Len(seq) + 1}
    BY <1>1
  <2> QED
    BY <2>1, <1>1 DEF ToSet
<1>3. ASSUME IsInjective(seq), x \notin ToSet(seq), NEW i \in DOMAIN app, NEW j \in DOMAIN app,
             app[i] = app[j]
      PROVE  i = j
  <2>1. \A k \in DOMAIN seq : seq[k] # x
    BY <1>3 DEF ToSet
  <2>2. CASE i \in DOMAIN seq /\ j \in DOMAIN seq
    BY <1>1, <1>3, <2>2 DEF IsInjective
  <2>3. CASE i \notin DOMAIN seq \/ j \notin DOMAIN seq
    BY <1>1, <1>3, <2>1, <2>3
  <2> QED
    BY <2>2, <2>3
<1> QED
  BY <1>1, <1>2, <1>3 DEF IsInjective, app

LEMMA OrderedConcat ==
  ASSUME NEW S, NEW p \in Seq(S), NEW q \in Seq(S), NEW D, NEW E,
         Ordered(p, D), Ordered(q, E), D \cap E = {}
  PROVE  p \o q \in Seq(S) /\ Ordered(p \o q, D \cup E)
<1> DEFINE cat == p \o q
           m == Len(p)
           n == Len(q)
<1>1. /\ cat \in Seq(S) /\ m \in Nat /\ n \in Nat
      /\ DOMAIN cat = 1 .. m + n /\ DOMAIN p = 1 .. m /\ DOMAIN q = 1 .. n
      /\ \A i \in 1 .. m + n : cat[i] = IF i <= m THEN p[i] ELSE q[i - m]
  BY ConcatProperties, LenProperties
<1> HIDE DEF cat, m, n
<1>2. \A i \in 1 .. m : i \in 1 .. m + n /\ cat[i] = p[i]
  BY <1>1
<1>3. \A i \in 1 .. n : i + m \in 1 .. m + n /\ cat[i + m] = q[i]
  BY <1>1
<1>4. \A i \in 1 .. m + n : \/ i \in 1 .. m /\ cat[i] = p[i] /\ cat[i] \in D
                            \/ i - m \in 1 .. n /\ cat[i] = q[i - m] /\ cat[i] \in E
  <2>1. \A i \in 1 .. m : p[i] \in D
    BY <1>1 DEF Ordered, ToSet
  <2>2. \A i \in 1 .. n : q[i] \in E
    BY <1>1 DEF Ordered, ToSet
  <2>3. \A i \in 1 .. m + n : i \in 1 .. m \/ (i - m \in 1 .. n /\ ~(i <= m))
    BY <1>1
  <2> QED
    BY <2>1, <2>2, <2>3, <1>1
<1>5. ToSet(cat) = D \cup E
  <2>1. D = {p[i] : i \in 1 .. m} /\ E = {q[i] : i \in 1 .. n}
    BY <1>1 DEF Ordered, ToSet
  <2>2. ToSet(cat) = {cat[i] : i \in 1 .. m + n}
    BY <1>1 DEF ToSet
  <2>3. \A i \in 1 .. m + n : cat[i] \in D \cup E
    BY <1>4
  <2>4. ASSUME NEW i \in 1 .. m PROVE p[i] \in ToSet(cat)
    BY <1>2, <2>2
  <2>5. ASSUME NEW i \in 1 .. n PROVE q[i] \in ToSet(cat)
    BY <1>3, <2>2
  <2> QED
    BY <2>1, <2>2, <2>3, <2>4, <2>5
<1>6. ASSUME NEW i \in 1 .. m + n, NEW j \in 1 .. m + n, cat[i] = cat[j] PROVE i = j
  <2>1. CASE i \in 1 .. m /\ cat[i] = p[i] /\ cat[i] \in D
    <3>1. j \in 1 .. m /\ cat[j] = p[j]
      BY <1>4, <1>6, <2>1
    <3> QED
      BY <3>1, <2>1, <1>6, <1>1 DEF Ordered, IsInjective
  <2>2. CASE i - m \in 1 .. n /\ cat[i] = q[i - m] /\ cat[i] \in E
    <3>1. j - m \in 1 .. n /\ cat[j] = q[j - m]
      BY <1>4, <1>6, <2>2
    <3>2. i - m = j - m
      BY <3>1, <2>2, <1>6, <1>1 DEF Ordered, IsInjective
    <3> QED
      BY <3>2, <1>1
  <2> QED
    BY <2>1, <2>2, <1>4
<1> QED
  BY <1>1, <1>5, <1>6 DEF Ordered, IsInjective, cat

-----------------------------------------------------------------------------
(* What is kept of a sequence.  The recursive function is there, by        *)
(* induction on the prefixes; and then so are its values.                  *)

Selects(kept, seq, D) ==
  kept = [n \in 0 .. Len(seq) |->
           IF n = 0 THEN <<>>
           ELSE IF seq[n] \in D THEN Append(kept[n - 1], seq[n]) ELSE kept[n - 1]]

LEMMA KeptIs ==
  ASSUME NEW seq, NEW D
  PROVE  Kept(seq, D) = (CHOOSE kept : Selects(kept, seq, D))[Len(seq)]
BY DEF Kept, Selects

\* The natural numbers are the only set that holds 0 and every successor.
LEMMA Induction ==
  ASSUME NEW P, 0 \in P, \A n \in Nat : n \in P => n + 1 \in P
  PROVE  Nat \subseteq P
<1> DEFINE T == Nat \ P
<1> SUFFICES ASSUME T # {} PROVE FALSE
  OBVIOUS
<1>1. IsWellFoundedOn(OpToRel(<, Nat), Nat)
  BY NatLessThanWellFounded
<1>2. PICK x \in T : \A y \in T : ~(<<y, x>> \in OpToRel(<, Nat))
  BY <1>1, WFMin
<1>3. \A y \in T : ~(y < x)
  BY <1>2 DEF OpToRel
<1>4. x - 1 \in Nat /\ x - 1 \in P
  BY <1>3
<1> QED
  BY <1>4

LEMMA SelectsExist ==
  ASSUME NEW S, NEW seq \in Seq(S), NEW D
  PROVE  \E kept : Selects(kept, seq, D)
<1> DEFINE N == 0 .. Len(seq)
           Eq(h, n) == h[n] = IF n = 0 THEN <<>>
                              ELSE IF seq[n] \in D THEN Append(h[n - 1], seq[n]) ELSE h[n - 1]
           P == {n \in Nat : \E h \in [N -> Seq(S)] : \A m \in N : m <= n => Eq(h, m)}
<1>1. 0 \in P
  <2> DEFINE z == [n \in N |-> <<>>]
  <2>1. z \in [N -> Seq(S)]
    BY EmptySeq
  <2>2. \A m \in N : m <= 0 => Eq(z, m)
    OBVIOUS
  <2> HIDE DEF z, Eq
  <2> QED
    BY <2>1, <2>2
<1>2. ASSUME NEW n \in Nat, n \in P PROVE n + 1 \in P
  <2>1. PICK h \in [N -> Seq(S)] : \A m \in N : m <= n => Eq(h, m)
    BY <1>2
  <2> DEFINE g == [m \in N |-> IF m = 0 THEN <<>>
                               ELSE IF seq[m] \in D THEN Append(h[m - 1], seq[m]) ELSE h[m - 1]]
  <2>2. ASSUME NEW m \in N, m # 0 PROVE m - 1 \in N /\ h[m - 1] \in Seq(S) /\ seq[m] \in S
    BY <2>2
  <2>3. g \in [N -> Seq(S)]
    <3>1. ASSUME NEW m \in N PROVE g[m] \in Seq(S)
      BY <2>2, EmptySeq, AppendProperties
    <3> QED
      BY <3>1
  <2>4. ASSUME NEW m \in N, m <= n PROVE g[m] = h[m]
    BY <2>1, <2>4
  <2>5. ASSUME NEW m \in N, m <= n + 1 PROVE Eq(g, m)
    <3>1. CASE m = 0
      BY <3>1
    <3>2. CASE m # 0
      <4>1. m - 1 \in N /\ m - 1 <= n
        BY <2>5, <3>2
      <4>2. g[m - 1] = h[m - 1]
        BY <4>1, <2>4
      <4> QED
        BY <4>2, <3>2
    <3> QED
      BY <3>1, <3>2
  <2> HIDE DEF g, Eq
  <2> QED
    BY <2>3, <2>5
<1>3. Len(seq) \in P
  <2> HIDE DEF P
  <2> QED
    BY <1>1, <1>2, Induction
<1>4. PICK h \in [N -> Seq(S)] : \A m \in N : m <= Len(seq) => Eq(h, m)
  BY <1>3
<1>5. \A m \in N : Eq(h, m)
  BY <1>4
<1>6. h = [n \in N |-> h[n]]
  OBVIOUS
<1> QED
  BY <1>5, <1>6 DEF Selects

\* Of a sequence without repetitions is kept what it has of D, without
\* repetitions.
LEMMA KeptOf ==
  ASSUME NEW S, NEW seq \in Seq(S), NEW E, Ordered(seq, E), NEW D
  PROVE  Kept(seq, D) \in Seq(S) /\ Ordered(Kept(seq, D), E \cap D)
<1> DEFINE kept == CHOOSE h : Selects(h, seq, D)
           Before(n) == {seq[i] : i \in 1 .. n}
           P == {n \in Nat : n <= Len(seq) => kept[n] \in Seq(S) /\ Ordered(kept[n], Before(n) \cap D)}
<1>1. Selects(kept, seq, D)
  BY SelectsExist
<1>2. Kept(seq, D) = kept[Len(seq)]
  BY KeptIs
<1> HIDE DEF kept
<1>3. \A n \in 0 .. Len(seq) :
        kept[n] = IF n = 0 THEN <<>>
                  ELSE IF seq[n] \in D THEN Append(kept[n - 1], seq[n]) ELSE kept[n - 1]
  BY <1>1 DEF Selects
<1>4. Len(seq) \in Nat /\ DOMAIN seq = 1 .. Len(seq) /\ \A i \in 1 .. Len(seq) : seq[i] \in S
  BY LenProperties, ElementOfSeq
<1>5. 0 \in P
  <2>1. kept[0] = <<>> /\ Before(0) = {}
    BY <1>3, <1>4
  <2> QED
    <3>1. Before(0) \cap D = {}
      BY <2>1
    <3> HIDE DEF Before
    <3> QED
      BY <2>1, <3>1, EmptySeq, OrderedEmpty
<1>6. ASSUME NEW n \in Nat, n \in P PROVE n + 1 \in P
  <2> SUFFICES ASSUME n + 1 <= Len(seq)
               PROVE  kept[n + 1] \in Seq(S) /\ Ordered(kept[n + 1], Before(n + 1) \cap D)
    OBVIOUS
  <2>1. kept[n] \in Seq(S) /\ Ordered(kept[n], Before(n) \cap D)
    BY <1>6, <1>4
  <2>2. kept[n + 1] = IF seq[n + 1] \in D THEN Append(kept[n], seq[n + 1]) ELSE kept[n]
    BY <1>3, <1>4
  <2>3. Before(n + 1) = Before(n) \cup {seq[n + 1]} /\ seq[n + 1] \in S
    <3>1. 1 .. n + 1 = (1 .. n) \cup {n + 1}
      OBVIOUS
    <3> QED
      BY <3>1, <1>4
  <2>4. seq[n + 1] \notin Before(n)
    BY <1>4 DEF Ordered, IsInjective
  <2> HIDE DEF Before
  <2>5. CASE seq[n + 1] \in D
    <3>1. seq[n + 1] \notin ToSet(kept[n])
      BY <2>1, <2>4 DEF Ordered
    <3> QED
      BY <2>1, <2>2, <2>3, <2>5, <3>1, OrderedAppend DEF Ordered
  <2>6. CASE seq[n + 1] \notin D
    BY <2>1, <2>2, <2>3, <2>6 DEF Ordered
  <2> QED
    BY <2>5, <2>6
<1>7. Len(seq) \in P
  <2> HIDE DEF P
  <2> QED
    BY <1>4, <1>5, <1>6, Induction
<1>8. Before(Len(seq)) = E
  BY <1>4 DEF Ordered, ToSet
<1> HIDE DEF Before
<1>9. kept[Len(seq)] \in Seq(S) /\ Ordered(kept[Len(seq)], Before(Len(seq)) \cap D)
  <2>1. Len(seq) <= Len(seq) =>
          kept[Len(seq)] \in Seq(S) /\ Ordered(kept[Len(seq)], Before(Len(seq)) \cap D)
    BY <1>7, Zenon
  <2> QED
    BY <1>4, <2>1
<1> QED
  BY <1>2, <1>8, <1>9

-----------------------------------------------------------------------------
(* What is chosen exists: an order of a set, a table of fresh objects.     *)

\* An order of a set: between sets of one size, an injection is onto.
LEMMA SetToSeqOf ==
  ASSUME NEW S, IsFiniteSet(S)
  PROVE  SetToSeq(S) \in Seq(S) /\ Ordered(SetToSeq(S), S)
<1> DEFINE n == Cardinality(S)
           q == SetToSeq(S)
<1>1. n \in Nat /\ ExistsBijection(1 .. n, S)
  BY FS_CardinalityType
<1>2. \E f \in [1 .. n -> S] : IsInjective(f)
  BY <1>1 DEF ExistsBijection, Bijection, Injection
<1>3. q \in [1 .. n -> S] /\ IsInjective(q)
  BY <1>2 DEF SetToSeq
<1>4. IsFiniteSet(1 .. n) /\ Cardinality(1 .. n) = n
  BY <1>1, FS_Interval
<1>5. q \in Injection(1 .. n, S)
  BY <1>3 DEF Injection
<1> HIDE DEF q
<1>6. q \in Surjection(1 .. n, S)
  BY <1>4, <1>5, FS_Injection
<1>7. ToSet(q) = S
  BY <1>3, <1>6 DEF Surjection, ToSet
<1>8. q \in Seq(S)
  BY <1>1, <1>3, SeqDef
<1> QED
  BY <1>3, <1>7, <1>8 DEF Ordered, q

\* There are more objects than slots.
LEMMA TablesExist ==
  ASSUME NEW D \in SUBSET Slots
  PROVE  \E f \in [D -> Objs] : IsInjective(f)
<1>1. IsFiniteSet(D) /\ Cardinality(D) <= Cardinality(Slots)
  BY SlotsAssumption, FS_Subset
<1>2. /\ Cardinality(D) \in Nat /\ Cardinality(Slots) \in Nat /\ Cardinality(Objs) \in Nat
      /\ ExistsBijection(1 .. Cardinality(D), D) /\ ExistsBijection(1 .. Cardinality(Objs), Objs)
  BY <1>1, SlotsAssumption, FS_CardinalityType
<1> DEFINE n == Cardinality(D)
           m == Cardinality(Objs)
<1>3. n <= m
  BY <1>1, <1>2, SlotsAssumption
<1>4. PICK b \in [1 .. n -> D] : \A x \in D : \E i \in 1 .. n : b[i] = x
  BY <1>2 DEF ExistsBijection, Bijection, Surjection
<1>5. PICK c \in [1 .. m -> Objs] : IsInjective(c)
  BY <1>2 DEF ExistsBijection, Bijection, Injection
<1> HIDE DEF n, m
<1> DEFINE at(x) == CHOOSE i \in 1 .. n : b[i] = x
           f == [x \in D |-> c[at(x)]]
<1>6. \A x \in D : at(x) \in 1 .. n /\ b[at(x)] = x
  BY <1>4
<1>7. n \in Nat /\ m \in Nat
  BY <1>2 DEF n, m
<1>8. \A x \in D : at(x) \in 1 .. m
  BY <1>6, <1>3, <1>7
<1> HIDE DEF at
<1>9. f \in [D -> Objs]
  BY <1>8
<1>10. ASSUME NEW x \in D, NEW y \in D, f[x] = f[y] PROVE x = y
  <2>1. at(x) = at(y)
    BY <1>8, <1>5, <1>10 DEF IsInjective
  <2> QED
    BY <2>1, <1>6
<1> QED
  BY <1>9, <1>10 DEF IsInjective

-----------------------------------------------------------------------------
(* The state and its file.                                                 *)

Tables == UNION {[D -> Objs] : D \in SUBSET Slots}
SlotOrNone == Slots \cup {NoSlot}

States == [accounts : Tables, order : Seq(Slots), active : SlotOrNone]
Files  == [slots : SUBSET Slots, filled : SUBSET Slots, running : SUBSET Slots,
           order : Seq(Slots), active : SlotOrNone]

\* The order has every slot once, and no two slots share settings.
Sound(m) ==
  /\ m \in States
  /\ Ordered(m.order, DOMAIN m.accounts) /\ IsInjective(m.accounts)

SoundFile(d) ==
  /\ d \in Files /\ d.filled \cup d.running \subseteq d.slots
  /\ Ordered(d.order, d.slots)
  /\ d.slots # {} => d.active \in d.slots

\* The active slot is one of the slots, when there are any.
Settled(m) == DOMAIN m.accounts # {} => m.active \in DOMAIN m.accounts

LEMMA TablesDef ==
  ASSUME NEW f
  PROVE  f \in Tables <=> DOMAIN f \in SUBSET Slots /\ f \in [DOMAIN f -> Objs]
BY DEF Tables

LEMMA StateTypes ==
  ASSUME NEW m \in States
  PROVE  /\ m.accounts \in Tables /\ DOMAIN m.accounts \subseteq Slots
         /\ m.accounts \in [DOMAIN m.accounts -> Objs] /\ Range(m.accounts) \subseteq Objs
         /\ m.order \in Seq(Slots) /\ m.active \in SlotOrNone
<1>1. m.accounts \in Tables /\ m.order \in Seq(Slots) /\ m.active \in SlotOrNone
  BY DEF States
<1>2. DOMAIN m.accounts \subseteq Slots /\ m.accounts \in [DOMAIN m.accounts -> Objs]
  BY <1>1, TablesDef
<1> QED
  BY <1>1, <1>2 DEF Range

LEMMA FirstOf ==
  ASSUME NEW S, NEW seq \in Seq(S), NEW D, Ordered(seq, D)
  PROVE  /\ seq = <<>> <=> D = {}
         /\ D # {} => First(seq) \in D
         /\ D = {} => First(seq) = NoSlot
<1>1. Len(seq) \in Nat /\ DOMAIN seq = 1 .. Len(seq) /\ (seq = <<>> <=> Len(seq) = 0)
  BY LenProperties, EmptySeq
<1>2. D = {seq[i] : i \in 1 .. Len(seq)}
  BY <1>1 DEF Ordered, ToSet
<1>3. seq = <<>> => D = {}
  BY <1>1, <1>2
<1>4. seq # <<>> => 1 \in 1 .. Len(seq) /\ seq[1] \in D
  BY <1>1, <1>2
<1> QED
  BY <1>3, <1>4 DEF First

LEMMA CompletedOf ==
  ASSUME NEW seq \in Seq(Slots), NEW E, Ordered(seq, E), NEW D \in SUBSET Slots
  PROVE  Completed(seq, D) \in Seq(Slots) /\ Ordered(Completed(seq, D), D)
<1> DEFINE kept == Kept(seq, D)
           rest == SetToSeq(D \ ToSet(kept))
<1>1. kept \in Seq(Slots) /\ Ordered(kept, E \cap D)
  BY KeptOf
<1> HIDE DEF kept
<1>2. D \ ToSet(kept) \in SUBSET Slots /\ IsFiniteSet(D \ ToSet(kept))
  BY SlotsAssumption, FS_Subset
<1>3. rest \in Seq(D \ ToSet(kept)) /\ Ordered(rest, D \ ToSet(kept))
  BY <1>2, SetToSeqOf
<1>4. rest \in Seq(Slots)
  BY <1>2, <1>3, SeqMonotonic
<1> HIDE DEF rest
<1>5. ToSet(kept) = E \cap D
  BY <1>1 DEF Ordered
<1>6. kept \o rest \in Seq(Slots) /\ Ordered(kept \o rest, (E \cap D) \cup (D \ ToSet(kept)))
  BY <1>1, <1>3, <1>4, <1>5, OrderedConcat
<1>7. (E \cap D) \cup (D \ ToSet(kept)) = D
  BY <1>5
<1> QED
  BY <1>6, <1>7 DEF Completed, kept, rest

LEMMA NormalOf ==
  ASSUME NEW m, Sound(m)
  PROVE  /\ Sound(Normal(m)) /\ Settled(Normal(m))
         /\ Normal(m).accounts = m.accounts
         /\ m.active \in DOMAIN m.accounts => Normal(m).active = m.active
         /\ Normal(m).active \in DOMAIN m.accounts \cup {NoSlot}
<1> DEFINE D == DOMAIN m.accounts
           ord == Completed(m.order, D)
           act == IF m.active \in D THEN m.active ELSE First(ord)
<1>1. m \in States /\ D \in SUBSET Slots /\ m.order \in Seq(Slots) /\ Ordered(m.order, D)
  BY StateTypes DEF Sound
<1>2. ord \in Seq(Slots) /\ Ordered(ord, D)
  BY <1>1, CompletedOf
<1> HIDE DEF ord
<1>3. act \in D \cup {NoSlot} /\ (D # {} => act \in D)
  BY <1>2, FirstOf
<1>4. m = [accounts |-> m.accounts, order |-> m.order, active |-> m.active]
  BY <1>1 DEF States
<1>5. Normal(m) = [m EXCEPT !.order = ord, !.active = act]
  BY DEF Normal, ord
<1> HIDE DEF act
<1>6. Normal(m) = [accounts |-> m.accounts, order |-> ord, active |-> act]
  BY <1>4, <1>5
<1>7. Normal(m) \in States
  BY <1>1, <1>2, <1>3, <1>6, StateTypes DEF States, SlotOrNone
<1>8. m.active \in D => act = m.active
  BY DEF act
<1> QED
  BY <1>2, <1>3, <1>6, <1>7, <1>8 DEF Sound, Settled

LEMMA WrittenOf ==
  ASSUME NEW m, Sound(m), Settled(m), NEW f, NEW ru
  PROVE  SoundFile(Written(m, f, ru)) /\ Written(m, f, ru).slots = DOMAIN m.accounts
<1>1. /\ m \in States /\ DOMAIN m.accounts \in SUBSET Slots /\ m.order \in Seq(Slots)
      /\ m.active \in SlotOrNone
  BY StateTypes DEF Sound
<1> QED
  BY <1>1 DEF Written, SoundFile, Files, Sound, Settled

\* What saving comes to.
LEMMA SaveOf ==
  ASSUME NEW m, Sound(m), Save(m)
  PROVE  /\ Sound(multi') /\ Settled(multi') /\ SoundFile(disk')
         /\ multi'.accounts = m.accounts /\ disk'.slots = DOMAIN m.accounts
         /\ m.active \in DOMAIN m.accounts => multi'.active = m.active
         /\ multi'.active \in DOMAIN m.accounts \cup {NoSlot}
<1>1. multi' = Normal(m) /\ disk' = Written(Normal(m), filled', running')
  BY DEF Save
<1> QED
  BY <1>1, NormalOf, WrittenOf

LEMMA WithActive ==
  ASSUME NEW m, Sound(m), NEW s \in SlotOrNone
  PROVE  LET n == [m EXCEPT !.active = s]
         IN  Sound(n) /\ n.accounts = m.accounts /\ n.active = s
<1>1. m \in States /\ m = [accounts |-> m.accounts, order |-> m.order, active |-> m.active]
  BY DEF Sound, States
<1>2. [m EXCEPT !.active = s] = [accounts |-> m.accounts, order |-> m.order, active |-> s]
  BY <1>1
<1> QED
  BY <1>1, <1>2, StateTypes DEF Sound, States

\* A new slot with an object of its own.
LEMMA WithSlotOf ==
  ASSUME NEW m, Sound(m), NEW s \in Slots, s \notin DOMAIN m.accounts,
         NEW o \in Objs, o \notin Range(m.accounts)
  PROVE  LET n == WithSlot(m, s, o)
         IN  /\ Sound(n) /\ DOMAIN n.accounts = DOMAIN m.accounts \cup {s}
             /\ n.accounts[s] = o
             /\ \A x \in DOMAIN m.accounts : n.accounts[x] = m.accounts[x]
             /\ n.active = m.active /\ Range(n.accounts) = Range(m.accounts) \cup {o}
<1> DEFINE D == DOMAIN m.accounts
           acc == [x \in D \cup {s} |-> IF x = s THEN o ELSE m.accounts[x]]
           ord == Append(m.order, s)
<1>1. /\ m \in States /\ D \in SUBSET Slots /\ m.accounts \in [D -> Objs]
      /\ m.order \in Seq(Slots) /\ m.active \in SlotOrNone
      /\ ToSet(m.order) = D /\ IsInjective(m.order) /\ IsInjective(m.accounts)
  BY StateTypes DEF Sound, Ordered
<1>2. m = [accounts |-> m.accounts, order |-> m.order, active |-> m.active]
  BY <1>1 DEF States
<1>3. WithSlot(m, s, o) = [m EXCEPT !.accounts = acc, !.order = ord]
  BY <1>1 DEF WithSlot
<1>4. acc \in [D \cup {s} -> Objs] /\ DOMAIN acc = D \cup {s} /\ acc \in Tables
  <2>1. acc \in [D \cup {s} -> Objs] /\ D \cup {s} \in SUBSET Slots
    BY <1>1
  <2> QED
    BY <2>1 DEF Tables
<1>5. acc[s] = o /\ \A x \in D : acc[x] = m.accounts[x]
  OBVIOUS
<1>6. ord \in Seq(Slots) /\ Ordered(ord, D \cup {s})
  BY <1>1, OrderedAppend DEF Ordered
<1> HIDE DEF acc, ord
<1>7. \A x \in D : m.accounts[x] # o
  BY DEF Range
<1>8. IsInjective(acc)
  BY <1>1, <1>4, <1>5, <1>7 DEF IsInjective
<1>9. Range(acc) = Range(m.accounts) \cup {o}
  BY <1>4, <1>5 DEF Range
<1>10. WithSlot(m, s, o) = [accounts |-> acc, order |-> ord, active |-> m.active]
  BY <1>2, <1>3
<1> QED
  BY <1>1, <1>4, <1>5, <1>6, <1>8, <1>9, <1>10 DEF Sound, States

\* The object of a slot, if it has one.
Own(m, s) == {m.accounts[x] : x \in {s} \cap DOMAIN m.accounts}

LEMMA WithoutSlotOf ==
  ASSUME NEW m, Sound(m), NEW s
  PROVE  LET n == WithoutSlot(m, s)
         IN  /\ Sound(n) /\ DOMAIN n.accounts = DOMAIN m.accounts \ {s}
             /\ \A x \in DOMAIN n.accounts : n.accounts[x] = m.accounts[x]
             /\ Range(n.accounts) = Range(m.accounts) \ Own(m, s)
             /\ m.active # s => n.active = m.active
             /\ m.active = s /\ DOMAIN n.accounts # {} => n.active \in DOMAIN n.accounts
             /\ n.order = <<>> <=> DOMAIN n.accounts = {}
<1> DEFINE D == DOMAIN m.accounts
           acc == Restrict(m.accounts, D \ {s})
           ord == Others(m.order, s)
           act == IF m.active = s THEN First(ord) ELSE m.active
<1>1. /\ m \in States /\ D \in SUBSET Slots /\ m.accounts \in [D -> Objs]
      /\ m.order \in Seq(Slots) /\ m.active \in SlotOrNone
      /\ Ordered(m.order, D) /\ IsInjective(m.accounts)
  BY StateTypes DEF Sound
<1>2. ord \in Seq(Slots) /\ Ordered(ord, D \ {s})
  <2>1. D \cap (ToSet(m.order) \ {s}) = D \ {s}
    BY <1>1 DEF Ordered
  <2> QED
    BY <1>1, <2>1, KeptOf DEF Others
<1>3. /\ acc \in [D \ {s} -> Objs] /\ DOMAIN acc = D \ {s} /\ acc \in Tables
      /\ \A x \in D \ {s} : acc[x] = m.accounts[x]
  <2>1. /\ acc \in [D \ {s} -> Objs] /\ D \ {s} \in SUBSET Slots
        /\ \A x \in D \ {s} : acc[x] = m.accounts[x]
    BY <1>1 DEF Restrict
  <2> QED
    BY <2>1 DEF Tables
<1>4. act \in SlotOrNone /\ (m.active = s /\ D \ {s} # {} => act \in D \ {s})
  <2>1. First(ord) \in SlotOrNone
    BY <1>1, <1>2, FirstOf DEF SlotOrNone
  <2> HIDE DEF ord
  <2>2. D \ {s} # {} => First(ord) \in D \ {s}
    BY <1>2, FirstOf
  <2> QED
    BY <1>1, <2>1, <2>2
<1>5. WithoutSlot(m, s) = [accounts |-> acc, order |-> ord, active |-> act]
  BY DEF WithoutSlot
<1>6. ord = <<>> <=> D \ {s} = {}
  BY <1>2, FirstOf
<1>7. m.active # s => act = m.active
  OBVIOUS
<1> HIDE DEF acc, ord, act
<1>8. IsInjective(acc)
  BY <1>1, <1>3 DEF IsInjective
<1>9. Range(acc) = Range(m.accounts) \ Own(m, s)
  <2>1. Range(acc) = {m.accounts[x] : x \in D \ {s}}
    BY <1>3 DEF Range
  <2>2. ASSUME NEW o \in Range(m.accounts), o \notin Own(m, s)
        PROVE  o \in {m.accounts[x] : x \in D \ {s}}
    BY <2>2 DEF Range, Own
  <2>3. ASSUME NEW x \in D \ {s}
        PROVE  m.accounts[x] \in Range(m.accounts) /\ m.accounts[x] \notin Own(m, s)
    BY <1>1, <2>3 DEF Range, Own, IsInjective
  <2> QED
    BY <2>1, <2>2, <2>3
<1> QED
  BY <1>2, <1>3, <1>4, <1>5, <1>6, <1>7, <1>8, <1>9 DEF Sound, States

-----------------------------------------------------------------------------
(* The inductive invariant.                                                *)

Kinds == Asked \cup {"none", "accadd", "phone", "code"}
Plain == {"deleting", "connecting", "coding", "signing", "greeting", "clearing", "uploading",
          "checking"}
Serving == {"making", "remaking", "reaching", "ready"}
Underway == Plain \cup Serving
Awaiting == {"drop", "connect", "check", "join", "phone", "sign", "greet"}

Calls ==
  {Idle} \cup [at : Plain, slot : Slots, obj : {NoObj}, does : {"none"}]
  \cup [at : Serving, slot : Slots, obj : Objs, does : {"spam", "look", "chats", "loop"}]
Handlers ==
  [at : {"idle", "start", "dead"}, slot : {NoSlot}, who : {NoAdmin}]
  \cup [at : Awaiting, slot : Slots, who : Admins]
Questions == [kind : Kinds, slot : SlotOrNone, obj : Objs \cup {NoObj}, torn : BOOLEAN]

Whole == Sound(multi) /\ SoundFile(disk)

CallTypes == req \in [Requests -> Calls] /\ hand \in Handlers /\ wait \in [Admins -> Questions]

SetTypes ==
  /\ filled \subseteq Objs /\ running \subseteq Objs /\ stale \subseteq Objs
  /\ clients \subseteq Slots /\ files \subseteq Slots /\ pending \subseteq Slots
  /\ promised \subseteq Slots /\ gone \subseteq Slots /\ crossed \subseteq Slots
  /\ loops \in Tables /\ tc \in SlotOrNone /\ apiSince \in BOOLEAN
  /\ shown \in Objs \cup {NoObj} /\ (hand.at # "dead" => shown \in Objs)
  /\ restarts \in 0 .. MaxRestarts

\* Unless the API deleted one meanwhile: the control bot deletes a slot and
\* another is left; the slot it is about to choose is there.
HandsOn ==
  ~apiSince =>
    /\ hand.at = "drop" => \E x \in DOMAIN multi.accounts : x # hand.slot
    /\ hand.at \in {"check", "greet"} => Has(hand.slot)

\* Before the control bot listens, and once it is dead, nothing is asked.
NoneAsked == hand.at \in {"start", "dead"} => \A a \in Admins : wait[a].kind \notin Asked

\* A loop whose settings send, or are some slot's, is under that slot's name.
LoopsOfSlots ==
  \A s \in DOMAIN loops :
    loops[s] \in (running \cup Live) \ stale => Has(s) /\ multi.accounts[s] = loops[s]

\* Calls that are on a slot together have crossed; a slot that is being deleted
\* has no client, and one that is gone no call, unless calls crossed on it.
Known == DOMAIN multi.accounts \cup crossed
Apart ==
  /\ clients \cup pending \subseteq Known
  /\ \A r \in Requests : req[r].slot \in Known \cup {NoSlot}
  /\ hand.slot \in Known \cup {NoSlot}
  /\ \A r, q \in Requests :
       r # q /\ req[r].slot = req[q].slot => req[r].slot \in crossed \cup {NoSlot}
  /\ \A r \in Requests : req[r].slot = hand.slot => hand.slot \in crossed \cup {NoSlot}
  /\ \A r \in Requests :
       req[r].at \in {"deleting", "clearing"} /\ req[r].slot \in clients => req[r].slot \in crossed
  /\ hand.at = "drop" /\ hand.slot \in clients => hand.slot \in crossed

Screen == ShownIsActive /\ HandsOn
Told == AnswerLandsWhereAsked /\ NoneAsked

IInv ==
  /\ Whole /\ CallTypes /\ SetTypes
  /\ SlotsAsAnswered /\ Screen /\ Told /\ LoopsOfSlots /\ Apart

-----------------------------------------------------------------------------
(* Calls and questions.                                                    *)

LEMMA CallOf ==
  ASSUME IInv, NEW r \in Requests
  PROVE  /\ req[r] \in Calls
         /\ req[r].at \in Underway => req[r].slot \in Slots /\ req[r].slot # NoSlot
         /\ req[r].at \notin Underway => req[r] = Idle
         /\ req[r].slot \in SlotOrNone /\ req[r].obj \in Objs \cup {NoObj}
         /\ req[r].at \in Serving => req[r].obj \in Objs
BY SlotsAssumption DEF IInv, CallTypes, Calls, Idle, Call, Underway, Plain, Serving, SlotOrNone

LEMMA HandOf ==
  ASSUME IInv
  PROVE  /\ hand.at \in Awaiting => hand.slot \in Slots /\ hand.slot # NoSlot /\ hand.who \in Admins
         /\ hand.at \notin Awaiting => hand.slot = NoSlot /\ hand.at \in {"idle", "start", "dead"}
         /\ Listening => hand.at = "idle" /\ hand.slot = NoSlot
         /\ hand.slot \in SlotOrNone
BY SlotsAssumption DEF IInv, CallTypes, Handlers, Awaiting, Listening, Rest, SlotOrNone

LEMMA RestType == Rest \in Handlers /\ Rest.at = "idle" /\ Rest.slot = NoSlot
BY DEF Rest, Handlers

LEMMA IdleType == Idle \in Calls /\ Idle.at = "idle" /\ Idle.slot = NoSlot
BY DEF Idle, Call, Calls

LEMMA CallType ==
  ASSUME NEW label \in Plain, NEW s \in Slots
  PROVE  Call(label, s) \in Calls /\ Call(label, s).at = label /\ Call(label, s).slot = s
BY DEF Call, Calls

LEMMA NoWaitType == NoWait \in Questions /\ NoWait.kind \notin Asked
BY DEF NoWait, Questions, Kinds, SlotOrNone, Asked

LEMMA TornType ==
  ASSUME NEW w \in Questions
  PROVE  /\ Torn(w) \in Questions
         /\ ~(Torn(w).kind \in Asked /\ ~Torn(w).torn)
<1> DEFINE b == w.kind \in Asked
<1>1. Torn(w) = [w EXCEPT !.torn = b] /\ b \in BOOLEAN
  BY DEF Torn
<1> HIDE DEF b
<1>2. Torn(w) = [kind |-> w.kind, slot |-> w.slot, obj |-> w.obj, torn |-> b]
  BY <1>1 DEF Questions
<1>3. Torn(w) \in Questions
  BY <1>1, <1>2 DEF Questions
<1>4. b => Torn(w).torn
  BY <1>2
<1> QED
  BY <1>2, <1>3, <1>4 DEF b

LEMMA WaitOf ==
  ASSUME CallTypes, NEW a \in Admins, NEW w \in Questions, Wait(a, w)
  PROVE  /\ wait' \in [Admins -> Questions] /\ wait'[a] = w
         /\ \A x \in Admins : x # a => wait'[x] = wait[x]
BY DEF CallTypes, Wait

\* One request goes to another place.
LEMMA Moves ==
  ASSUME CallTypes, NEW r \in Requests, NEW c \in Calls, req' = [req EXCEPT ![r] = c]
  PROVE  /\ req' \in [Requests -> Calls] /\ req'[r] = c
         /\ \A q \in Requests : q # r => req'[q] = req[q]
BY DEF CallTypes

LEMMA GotoOf ==
  ASSUME IInv, NEW r \in Requests, NEW label, Goto(r, label),
         \/ req[r].at \in Plain /\ label \in Plain
         \/ req[r].at \in Serving /\ label \in Serving
  PROVE  LET c == [at |-> label, slot |-> req[r].slot, obj |-> req[r].obj, does |-> req[r].does]
         IN  c \in Calls /\ req' = [req EXCEPT ![r] = c]
<1>1. req[r] \in Calls /\ req[r] # Idle
  BY DEF IInv, CallTypes, Idle, Call, Plain, Serving
<1>2. req[r] = [at |-> req[r].at, slot |-> req[r].slot, obj |-> req[r].obj, does |-> req[r].does]
  BY <1>1 DEF Calls
<1>3. [req[r] EXCEPT !.at = label] =
        [at |-> label, slot |-> req[r].slot, obj |-> req[r].obj, does |-> req[r].does]
  BY <1>2
<1>4. req' = [req EXCEPT ![r] = [req[r] EXCEPT !.at = label]]
  BY DEF Goto, IInv, CallTypes
<1>5. CASE req[r].at \in Plain /\ label \in Plain
  BY <1>1, <1>3, <1>4, <1>5 DEF Calls, Plain, Serving
<1>6. CASE req[r].at \in Serving /\ label \in Serving
  BY <1>1, <1>3, <1>4, <1>6 DEF Calls, Plain, Serving
<1> QED
  BY <1>5, <1>6

\* A request goes on: it ends or stays on its slot, whose client or half-done
\* sign-in it may have made.
LEMMA ApartGoesOn ==
  ASSUME IInv, NEW r \in Requests, req[r].at \in Underway, NEW c \in Calls,
         req' = [req EXCEPT ![r] = c], c = Idle \/ c.slot = req[r].slot,
         c.at \notin {"deleting", "clearing"},
         clients' \subseteq clients \cup {req[r].slot}, pending' \subseteq pending \cup {req[r].slot},
         DOMAIN multi.accounts \subseteq DOMAIN multi'.accounts, crossed' = crossed, hand' = hand
  PROVE  Apart'
<1>1. /\ req'[r] = c /\ \A q \in Requests : q # r => req'[q] = req[q]
  BY Moves DEF IInv
<1>2. req[r].slot # NoSlot /\ (c = Idle => c.slot = NoSlot)
  BY CallOf, IdleType
<1>3. Apart
  BY DEF IInv
<1>4. Known \subseteq Known'
  BY DEF Known
<1>5. (clients \cup pending \subseteq Known)'
  BY <1>2, <1>3, <1>4 DEF Apart
<1>6. \A q \in Requests : req'[q].slot \in Known' \cup {NoSlot}
  BY <1>1, <1>2, <1>3, <1>4 DEF Apart
<1>7. hand'.slot \in Known' \cup {NoSlot}
  BY <1>3, <1>4 DEF Apart
<1>8. \A p, q \in Requests :
        p # q /\ req'[p].slot = req'[q].slot => req'[p].slot \in crossed' \cup {NoSlot}
  BY <1>1, <1>2, <1>3 DEF Apart
<1>9. \A q \in Requests : req'[q].slot = hand'.slot => hand'.slot \in crossed' \cup {NoSlot}
  BY <1>1, <1>2, <1>3 DEF Apart
<1>10. \A q \in Requests :
         req'[q].at \in {"deleting", "clearing"} /\ req'[q].slot \in clients' => req'[q].slot \in crossed'
  BY <1>1, <1>2, <1>3 DEF Apart
<1>11. hand'.at = "drop" /\ hand'.slot \in clients' => hand'.slot \in crossed'
  BY <1>2, <1>3 DEF Apart
<1> QED
  BY <1>5, <1>6, <1>7, <1>8, <1>9, <1>10, <1>11 DEF Apart

\* A request begins on a slot: with a deletion, the client goes first.
LEMMA ApartBegins ==
  ASSUME IInv, NEW r \in Requests, req[r] = Idle, NEW s \in Slots, Meets(s),
         NEW c \in Calls, req' = [req EXCEPT ![r] = c], c.slot = s \/ c = Idle,
         c.at \in {"deleting", "clearing"} => s \notin clients',
         clients' \subseteq clients, pending' \subseteq pending,
         s \in DOMAIN multi'.accounts, DOMAIN multi.accounts \subseteq DOMAIN multi'.accounts,
         hand' = hand
  PROVE  Apart'
<1>1. /\ req'[r] = c /\ \A q \in Requests : q # r => req'[q] = req[q]
  BY Moves DEF IInv
<1>2. /\ req[r].slot = NoSlot /\ s # NoSlot /\ c.slot \in {s, NoSlot}
      /\ c.slot = NoSlot => c.at = "idle"
  BY IdleType, SlotsAssumption
<1>3. Apart
  BY DEF IInv
<1>4. crossed \subseteq crossed' /\ ((\E q \in Requests : req[q].slot = s) \/ hand.slot = s => s \in crossed')
  BY DEF Meets, Busy
<1>5. Known \subseteq Known' /\ s \in Known'
  BY <1>4 DEF Known
<1>6. (clients \cup pending \subseteq Known)'
  BY <1>3, <1>5 DEF Apart
<1>7. \A q \in Requests : req'[q].slot \in Known' \cup {NoSlot}
  BY <1>1, <1>2, <1>3, <1>5 DEF Apart
<1>8. hand'.slot \in Known' \cup {NoSlot}
  BY <1>3, <1>5 DEF Apart
<1>9. \A p, q \in Requests :
        p # q /\ req'[p].slot = req'[q].slot => req'[p].slot \in crossed' \cup {NoSlot}
  BY <1>1, <1>2, <1>3, <1>4 DEF Apart
<1>10. \A q \in Requests : req'[q].slot = hand'.slot => hand'.slot \in crossed' \cup {NoSlot}
  BY <1>1, <1>2, <1>3, <1>4 DEF Apart
<1>11. \A q \in Requests :
         req'[q].at \in {"deleting", "clearing"} /\ req'[q].slot \in clients' => req'[q].slot \in crossed'
  BY <1>1, <1>2, <1>3, <1>4 DEF Apart
<1>12. hand'.at = "drop" /\ hand'.slot \in clients' => hand'.slot \in crossed'
  BY <1>3, <1>4 DEF Apart
<1> QED
  BY <1>6, <1>7, <1>8, <1>9, <1>10, <1>11, <1>12 DEF Apart

\* The handler of the control bot goes on, or has nothing under way.
LEMMA ApartHandGoesOn ==
  ASSUME IInv, hand'.slot \in {NoSlot, hand.slot}, hand'.at # "drop",
         clients' \subseteq clients \cup ({hand.slot} \ {NoSlot}), pending' \subseteq pending,
         DOMAIN multi.accounts \subseteq DOMAIN multi'.accounts, crossed' = crossed, req' = req
  PROVE  Apart'
<1>1. Apart
  BY DEF IInv
<1>2. Known \subseteq Known'
  BY DEF Known
<1>3. (clients \cup pending \subseteq Known)'
  BY <1>1, <1>2 DEF Apart
<1>4. \A q \in Requests :
         req'[q].at \in {"deleting", "clearing"} /\ req'[q].slot \in clients' => req'[q].slot \in crossed'
  BY <1>1 DEF Apart
<1>5. /\ \A r \in Requests : req'[r].slot \in Known' \cup {NoSlot}
      /\ hand'.slot \in Known' \cup {NoSlot}
  BY <1>1, <1>2 DEF Apart
<1>6. /\ \A r, q \in Requests :
           r # q /\ req'[r].slot = req'[q].slot => req'[r].slot \in crossed' \cup {NoSlot}
      /\ \A r \in Requests : req'[r].slot = hand'.slot => hand'.slot \in crossed' \cup {NoSlot}
  BY <1>1 DEF Apart
<1> QED
  BY <1>3, <1>4, <1>5, <1>6 DEF Apart

\* It begins on a slot.
LEMMA ApartHandBegins ==
  ASSUME IInv, Listening, NEW s \in Slots, Meets(s), hand'.slot = s,
         hand'.at = "drop" => s \notin clients',
         clients' \subseteq clients, pending' \subseteq pending,
         s \in DOMAIN multi'.accounts \cup crossed',
         DOMAIN multi.accounts \subseteq DOMAIN multi'.accounts, req' = req
  PROVE  Apart'
<1>1. Apart
  BY DEF IInv
<1>2. crossed \subseteq crossed' /\ ((\E q \in Requests : req[q].slot = s) => s \in crossed')
  BY DEF Meets, Busy
<1>3. Known \subseteq Known' /\ s \in Known'
  BY <1>2 DEF Known
<1>4. (clients \cup pending \subseteq Known)'
  BY <1>1, <1>3 DEF Apart
<1>5. \A q \in Requests :
         req'[q].at \in {"deleting", "clearing"} /\ req'[q].slot \in clients' => req'[q].slot \in crossed'
  BY <1>1, <1>2 DEF Apart
<1>6. /\ \A r \in Requests : req'[r].slot \in Known' \cup {NoSlot}
      /\ hand'.slot \in Known' \cup {NoSlot}
  BY <1>1, <1>3 DEF Apart
<1>7. /\ \A r, q \in Requests :
           r # q /\ req'[r].slot = req'[q].slot => req'[r].slot \in crossed' \cup {NoSlot}
      /\ \A r \in Requests : req'[r].slot = hand'.slot => hand'.slot \in crossed' \cup {NoSlot}
  BY <1>1, <1>2 DEF Apart
<1> QED
  BY <1>4, <1>5, <1>6, <1>7 DEF Apart

\* A slot goes: what is left on it has crossed.
LEMMA ApartDeletes ==
  ASSUME IInv, NEW s \in SlotOrNone, DOMAIN multi'.accounts = DOMAIN multi.accounts \ {s},
         crossed \subseteq crossed', clients' \subseteq clients, pending' \subseteq pending,
         s \in clients' \cup pending' => s \in crossed',
         \A q \in Requests : req'[q] \in {req[q], Idle},
         \A q \in Requests : req'[q].slot = s => s \in crossed' \cup {NoSlot},
         hand' \in {hand, Rest}, hand'.slot = s => s \in crossed' \cup {NoSlot}
  PROVE  Apart'
<1>1. Apart
  BY DEF IInv
<1>2. /\ Idle.slot = NoSlot /\ Rest.slot = NoSlot
      /\ Idle.at \notin {"deleting", "clearing"} /\ Rest.at # "drop"
  BY IdleType, RestType
<1>3. \A x \in Known : x # s => x \in Known'
  BY DEF Known
<1>4. (clients \cup pending \subseteq Known)'
  BY <1>1, <1>3 DEF Apart, Known
<1>5. /\ \A q \in Requests : req'[q].slot \in Known' \cup {NoSlot}
      /\ hand'.slot \in Known' \cup {NoSlot}
  BY <1>1, <1>2, <1>3 DEF Apart, Known
<1>6. \A p, q \in Requests :
        p # q /\ req'[p].slot = req'[q].slot => req'[p].slot \in crossed' \cup {NoSlot}
  BY <1>1, <1>2 DEF Apart
<1>7. \A q \in Requests : req'[q].slot = hand'.slot => hand'.slot \in crossed' \cup {NoSlot}
  BY <1>1, <1>2 DEF Apart
<1>8. \A q \in Requests :
        req'[q].at \in {"deleting", "clearing"} /\ req'[q].slot \in clients' => req'[q].slot \in crossed'
  BY <1>1, <1>2 DEF Apart
<1>9. hand'.at = "drop" /\ hand'.slot \in clients' => hand'.slot \in crossed'
  BY <1>1, <1>2 DEF Apart
<1> QED
  BY <1>4, <1>5, <1>6, <1>7, <1>8, <1>9 DEF Apart

-----------------------------------------------------------------------------
(* What a step leaves alone stays as it was.                               *)

LEMMA StateStays ==
  ASSUME IInv, UNCHANGED <<multi, disk, answers>>
  PROVE  Whole' /\ SlotsAsAnswered'
BY DEF IInv, Whole, SlotsAsAnswered, answers

\* The slots there stay, and what is active of them.
LEMMA ScreenStays ==
  ASSUME IInv, shown' = shown, apiSince => apiSince', apiSince' \in BOOLEAN,
         \A s \in DOMAIN multi.accounts :
           s \in DOMAIN multi'.accounts /\ multi'.accounts[s] = multi.accounts[s],
         multi.active \in DOMAIN multi.accounts => multi'.active = multi.active,
         hand.at = "dead" => hand'.at = "dead",
         hand'.at = "drop" => hand' = hand,
         hand'.at \in {"check", "greet"} => hand' = hand \/ hand'.slot \in DOMAIN multi'.accounts
  PROVE  Screen'
BY DEF IInv, Screen, ShownIsActive, HandsOn, Has

LEMMA ScreenFree ==
  ASSUME apiSince' = TRUE
  PROVE  Screen'
BY DEF Screen, ShownIsActive, HandsOn

LEMMA ToldStays ==
  ASSUME IInv, shown' = shown, hand'.at \in {"start", "dead"} => hand' = hand,
         \A a \in Admins : wait'[a].kind \in Asked /\ ~wait'[a].torn =>
                             wait'[a] = wait[a] \/ wait'[a].obj = shown,
         hand.at \in {"start", "dead"} => wait' = wait
  PROVE  Told'
BY DEF IInv, Told, AnswerLandsWhereAsked, NoneAsked, Asked

\* A loop may be started for a slot that is there.
LEMMA LoopsStay ==
  ASSUME IInv, multi'.accounts = multi.accounts, running' \subseteq running, stale \subseteq stale',
         loops' = loops \/ \E s \in DOMAIN multi.accounts : Register(s, multi.accounts[s])
  PROVE  LoopsOfSlots'
<1>1. LoopsOfSlots
  BY DEF IInv
<1>2. CASE loops' = loops
  BY <1>1, <1>2 DEF LoopsOfSlots, Has, Live
<1>3. ASSUME NEW s \in DOMAIN multi.accounts, Register(s, multi.accounts[s]) PROVE LoopsOfSlots'
  <2>1. /\ DOMAIN loops' = DOMAIN loops \cup {s}
        /\ \A x \in DOMAIN loops' : loops'[x] = IF x = s THEN multi.accounts[s] ELSE loops[x]
    BY <1>3 DEF Register
  <2> QED
    BY <1>1, <2>1 DEF LoopsOfSlots, Has, Live
<1> QED
  BY <1>2, <1>3

LEMMA RegisterType ==
  ASSUME loops \in Tables, NEW s \in Slots, NEW o \in Objs, Register(s, o)
  PROVE  loops' \in Tables
<1>1. DOMAIN loops \subseteq Slots /\ loops \in [DOMAIN loops -> Objs]
  BY TablesDef
<1>2. loops' = [x \in DOMAIN loops \cup {s} |-> IF x = s THEN o ELSE loops[x]]
  BY DEF Register
<1>3. DOMAIN loops' = DOMAIN loops \cup {s} /\ loops' \in [DOMAIN loops \cup {s} -> Objs]
  BY <1>1, <1>2
<1> QED
  BY <1>1, <1>3, TablesDef

\* The API's calls that change no slot and no settings.
QuietCall ==
  /\ UNCHANGED <<multi, settings, disk, loops, hand, wait, shown, restarts, answers>>
  /\ UNCHANGED <<apiSince, stale>>

LEMMA QuietCallStep ==
  ASSUME IInv, QuietCall, req' \in [Requests -> Calls], Apart',
         clients' \subseteq Slots, files' \subseteq Slots, pending' \subseteq Slots,
         crossed' \subseteq Slots, tc' \in SlotOrNone
  PROVE  IInv'
<1>1. Whole' /\ SlotsAsAnswered'
  BY StateStays DEF QuietCall
<1>2. Screen'
  BY ScreenStays DEF QuietCall, IInv, SetTypes
<1>3. Told'
  BY ToldStays DEF QuietCall
<1>4. LoopsOfSlots'
  BY LoopsStay DEF QuietCall, settings
<1>5. CallTypes'
  BY DEF QuietCall, IInv, CallTypes
<1>6. SetTypes'
  BY DEF QuietCall, settings, answers, IInv, SetTypes
<1> QED
  BY <1>1, <1>2, <1>3, <1>4, <1>5, <1>6 DEF IInv

LEMMA PopClientOf ==
  ASSUME IInv, NEW s, PopClient(s)
  PROVE  /\ clients' = clients \ {s} /\ clients' \subseteq Slots /\ clients' \subseteq clients
         /\ tc' \in SlotOrNone
BY DEF IInv, SetTypes, PopClient, SlotOrNone

LEMMA MeetsOf ==
  ASSUME IInv, NEW s \in Slots, Meets(s)
  PROVE  crossed' \subseteq Slots
BY DEF IInv, SetTypes, Meets

\* What a slot of the state is.
LEMMA SlotOf ==
  ASSUME IInv
  PROVE  /\ multi \in States /\ DOMAIN multi.accounts \subseteq Slots
         /\ multi.accounts \in [DOMAIN multi.accounts -> Objs] /\ Live \subseteq Objs
         /\ multi.active \in SlotOrNone
         /\ \A s : Has(s) => s \in Slots /\ multi.accounts[s] \in Objs
<1>1. multi \in States
  BY DEF IInv, Whole, Sound
<1> QED
  BY <1>1, StateTypes DEF Has, Live

LEMMA SendCodeStep ==
  ASSUME IInv, NEW r \in Requests, NEW s \in Slots, SendCode(r, s)
  PROVE  IInv'
<1> DEFINE c == Call("connecting", s)
<1>1. /\ req[r] = Idle /\ Has(s) /\ Meets(s) /\ PopClient(s) /\ req' = [req EXCEPT ![r] = c]
      /\ files' = files \cup {s} /\ pending' = pending /\ QuietCall
  BY DEF SendCode, QuietCall
<1>2. c \in Calls /\ c.slot = s /\ c.at \notin {"deleting", "clearing"}
  BY CallType DEF Plain
<1> HIDE DEF c
<1>3. req' \in [Requests -> Calls]
  BY <1>1, <1>2, Moves DEF IInv
<1>4. multi' = multi /\ hand' = hand
  BY <1>1 DEF QuietCall
<1>5. Apart'
  BY <1>1, <1>2, <1>4, ApartBegins, PopClientOf DEF Has
<1>6. files' \subseteq Slots /\ pending' \subseteq Slots
  BY <1>1 DEF IInv, SetTypes
<1> QED
  BY <1>1, <1>3, <1>5, <1>6, QuietCallStep, PopClientOf, MeetsOf

LEMMA SignInStep ==
  ASSUME IInv, NEW r \in Requests, NEW s \in Slots, SignIn(r, s)
  PROVE  IInv'
<1> DEFINE c == Call("signing", s)
<1>1. /\ req[r] = Idle /\ Has(s) /\ Meets(s) /\ req' = [req EXCEPT ![r] = c]
      /\ clients' = clients /\ files' = files /\ pending' = pending /\ tc' = tc /\ QuietCall
  BY DEF SignIn, QuietCall, service, control
<1>2. c \in Calls /\ c.slot = s /\ c.at \notin {"deleting", "clearing"}
  BY CallType DEF Plain
<1> HIDE DEF c
<1>3. req' \in [Requests -> Calls]
  BY <1>1, <1>2, Moves DEF IInv
<1>4. multi' = multi /\ hand' = hand
  BY <1>1 DEF QuietCall
<1>5. Apart'
  BY <1>1, <1>2, <1>4, ApartBegins DEF Has
<1>6. clients' \subseteq Slots /\ files' \subseteq Slots /\ pending' \subseteq Slots /\ tc' \in SlotOrNone
  BY <1>1 DEF IInv, SetTypes
<1> QED
  BY <1>1, <1>3, <1>5, <1>6, QuietCallStep, MeetsOf

\* A request that goes on quietly.
LEMMA CallGoesOn ==
  ASSUME IInv, NEW r \in Requests, req[r].at \in Plain, QuietCall,
         End(r) \/ \E label \in Plain \ {"deleting", "clearing"} : Goto(r, label),
         clients' \in {clients, clients \cup {req[r].slot}},
         pending' \in {pending, pending \cup {req[r].slot}, pending \ {req[r].slot}},
         files' = files, tc' = tc, crossed' = crossed
  PROVE  IInv'
<1>1. PICK c \in Calls : /\ req' = [req EXCEPT ![r] = c] /\ (c = Idle \/ c.slot = req[r].slot)
                         /\ c.at \notin {"deleting", "clearing"}
  <2>1. CASE End(r)
    BY <2>1, IdleType DEF End
  <2>2. ASSUME NEW label \in Plain \ {"deleting", "clearing"}, Goto(r, label)
        PROVE  LET c == [at |-> label, slot |-> req[r].slot, obj |-> req[r].obj, does |-> req[r].does]
               IN  /\ c \in Calls /\ req' = [req EXCEPT ![r] = c]
                   /\ c.slot = req[r].slot /\ c.at \notin {"deleting", "clearing"}
    BY <2>2, GotoOf
  <2> QED
    BY <2>1, <2>2
<1>2. req' \in [Requests -> Calls]
  BY <1>1, Moves DEF IInv
<1>3. multi' = multi /\ hand' = hand
  BY DEF QuietCall
<1>4. clients' \subseteq clients \cup {req[r].slot} /\ pending' \subseteq pending \cup {req[r].slot}
  OBVIOUS
<1>5. Apart'
  BY <1>1, <1>3, <1>4, ApartGoesOn DEF Underway
<1>6. req[r].slot \in Slots
  BY CallOf DEF Underway, Plain
<1>7. /\ clients' \subseteq Slots /\ files' \subseteq Slots /\ pending' \subseteq Slots
      /\ crossed' \subseteq Slots /\ tc' \in SlotOrNone
  BY <1>6 DEF IInv, SetTypes
<1> QED
  BY <1>2, <1>5, <1>7, QuietCallStep

LEMMA ConnectedStep ==
  ASSUME IInv, NEW r \in Requests, Connected(r)
  PROVE  IInv'
<1>1. /\ req[r].at \in Plain /\ QuietCall
      /\ files' = files /\ pending' = pending /\ tc' = tc /\ crossed' = crossed
      /\ clients' \in {clients, clients \cup {req[r].slot}}
  BY DEF Connected, QuietCall, control, ghosts, Plain
<1>2. End(r) \/ \E label \in Plain \ {"deleting", "clearing"} : Goto(r, label)
  BY DEF Connected, Plain
<1> QED
  BY <1>1, <1>2, CallGoesOn

LEMMA CodeSentStep ==
  ASSUME IInv, NEW r \in Requests, CodeSent(r)
  PROVE  IInv'
<1>1. /\ req[r].at \in Plain /\ QuietCall
      /\ clients' = clients /\ files' = files /\ tc' = tc /\ crossed' = crossed
      /\ pending' \in {pending, pending \cup {req[r].slot}} /\ End(r)
  BY DEF CodeSent, QuietCall, control, ghosts, Plain
<1> QED
  BY <1>1, CallGoesOn

LEMMA SignedInStep ==
  ASSUME IInv, NEW r \in Requests, SignedIn(r)
  PROVE  IInv'
<1>1. /\ req[r].at \in Plain /\ QuietCall
      /\ files' = files /\ tc' = tc /\ crossed' = crossed
      /\ clients' \in {clients, clients \cup {req[r].slot}}
      /\ pending' \in {pending, pending \ {req[r].slot}}
  BY DEF SignedIn, QuietCall, control, ghosts, Plain
<1>2. End(r) \/ \E label \in Plain \ {"deleting", "clearing"} : Goto(r, label)
  BY DEF SignedIn, Plain
<1> QED
  BY <1>1, <1>2, CallGoesOn

LEMMA UploadedStep ==
  ASSUME IInv, NEW r \in Requests, Uploaded(r)
  PROVE  IInv'
<1>1. /\ req[r].at \in Plain /\ QuietCall
      /\ files' = files /\ pending' = pending /\ tc' = tc /\ crossed' = crossed
      /\ clients' \in {clients, clients \cup {req[r].slot}}
  BY DEF Uploaded, QuietCall, control, ghosts, Plain
<1>2. End(r) \/ \E label \in Plain \ {"deleting", "clearing"} : Goto(r, label)
  BY DEF Uploaded, Plain
<1> QED
  BY <1>1, <1>2, CallGoesOn

-----------------------------------------------------------------------------
(* The control bot, where it changes no slot and no settings.              *)

QuietHand ==
  /\ UNCHANGED <<multi, settings, disk, pending, req, shown, tc, restarts, answers>>
  /\ UNCHANGED <<apiSince, stale>>

StartsLoop == \E s \in DOMAIN multi.accounts : Register(s, multi.accounts[s])

LEMMA LoopsType ==
  ASSUME IInv, loops' = loops \/ StartsLoop
  PROVE  loops' \in Tables
<1>1. loops \in Tables
  BY DEF IInv, SetTypes
<1>2. ASSUME NEW s \in DOMAIN multi.accounts, Register(s, multi.accounts[s]) PROVE loops' \in Tables
  BY <1>1, <1>2, RegisterType, SlotOf DEF Has
<1> QED
  BY <1>1, <1>2 DEF StartsLoop

LEMMA QuietHandStep ==
  ASSUME IInv, QuietHand, hand' \in Handlers, hand'.at \notin {"drop", "start", "dead"},
         hand'.at \in {"check", "greet"} => hand' = hand \/ Has(hand'.slot),
         wait' \in [Admins -> Questions], hand.at # "dead", hand.at = "start" => wait' = wait,
         \A a \in Admins : wait'[a].kind \in Asked /\ ~wait'[a].torn =>
                             wait'[a] = wait[a] \/ wait'[a].obj = shown,
         loops' = loops \/ StartsLoop,
         Apart', clients' \subseteq Slots, files' \subseteq Slots, crossed' \subseteq Slots
  PROVE  IInv'
<1>1. Whole' /\ SlotsAsAnswered'
  BY StateStays DEF QuietHand
<1>2. Screen'
  BY ScreenStays DEF QuietHand, IInv, SetTypes, Has
<1>3. Told'
  BY ToldStays DEF QuietHand
<1>4. LoopsOfSlots'
  BY LoopsStay DEF QuietHand, settings, StartsLoop
<1>5. CallTypes'
  BY DEF QuietHand, IInv, CallTypes
<1>6. SetTypes'
  BY LoopsType DEF QuietHand, settings, answers, IInv, SetTypes
<1> QED
  BY <1>1, <1>2, <1>3, <1>4, <1>5, <1>6 DEF IInv

LEMMA TakeOf ==
  ASSUME NEW label \in Awaiting, NEW s \in Slots, NEW a \in Admins, Take(label, s, a)
  PROVE  /\ hand' \in Handlers /\ hand'.at = label /\ hand'.slot = s
         /\ hand'.at \notin {"start", "dead"}
BY DEF Take, Handlers, Awaiting

\* What may become of the open questions.
Questioned ==
  /\ wait' \in [Admins -> Questions]
  /\ \A a \in Admins : wait'[a].kind \in Asked /\ ~wait'[a].torn =>
                         wait'[a] = wait[a] \/ wait'[a].obj = shown

LEMMA WaitSame ==
  ASSUME IInv, wait' = wait
  PROVE  Questioned
BY DEF IInv, CallTypes, Questioned

LEMMA WaitSet ==
  ASSUME IInv, NEW a \in Admins, NEW w \in Questions, Wait(a, w),
         w.kind \in Asked => w.obj = shown
  PROVE  Questioned
BY WaitOf DEF IInv, Questioned

\* The handler listens and asks a question, or drops one.
LEMMA QuietQuestion ==
  ASSUME IInv, Listening, QuietHand, Questioned,
         hand' = hand, clients' = clients, files' = files, loops' = loops, crossed' = crossed
  PROVE  IInv'
<1>1. hand.at = "idle" /\ hand.slot = NoSlot /\ hand \in Handlers
  BY HandOf DEF IInv, CallTypes
<1>2. Apart'
  BY <1>1, ApartHandGoesOn DEF QuietHand
<1>3. clients' \subseteq Slots /\ files' \subseteq Slots /\ crossed' \subseteq Slots
  BY DEF IInv, SetTypes
<1> QED
  BY <1>1, <1>2, <1>3, QuietHandStep DEF Questioned

LEMMA AskStep ==
  ASSUME IInv, NEW a \in Admins, NEW kind \in Asked, Ask(a, kind)
  PROVE  IInv'
<1> DEFINE w == [kind |-> kind, slot |-> NoSlot, obj |-> shown, torn |-> FALSE]
<1>1. Listening /\ Wait(a, w) /\ QuietHand /\ hand' = hand /\ clients' = clients /\ files' = files
      /\ loops' = loops /\ crossed' = crossed
  BY DEF Ask, QuietHand, service, ghosts
<1>2. w \in Questions /\ w.obj = shown
  BY DEF Questions, Kinds, SlotOrNone, IInv, SetTypes
<1> HIDE DEF w
<1> QED
  BY <1>1, <1>2, WaitSet, QuietQuestion

LEMMA KindType ==
  ASSUME NEW kind \in {"accadd", "phone", "code"}, NEW s \in SlotOrNone, NEW w,
         \/ w = [NoWait EXCEPT !.kind = kind, !.slot = s]
         \/ w = [NoWait EXCEPT !.kind = kind] /\ s = NoSlot
  PROVE  w \in Questions /\ w.kind \notin Asked
<1>1. w = [kind |-> kind, slot |-> s, obj |-> NoObj, torn |-> FALSE]
  BY DEF NoWait
<1>2. kind \in Kinds /\ kind \notin Asked
  BY DEF Kinds, Asked
<1> QED
  BY <1>1, <1>2 DEF Questions

LEMMA AskNewSlotStep ==
  ASSUME IInv, NEW a \in Admins, AskNewSlot(a)
  PROVE  IInv'
<1> DEFINE w == [NoWait EXCEPT !.kind = "accadd"]
<1>1. Listening /\ Wait(a, w) /\ QuietHand /\ hand' = hand /\ clients' = clients /\ files' = files
      /\ loops' = loops /\ crossed' = crossed
  BY DEF AskNewSlot, QuietHand, service, ghosts
<1>2. w = [NoWait EXCEPT !.kind = "accadd"]
  OBVIOUS
<1> HIDE DEF w
<1>3. w \in Questions /\ w.kind \notin Asked
  BY <1>2, KindType DEF SlotOrNone
<1> QED
  BY <1>1, <1>3, WaitSet, QuietQuestion

LEMMA GoHomeStep ==
  ASSUME IInv, NEW a \in Admins, GoHome(a)
  PROVE  IInv'
<1>1. Listening /\ Wait(a, NoWait) /\ QuietHand /\ hand' = hand /\ clients' = clients /\ files' = files
      /\ loops' = loops /\ crossed' = crossed
  BY DEF GoHome, QuietHand, service, ghosts
<1> QED
  BY <1>1, NoWaitType, WaitSet, QuietQuestion

\* The handler begins to work on a slot.
LEMMA QuietBegins ==
  ASSUME IInv, Listening, QuietHand, NEW s \in Known, Meets(s), NEW a \in Admins,
         NEW label \in {"connect", "phone", "sign"}, Take(label, s, a), wait' = wait,
         clients' = clients, files' \in {files, files \cup {s}}, loops' = loops
  PROVE  IInv'
<1>1. s \in Slots
  BY SlotOf DEF Known, IInv, SetTypes
<1>2. /\ hand' \in Handlers /\ hand'.slot = s
      /\ hand'.at \notin {"drop", "start", "dead", "check", "greet"}
  BY <1>1, TakeOf DEF Awaiting
<1>3. multi' = multi /\ req' = req /\ pending' = pending /\ crossed \subseteq crossed'
  BY DEF QuietHand, Meets
<1>4. s \in DOMAIN multi'.accounts \cup crossed'
  BY <1>3 DEF Known
<1>5. Apart'
  BY <1>1, <1>2, <1>3, <1>4, ApartHandBegins
<1>6. clients' \subseteq Slots /\ files' \subseteq Slots /\ crossed' \subseteq Slots
  BY <1>1, MeetsOf DEF IInv, SetTypes
<1>7. hand.at = "idle"
  BY HandOf
<1> QED
  BY <1>2, <1>5, <1>6, <1>7, WaitSame, QuietHandStep DEF Questioned

LEMMA PressSlotStep ==
  ASSUME IInv, NEW a \in Admins, NEW s \in Slots, PressSlot(a, s)
  PROVE  IInv'
<1>1. /\ Listening /\ Has(s) /\ Meets(s) /\ Take("connect", s, a) /\ wait' = wait /\ QuietHand
      /\ clients' = clients /\ files' = files \cup {s} /\ loops' = loops
  BY DEF PressSlot, QuietHand
<1>2. s \in Known
  BY <1>1 DEF Known, Has
<1> QED
  BY <1>1, <1>2, QuietBegins

LEMMA AnswerPhoneStep ==
  ASSUME IInv, NEW a \in Admins, AnswerPhone(a)
  PROVE  IInv'
<1> DEFINE s == wait[a].slot
<1>1. /\ Listening /\ Has(s) /\ Meets(s) /\ Take("phone", s, a) /\ wait' = wait /\ QuietHand
      /\ clients' = clients /\ files' = files \cup {s} /\ loops' = loops
  BY DEF AnswerPhone, QuietHand
<1>2. s \in Known
  BY <1>1 DEF Known, Has
<1> HIDE DEF s
<1> QED
  BY <1>1, <1>2, QuietBegins

LEMMA AnswerCodeStep ==
  ASSUME IInv, NEW a \in Admins, AnswerCode(a)
  PROVE  IInv'
<1> DEFINE s == wait[a].slot
<1>1. Listening /\ QuietHand /\ clients' = clients /\ files' = files /\ loops' = loops
  BY DEF AnswerCode, QuietHand, service
<1>2. CASE s \notin clients /\ Wait(a, NoWait) /\ UNCHANGED <<hand, crossed>>
  BY <1>1, <1>2, NoWaitType, WaitSet, QuietQuestion
<1>3. CASE s \in clients /\ Take("sign", s, a) /\ Meets(s) /\ wait' = wait
  <2>1. s \in Known
    BY <1>3 DEF IInv, Apart
  <2> HIDE DEF s
  <2> QED
    BY <1>1, <1>3, <2>1, QuietBegins
<1> QED
  BY <1>2, <1>3 DEF AnswerCode

\* The handler goes on after an await.
LEMMA QuietGoesOn ==
  ASSUME IInv, QuietHand, hand.at \in Awaiting,
         \/ hand' = Rest
         \/ Has(hand.slot) /\ \E label \in {"check", "greet"} : Take(label, hand.slot, hand.who),
         Questioned, clients' \in {clients, clients \cup {hand.slot}}, files' = files,
         loops' = loops \/ StartsLoop, crossed' = crossed
  PROVE  IInv'
<1>1. hand.slot \in Slots /\ hand.slot # NoSlot /\ hand.who \in Admins /\ hand.at \notin {"start", "dead"}
  BY HandOf DEF Awaiting
<1>2. /\ hand' \in Handlers /\ hand'.at \notin {"drop", "start", "dead"}
      /\ hand'.slot \in {NoSlot, hand.slot}
      /\ hand'.at \in {"check", "greet"} => Has(hand'.slot)
  BY <1>1, RestType, TakeOf DEF Awaiting
<1>3. multi' = multi /\ req' = req /\ pending' = pending
  BY DEF QuietHand
<1>4. Apart'
  BY <1>1, <1>2, <1>3, ApartHandGoesOn
<1>5. clients' \subseteq Slots /\ files' \subseteq Slots /\ crossed' \subseteq Slots
  BY <1>1 DEF IInv, SetTypes
<1> QED
  BY <1>1, <1>2, <1>4, <1>5, QuietHandStep DEF Questioned

LEMMA SlotConnectedStep ==
  ASSUME IInv, SlotConnected
  PROVE  IInv'
<1>1. /\ hand.at \in Awaiting /\ QuietHand /\ files' = files /\ crossed' = crossed /\ wait' = wait
      /\ clients' \in {clients, clients \cup {hand.slot}}
  BY DEF SlotConnected, QuietHand, ghosts, Awaiting
<1>2. \/ hand' = Rest
      \/ Has(hand.slot) /\ \E label \in {"check", "greet"} : Take(label, hand.slot, hand.who)
  BY DEF SlotConnected
<1>3. loops' = loops \/ StartsLoop
  BY DEF SlotConnected, StartsLoop, Has
<1> QED
  BY <1>1, <1>2, <1>3, WaitSame, QuietGoesOn

LEMMA NewSlotConnectedStep ==
  ASSUME IInv, NewSlotConnected
  PROVE  IInv'
<1>1. /\ hand.at \in Awaiting /\ QuietHand /\ files' = files /\ crossed' = crossed /\ hand' = Rest
      /\ clients' \in {clients, clients \cup {hand.slot}}
  BY DEF NewSlotConnected, QuietHand, ghosts, Awaiting
<1>2. wait' = wait \/ Wait(hand.who, NoWait)
  BY DEF NewSlotConnected
<1>3. loops' = loops \/ StartsLoop
  BY DEF NewSlotConnected, StartsLoop, Has
<1>4. Questioned
  BY <1>1, <1>2, HandOf, NoWaitType, WaitSame, WaitSet
<1> QED
  BY <1>1, <1>3, <1>4, QuietGoesOn

LEMMA PhoneDoneStep ==
  ASSUME IInv, PhoneDone
  PROVE  IInv'
<1> DEFINE w == [NoWait EXCEPT !.kind = "code", !.slot = hand.slot]
<1>1. /\ hand.at \in Awaiting /\ QuietHand /\ files' = files /\ crossed' = crossed /\ hand' = Rest
      /\ clients' \in {clients, clients \cup {hand.slot}} /\ loops' = loops
  BY DEF PhoneDone, QuietHand, ghosts, Awaiting
<1>2. wait' = wait \/ Wait(hand.who, w)
  BY DEF PhoneDone
<1>3. w \in Questions /\ w.kind \notin Asked
  <2>1. w = [NoWait EXCEPT !.kind = "code", !.slot = hand.slot]
    OBVIOUS
  <2> HIDE DEF w
  <2> QED
    BY <2>1, HandOf, KindType
<1> HIDE DEF w
<1>4. Questioned
  BY <1>1, <1>2, <1>3, HandOf, WaitSame, WaitSet
<1> QED
  BY <1>1, <1>4, QuietGoesOn

LEMMA CodeDoneStep ==
  ASSUME IInv, CodeDone
  PROVE  IInv'
<1>1. /\ hand.at \in Awaiting /\ QuietHand /\ files' = files /\ crossed' = crossed
      /\ clients' \in {clients, clients \cup {hand.slot}}
  BY DEF CodeDone, QuietHand, ghosts, Awaiting
<1>2. \/ hand' = Rest
      \/ Has(hand.slot) /\ \E label \in {"check", "greet"} : Take(label, hand.slot, hand.who)
  BY DEF CodeDone
<1>3. wait' = wait \/ Wait(hand.who, NoWait)
  BY DEF CodeDone
<1>4. loops' = loops \/ StartsLoop
  BY DEF CodeDone, StartsLoop, Has
<1>5. Questioned
  BY <1>1, <1>3, HandOf, NoWaitType, WaitSame, WaitSet
<1> QED
  BY <1>1, <1>2, <1>4, <1>5, QuietGoesOn

LEMMA ListenStep ==
  ASSUME IInv, Listen
  PROVE  IInv'
<1>1. /\ hand.at = "start" /\ hand' = Rest /\ QuietHand /\ wait' = wait /\ clients' = clients
      /\ files' = files /\ loops' = loops /\ crossed' = crossed
  BY DEF Listen, QuietHand, service, ghosts
<1>2. Apart'
  BY <1>1, RestType, ApartHandGoesOn DEF QuietHand
<1>3. clients' \subseteq Slots /\ files' \subseteq Slots /\ crossed' \subseteq Slots
  BY <1>1 DEF IInv, SetTypes
<1> QED
  BY <1>1, <1>2, <1>3, RestType, WaitSame, QuietHandStep DEF Questioned

-----------------------------------------------------------------------------
(* The API, where it changes slots.                                        *)

LEMMA FreshOf ==
  ASSUME IInv, Fresh # {}, NEW o, o = CHOOSE x \in Fresh : TRUE
  PROVE  o \in Objs /\ o \notin Live /\ o \notin Range(loops)
<1>1. o \in Fresh
  OBVIOUS
<1> QED
  BY <1>1 DEF Fresh, Referenced

\* A save of the slots there are, none of them answered as gone.
LEMMA SavedAsIs ==
  ASSUME IInv, NEW m, Sound(m), m.accounts = multi.accounts, Save(m),
         gone' = gone, promised' \subseteq promised \cup DOMAIN multi.accounts
  PROVE  /\ Whole' /\ SlotsAsAnswered' /\ multi'.accounts = multi.accounts
         /\ m.active \in DOMAIN multi.accounts => multi'.active = m.active
         /\ multi'.active \in DOMAIN multi.accounts \cup {NoSlot}
BY SaveOf DEF IInv, Whole, SlotsAsAnswered

\* Nothing is under way that was not; no slot goes.
LEMMA ApartStays ==
  ASSUME IInv, DOMAIN multi.accounts \subseteq DOMAIN multi'.accounts, crossed' = crossed,
         clients' = clients, pending' = pending, req' = req, hand' = hand
  PROVE  Apart'
BY DEF IInv, Apart, Known

\* One slot at most goes, with its settings; one may come, with an object that
\* no loop has.
LEMMA LoopsLeft ==
  ASSUME IInv, NEW s, loops' = loops, stale \subseteq stale',
         \A x \in DOMAIN loops :
           loops[x] \in running' \cup Live' =>
             loops[x] \in (running \cup Live) \ Own(multi, s),
         \A x \in DOMAIN multi.accounts \ {s} :
           x \in DOMAIN multi'.accounts /\ multi'.accounts[x] = multi.accounts[x]
  PROVE  LoopsOfSlots'
BY DEF IInv, LoopsOfSlots, Has, Own

LEMMA AddSlotStep ==
  ASSUME IInv, NEW s \in Slots, NEW f \in BOOLEAN, AddSlot(s, f)
  PROVE  IInv'
<1>1. PICK o : /\ o = CHOOSE x \in Fresh : TRUE
               /\ filled' = (filled \ {o}) \cup (IF f THEN {o} ELSE {})
               /\ running' = running \ {o} /\ Save(WithSlot(multi, s, o))
  BY DEF AddSlot
<1>2. s \notin DOMAIN multi.accounts /\ Fresh # {}
  BY DEF AddSlot, Has
<1>3. o \in Objs /\ o \notin Live /\ o \notin Range(loops)
  BY <1>1, <1>2, FreshOf
<1> DEFINE m == WithSlot(multi, s, o)
<1>4. /\ Sound(m) /\ DOMAIN m.accounts = DOMAIN multi.accounts \cup {s}
      /\ \A x \in DOMAIN multi.accounts : m.accounts[x] = multi.accounts[x]
      /\ m.active = multi.active /\ Range(m.accounts) = Live \cup {o}
  BY <1>2, <1>3, WithSlotOf DEF IInv, Whole, Live
<1>5. Save(m)
  BY <1>1
<1> HIDE DEF m
<1>6. /\ Sound(multi') /\ SoundFile(disk') /\ multi'.accounts = m.accounts
      /\ disk'.slots = DOMAIN m.accounts
      /\ m.active \in DOMAIN m.accounts => multi'.active = m.active
  BY <1>4, <1>5, SaveOf
<1>7. /\ promised' = promised \cup {s} /\ gone' = gone \ {s} /\ req' = req /\ clients' = clients
      /\ files' = files /\ pending' = pending /\ loops' = loops /\ hand' = hand /\ wait' = wait
      /\ shown' = shown /\ tc' = tc /\ restarts' = restarts
      /\ apiSince' = apiSince /\ stale' = stale /\ crossed' = crossed
  BY DEF AddSlot, service, control, ghosts
<1>8. SlotsAsAnswered'
  BY <1>4, <1>6, <1>7 DEF IInv, SlotsAsAnswered
<1>9. Screen'
  BY <1>4, <1>6, <1>7, ScreenStays DEF IInv, SetTypes
<1>10. Told'
  BY <1>7, ToldStays
<1>11. LoopsOfSlots'
  <2>1. Live' = Live \cup {o}
    BY <1>4, <1>6 DEF Live
  <2>2. \A x \in DOMAIN loops : loops[x] # o
    BY <1>3 DEF Range
  <2>3. Own(multi, s) = {}
    BY <1>2 DEF Own
  <2> QED
    BY <1>1, <1>2, <1>4, <1>6, <1>7, <2>1, <2>2, <2>3, LoopsLeft
<1>12. Apart'
  BY <1>4, <1>6, <1>7, ApartStays
<1>13. CallTypes' /\ SetTypes'
  BY <1>1, <1>3, <1>7 DEF IInv, CallTypes, SetTypes
<1> QED
  BY <1>6, <1>8, <1>9, <1>10, <1>11, <1>12, <1>13 DEF IInv, Whole

LEMMA ActivateSlotStep ==
  ASSUME IInv, NEW s \in Slots, ActivateSlot(s)
  PROVE  IInv'
<1> DEFINE m == [multi EXCEPT !.active = s]
<1>1. Sound(m) /\ m.accounts = multi.accounts /\ m.active = s
  BY WithActive DEF IInv, Whole, SlotOrNone
<1>2. Save(m)
  BY DEF ActivateSlot
<1> HIDE DEF m
<1>3. /\ filled' = filled /\ running' = running /\ apiSince' = TRUE
      /\ promised' = promised /\ gone' = gone /\ req' = req /\ clients' = clients
      /\ files' = files /\ pending' = pending /\ loops' = loops /\ hand' = hand /\ wait' = wait
      /\ shown' = shown /\ tc' = tc /\ restarts' = restarts /\ stale' = stale /\ crossed' = crossed
  BY DEF ActivateSlot, settings, service, control, answers
<1>4. Whole' /\ SlotsAsAnswered' /\ multi'.accounts = multi.accounts
  BY <1>1, <1>2, <1>3, SavedAsIs
<1>5. Screen' /\ Told' /\ LoopsOfSlots' /\ Apart'
  BY <1>3, <1>4, ScreenFree, ToldStays, LoopsStay, ApartStays
<1>6. CallTypes' /\ SetTypes'
  BY <1>3 DEF IInv, CallTypes, SetTypes
<1> QED
  BY <1>4, <1>5, <1>6 DEF IInv

LEMMA PatchSlotStep ==
  ASSUME IInv, NEW s \in Slots, PatchSlot(s)
  PROVE  IInv'
<1>1. /\ Has(s) /\ Save(multi)
      /\ filled' = filled \cup {multi.accounts[s]} \/ filled' = filled \ {multi.accounts[s]}
      /\ running' = running /\ apiSince' = apiSince
      /\ promised' = promised /\ gone' = gone /\ req' = req /\ clients' = clients
      /\ files' = files /\ pending' = pending /\ loops' = loops /\ hand' = hand /\ wait' = wait
      /\ shown' = shown /\ tc' = tc /\ restarts' = restarts /\ stale' = stale /\ crossed' = crossed
  BY DEF PatchSlot, Saves, service, control, answers, ghosts
<1>2. /\ Whole' /\ SlotsAsAnswered' /\ multi'.accounts = multi.accounts
      /\ multi.active \in DOMAIN multi.accounts => multi'.active = multi.active
  BY <1>1, SavedAsIs DEF IInv, Whole
<1>3. Screen'
  BY <1>1, <1>2, ScreenStays DEF IInv, SetTypes
<1>4. Told' /\ LoopsOfSlots' /\ Apart'
  BY <1>1, <1>2, ToldStays, LoopsStay, ApartStays
<1>5. CallTypes' /\ SetTypes'
  BY <1>1, SlotOf DEF IInv, CallTypes, SetTypes
<1> QED
  BY <1>2, <1>3, <1>4, <1>5 DEF IInv

\* The deletion itself.
LEMMA DeleteNowOf ==
  ASSUME IInv, NEW s \in Slots, DeleteNow(s)
  PROVE  /\ Whole' /\ SlotsAsAnswered' /\ Screen' /\ LoopsOfSlots'
         /\ DOMAIN multi'.accounts = DOMAIN multi.accounts \ {s}
         /\ filled' \subseteq Objs /\ running' \subseteq Objs /\ stale' \subseteq Objs
         /\ files' \subseteq Slots /\ pending' \subseteq Slots /\ pending' = pending \ {s}
         /\ promised' \subseteq Slots /\ gone' \subseteq Slots
         /\ loops' \in Tables /\ apiSince' = TRUE /\ restarts' \in 0 .. MaxRestarts
<1> DEFINE m == WithoutSlot(multi, s)
<1>1. /\ Sound(m) /\ DOMAIN m.accounts = DOMAIN multi.accounts \ {s}
      /\ \A x \in DOMAIN m.accounts : m.accounts[x] = multi.accounts[x]
      /\ Range(m.accounts) = Live \ Own(multi, s)
  <2>1. Sound(multi) /\ Live = Range(multi.accounts)
    BY DEF IInv, Whole, Live
  <2>2. /\ Sound(m) /\ DOMAIN m.accounts = DOMAIN multi.accounts \ {s}
        /\ \A x \in DOMAIN m.accounts : m.accounts[x] = multi.accounts[x]
    BY <2>1, WithoutSlotOf
  <2>3. Range(m.accounts) = Range(multi.accounts) \ Own(multi, s)
    BY <2>1, WithoutSlotOf
  <2> HIDE DEF m
  <2> QED
    BY <2>1, <2>2, <2>3
<1>2. Save(m)
  BY DEF DeleteNow
<1> HIDE DEF m
<1>3. /\ Sound(multi') /\ SoundFile(disk') /\ multi'.accounts = m.accounts
      /\ disk'.slots = DOMAIN m.accounts
  BY <1>1, <1>2, SaveOf
<1>4. /\ running' = IF Has(s) THEN running \ {multi.accounts[s]} ELSE running
      /\ pending' = pending \ {s} /\ files' = files \ {s} /\ apiSince' = TRUE
      /\ promised' = promised \ {s} /\ gone' = gone \cup {s}
      /\ filled' = filled /\ loops' = loops /\ stale' = stale /\ restarts' = restarts
  BY DEF DeleteNow, Erase
<1>5. SlotsAsAnswered'
  BY <1>1, <1>3, <1>4 DEF IInv, SlotsAsAnswered
<1>6. LoopsOfSlots'
  <2>1. Live' = Live \ Own(multi, s)
    BY <1>1, <1>3 DEF Live
  <2>2. running' = running \ Own(multi, s)
    BY <1>4 DEF Has, Own
  <2> QED
    BY <1>1, <1>3, <1>4, <2>1, <2>2, LoopsLeft
<1>7. Screen'
  BY <1>4, ScreenFree
<1>8. /\ filled \subseteq Objs /\ running \subseteq Objs /\ stale \subseteq Objs
      /\ files \subseteq Slots /\ pending \subseteq Slots /\ promised \subseteq Slots
      /\ gone \subseteq Slots /\ loops \in Tables /\ restarts \in 0 .. MaxRestarts
  BY DEF IInv, SetTypes
<1> QED
  BY <1>1, <1>3, <1>4, <1>5, <1>6, <1>7, <1>8 DEF Whole

LEMMA DeleteSlotStep ==
  ASSUME IInv, NEW r \in Requests, NEW s \in Slots, DeleteSlot(r, s)
  PROVE  IInv'
<1>1. /\ req[r] = Idle /\ Has(s) /\ Meets(s) /\ hand' = hand /\ wait' = wait /\ shown' = shown
  BY DEF DeleteSlot
<1>2. CASE s \in clients
  <2> DEFINE c == Call("deleting", s)
  <2>1. /\ PopClient(s) /\ req' = [req EXCEPT ![r] = c] /\ QuietCall /\ files' = files
        /\ pending' = pending /\ multi' = multi
    BY <1>2 DEF DeleteSlot, QuietCall
  <2>2. c \in Calls /\ c.slot = s
    BY CallType DEF Plain
  <2> HIDE DEF c
  <2>3. req' \in [Requests -> Calls]
    BY <2>1, <2>2, Moves DEF IInv
  <2>4. clients' = clients \ {s} /\ clients' \subseteq Slots /\ tc' \in SlotOrNone
    BY <2>1, PopClientOf
  <2>5. Apart'
    BY <1>1, <2>1, <2>2, <2>4, ApartBegins DEF Has
  <2>6. files' \subseteq Slots /\ pending' \subseteq Slots
    BY <2>1 DEF IInv, SetTypes
  <2> QED
    BY <1>1, <2>1, <2>3, <2>4, <2>5, <2>6, QuietCallStep, MeetsOf
<1>3. CASE s \notin clients
  <2>1. DeleteNow(s) /\ req' = req /\ clients' = clients /\ tc' = tc
    BY <1>3 DEF DeleteSlot
  <2>2. crossed \subseteq crossed' /\ (Busy(s) => s \in crossed') /\ crossed' \subseteq Slots
    BY <1>1, MeetsOf DEF Meets
  <2>3. Apart'
    <3>1. /\ \A q \in Requests : req'[q].slot = s => s \in crossed' \cup {NoSlot}
          /\ hand'.slot = s => s \in crossed' \cup {NoSlot}
      BY <1>1, <2>1, <2>2 DEF Busy
    <3> QED
      BY <1>1, <1>3, <2>1, <2>2, <3>1, DeleteNowOf, ApartDeletes DEF SlotOrNone
  <2>4. Told'
    BY <1>1, ToldStays
  <2>5. CallTypes'
    BY <1>1, <2>1 DEF IInv, CallTypes
  <2>6. SetTypes'
    BY <1>1, <2>1, <2>2, DeleteNowOf DEF IInv, SetTypes
  <2> QED
    BY <2>1, <2>3, <2>4, <2>5, <2>6, DeleteNowOf DEF IInv
<1> QED
  BY <1>2, <1>3

LEMMA DeleteFinishStep ==
  ASSUME IInv, NEW r \in Requests, DeleteFinish(r)
  PROVE  IInv'
<1> DEFINE s == req[r].slot
<1>1. /\ req[r].at = "deleting" /\ DeleteNow(s) /\ req' = [req EXCEPT ![r] = Idle]
      /\ clients' = clients /\ hand' = hand /\ wait' = wait /\ shown' = shown /\ tc' = tc
      /\ crossed' = crossed
  BY DEF DeleteFinish, control
<1>2. s \in Slots /\ s # NoSlot
  BY <1>1, CallOf DEF Underway, Plain
<1>3. /\ req' \in [Requests -> Calls] /\ req'[r] = Idle
      /\ \A q \in Requests : q # r => req'[q] = req[q]
  BY <1>1, IdleType, Moves DEF IInv
<1>4. Apart'
  <2>1. Apart
    BY DEF IInv
  <2>2. /\ \A q \in Requests : req'[q].slot = s => s \in crossed' \cup {NoSlot}
        /\ \A q \in Requests : req'[q] \in {req[q], Idle}
        /\ hand'.slot = s => s \in crossed' \cup {NoSlot}
        /\ s \in clients => s \in crossed
    BY <1>1, <1>2, <1>3, <2>1, IdleType DEF Apart
  <2>3. pending' = pending \ {s} /\ DOMAIN multi'.accounts = DOMAIN multi.accounts \ {s}
    BY <1>1, <1>2, DeleteNowOf
  <2> HIDE DEF s
  <2> QED
    BY <1>1, <1>2, <2>2, <2>3, ApartDeletes DEF SlotOrNone
<1>5. Told'
  BY <1>1, ToldStays
<1>6. CallTypes'
  BY <1>1, <1>3 DEF IInv, CallTypes
<1> HIDE DEF s
<1>7. SetTypes'
  BY <1>1, <1>2, DeleteNowOf DEF IInv, SetTypes
<1> QED
  BY <1>1, <1>2, <1>4, <1>5, <1>6, <1>7, DeleteNowOf DEF IInv

\* A sign-in or an upload ends: the slot is saved, or nothing happens.
LEMMA GreetedStep ==
  ASSUME IInv, NEW r \in Requests, Greeted(r)
  PROVE  IInv'
<1> DEFINE s == req[r].slot
<1>1. /\ req[r].at \in Underway /\ req' = [req EXCEPT ![r] = Idle]
      /\ clients' = clients /\ files' = files /\ pending' = pending /\ hand' = hand /\ wait' = wait
      /\ shown' = shown /\ tc' = tc /\ restarts' = restarts /\ gone' = gone
      /\ apiSince' = apiSince /\ stale' = stale /\ crossed' = crossed
  BY DEF Greeted, End, control, ghosts, Underway, Plain
<1>2. \/ /\ Has(s) /\ Register(s, multi.accounts[s]) /\ filled' = filled /\ running' = running
         /\ Save(multi) /\ promised' = promised \cup {s}
      \/ UNCHANGED <<multi, filled, running, disk, loops, promised>>
  BY DEF Greeted, Saves, settings
<1> HIDE DEF s
<1>3. /\ Whole' /\ SlotsAsAnswered' /\ multi'.accounts = multi.accounts
      /\ multi.active \in DOMAIN multi.accounts => multi'.active = multi.active
      /\ filled' = filled /\ running' = running /\ promised' \subseteq Slots
      /\ loops' = loops \/ StartsLoop
  <2>1. CASE Has(s) /\ Save(multi) /\ promised' = promised \cup {s}
    BY <1>1, <1>2, <2>1, SavedAsIs, SlotOf DEF IInv, Whole, SetTypes, Has, StartsLoop
  <2>2. CASE UNCHANGED <<multi, filled, running, disk, loops, promised>>
    BY <1>1, <2>2, StateStays DEF answers, IInv, SetTypes
  <2> QED
    BY <1>2, <2>1, <2>2
<1>4. Screen'
  BY <1>1, <1>3, ScreenStays DEF IInv, SetTypes
<1>5. Told' /\ LoopsOfSlots'
  <2>1. Told'
    BY <1>1, ToldStays
  <2>2. LoopsOfSlots'
    BY <1>1, <1>3, LoopsStay DEF StartsLoop
  <2> QED
    BY <2>1, <2>2
<1>6. Apart'
  BY <1>1, <1>3, IdleType, ApartGoesOn
<1>7. CallTypes'
  BY <1>1, IdleType, Moves DEF IInv, CallTypes
<1>8. SetTypes'
  <2>1. loops' \in Tables
    BY <1>3, LoopsType
  <2> QED
    BY <1>1, <1>3, <2>1 DEF IInv, SetTypes
<1> QED
  BY <1>3, <1>4, <1>5, <1>6, <1>7, <1>8 DEF IInv

LEMMA NotAuthorisedStep ==
  ASSUME IInv, NEW r \in Requests, NotAuthorised(r)
  PROVE  IInv'
<1>1. /\ req[r].at \in Underway /\ req' = [req EXCEPT ![r] = Idle]
      /\ clients' = clients /\ files' = files /\ pending' = pending /\ loops' = loops
      /\ hand' = hand /\ wait' = wait
      /\ shown' = shown /\ tc' = tc /\ restarts' = restarts /\ gone' = gone
      /\ apiSince' = apiSince /\ stale' = stale /\ crossed' = crossed
      /\ filled' = filled /\ running' = running /\ Save(multi)
      /\ promised' = promised \cup ({req[r].slot} \cap DOMAIN multi.accounts)
  BY DEF NotAuthorised, End, Saves, settings, service, control, ghosts, Underway, Plain
<1>2. /\ Whole' /\ SlotsAsAnswered' /\ multi'.accounts = multi.accounts
      /\ multi.active \in DOMAIN multi.accounts => multi'.active = multi.active
  BY <1>1, SavedAsIs DEF IInv, Whole
<1>3. Screen'
  BY <1>1, <1>2, ScreenStays DEF IInv, SetTypes
<1>4. Told' /\ LoopsOfSlots'
  BY <1>1, <1>2, ToldStays, LoopsStay
<1>5. Apart'
  BY <1>1, <1>2, IdleType, ApartGoesOn
<1>6. CallTypes'
  BY <1>1, IdleType, Moves DEF IInv, CallTypes
<1>7. SetTypes'
  BY <1>1, SlotOf DEF IInv, SetTypes
<1> QED
  BY <1>2, <1>3, <1>4, <1>5, <1>6, <1>7 DEF IInv

-----------------------------------------------------------------------------
(* The API, where it needs the slot's client.                              *)

Purposes == {"spam", "look", "chats", "loop"}

\* A request goes on about the slot s, or ends.
GoesTo(r, s) ==
  \E c \in Calls : /\ req' = [req EXCEPT ![r] = c] /\ (c = Idle \/ c.slot = s)
                   /\ c.at \notin {"deleting", "clearing"}

LEMMA EndGoes ==
  ASSUME NEW r \in Requests, NEW s, End(r)
  PROVE  GoesTo(r, s)
BY IdleType DEF End, GoesTo

LEMMA ServingGoes ==
  ASSUME IInv, NEW r \in Requests, req[r].at \in Serving, NEW label \in Serving, Goto(r, label)
  PROVE  GoesTo(r, req[r].slot)
<1> DEFINE c == [at |-> label, slot |-> req[r].slot, obj |-> req[r].obj, does |-> req[r].does]
<1>1. c \in Calls /\ req' = [req EXCEPT ![r] = c]
  BY GotoOf
<1>2. c.slot = req[r].slot /\ c.at \notin {"deleting", "clearing"}
  BY DEF Serving
<1> HIDE DEF c
<1> QED
  BY <1>1, <1>2 DEF GoesTo

LEMMA EnsureOf ==
  ASSUME IInv, NEW r \in Requests, NEW s, Has(s), NEW does \in Purposes, Ensure(r, s, does)
  PROVE  /\ files' \subseteq Slots /\ (loops' = loops \/ StartsLoop) /\ GoesTo(r, s)
<1>1. s \in Slots /\ multi.accounts[s] \in Objs /\ files \subseteq Slots
  BY SlotOf DEF IInv, SetTypes
<1>2. PICK at \in {"ready", "reaching", "making"} :
        /\ files' = IF at = "making" THEN files \cup {s} ELSE files
        /\ \/ Register(s, multi.accounts[s]) /\ End(r)
           \/ /\ req' = [req EXCEPT ![r] = [at |-> at, slot |-> s, obj |-> multi.accounts[s],
                                            does |-> does]]
              /\ loops' = loops
  BY DEF Ensure
<1>3. CASE Register(s, multi.accounts[s]) /\ End(r)
  BY <1>1, <1>2, <1>3, EndGoes DEF StartsLoop, Has
<1>4. CASE /\ req' = [req EXCEPT ![r] = [at |-> at, slot |-> s, obj |-> multi.accounts[s],
                                         does |-> does]]
           /\ loops' = loops
  <2> DEFINE c == [at |-> at, slot |-> s, obj |-> multi.accounts[s], does |-> does]
  <2>1. c \in Calls
    BY <1>1 DEF Calls, Serving, Purposes
  <2>2. c.slot = s /\ c.at \notin {"deleting", "clearing"}
    OBVIOUS
  <2> HIDE DEF c
  <2>3. GoesTo(r, s)
    BY <1>4, <2>1, <2>2 DEF GoesTo, c
  <2> QED
    BY <1>1, <1>2, <1>4, <2>3
<1> QED
  BY <1>2, <1>3, <1>4

LEMMA ServedOf ==
  ASSUME IInv, NEW r \in Requests, req[r].at \in Serving, NEW again \in BOOLEAN, Served(r, again)
  PROVE  (loops' = loops \/ StartsLoop) /\ GoesTo(r, req[r].slot)
<1>1. loops' = loops \/ StartsLoop
  BY DEF Served, StartsLoop, Has
<1>2. End(r) \/ Goto(r, "ready")
  BY DEF Served
<1> QED
  BY <1>1, <1>2, EndGoes, ServingGoes DEF Serving

LEMMA GoesType ==
  ASSUME IInv, NEW r \in Requests, NEW s, GoesTo(r, s)
  PROVE  req' \in [Requests -> Calls]
BY Moves DEF GoesTo, IInv

\* What such a call leaves alone.
Aside == UNCHANGED <<pending, hand, wait, shown, restarts, answers, apiSince>>

LEMMA ServingStep ==
  ASSUME IInv, Aside, Whole', SlotsAsAnswered', multi'.accounts = multi.accounts,
         multi.active \in DOMAIN multi.accounts => multi'.active = multi.active,
         req' \in [Requests -> Calls], Apart', LoopsOfSlots', loops' \in Tables,
         filled' \subseteq Objs, running' \subseteq Objs, stale' \subseteq Objs,
         clients' \subseteq Slots, files' \subseteq Slots, crossed' \subseteq Slots,
         tc' \in SlotOrNone
  PROVE  IInv'
<1>1. /\ hand' = hand /\ wait' = wait /\ shown' = shown /\ apiSince' = apiSince
      /\ pending' = pending /\ restarts' = restarts /\ promised' = promised /\ gone' = gone
  BY DEF Aside, answers
<1>2. Screen'
  BY <1>1, ScreenStays DEF IInv, SetTypes
<1>3. Told'
  BY <1>1, ToldStays
<1>4. CallTypes'
  BY <1>1 DEF IInv, CallTypes
<1>5. SetTypes'
  BY <1>1 DEF IInv, SetTypes
<1> QED
  BY <1>2, <1>3, <1>4, <1>5 DEF IInv

\* The settings are saved or left as they were, the loop kept or started anew.
LEMMA ServingSaves ==
  ASSUME IInv, Aside, UNCHANGED <<multi, disk>> \/ Saves,
         loops' = loops \/ StartsLoop, running' \subseteq running, stale' = stale,
         filled' \subseteq Objs, tc' \in SlotOrNone,
         clients' \subseteq Slots, files' \subseteq Slots, crossed' \subseteq Slots,
         req' \in [Requests -> Calls],
         multi'.accounts = multi.accounts => Apart'
  PROVE  IInv'
<1>1. promised' = promised /\ gone' = gone
  BY DEF Aside, answers
<1>2. /\ Whole' /\ SlotsAsAnswered' /\ multi'.accounts = multi.accounts
      /\ multi.active \in DOMAIN multi.accounts => multi'.active = multi.active
  <2>1. CASE UNCHANGED <<multi, disk>>
    BY <1>1, <2>1, StateStays DEF answers
  <2>2. CASE Saves
    BY <1>1, <2>2, SavedAsIs DEF IInv, Whole, Saves
  <2> QED
    BY <2>1, <2>2
<1>3. LoopsOfSlots' /\ loops' \in Tables
  <2>1. loops' \in Tables
    BY LoopsType
  <2>2. LoopsOfSlots'
    BY <1>2, LoopsStay DEF StartsLoop
  <2> QED
    BY <2>1, <2>2
<1>4. running' \subseteq Objs /\ stale' \subseteq Objs
  BY DEF IInv, SetTypes
<1> QED
  BY <1>2, <1>3, <1>4, ServingStep

LEMMA NeedsStep ==
  ASSUME IInv, NEW r \in Requests, NEW s \in Slots, NEW does \in Purposes, Needs(r, s, does)
  PROVE  IInv'
<1>1. /\ req[r] = Idle /\ Has(s) /\ Meets(s) /\ Ensure(r, s, does) /\ Aside
      /\ multi' = multi /\ disk' = disk /\ filled' = filled /\ running' = running
      /\ clients' = clients /\ pending' = pending /\ tc' = tc /\ hand' = hand /\ stale' = stale
  BY DEF Needs, Aside, settings, control
<1>2. /\ files' \subseteq Slots /\ (loops' = loops \/ StartsLoop) /\ GoesTo(r, s)
      /\ req' \in [Requests -> Calls] /\ crossed' \subseteq Slots
  BY <1>1, EnsureOf, GoesType, MeetsOf
<1>3. Apart'
  BY <1>1, <1>2, ApartBegins DEF GoesTo, Has
<1>4. filled' \subseteq Objs /\ tc' \in SlotOrNone /\ clients' \subseteq Slots
  BY <1>1 DEF IInv, SetTypes
<1> QED
  BY <1>1, <1>2, <1>3, <1>4, ServingSaves

LEMMA PatchChatStep ==
  ASSUME IInv, NEW r \in Requests, NEW s \in Slots, PatchChat(r, s)
  PROVE  IInv'
<1>1. /\ req[r] = Idle /\ Has(s) /\ Meets(s) /\ Ensure(r, s, "loop") /\ Aside /\ Saves
      /\ filled' = filled \cup {multi.accounts[s]} /\ running' = running
      /\ clients' = clients /\ pending' = pending /\ tc' = tc /\ hand' = hand /\ stale' = stale
  BY DEF PatchChat, Aside, control
<1>2. /\ files' \subseteq Slots /\ (loops' = loops \/ StartsLoop) /\ GoesTo(r, s)
      /\ req' \in [Requests -> Calls] /\ crossed' \subseteq Slots
  <2>1. "loop" \in Purposes
    BY DEF Purposes
  <2> QED
    BY <1>1, <2>1, EnsureOf, GoesType, MeetsOf
<1>3. ASSUME multi'.accounts = multi.accounts PROVE Apart'
  BY <1>1, <1>2, <1>3, ApartBegins DEF GoesTo, Has
<1>4. filled' \subseteq Objs /\ tc' \in SlotOrNone /\ clients' \subseteq Slots
  BY <1>1, SlotOf DEF IInv, SetTypes
<1> QED
  BY <1>1, <1>2, <1>3, <1>4, ServingSaves

LEMMA StopSpamStep ==
  ASSUME IInv, NEW s \in Slots, StopSpam(s)
  PROVE  IInv'
<1>1. /\ Has(s) /\ Saves /\ Aside /\ running' \subseteq running /\ filled' = filled
      /\ req' = req /\ clients' = clients /\ files' = files /\ pending' = pending
      /\ loops' = loops /\ hand' = hand /\ tc' = tc /\ stale' = stale /\ crossed' = crossed
  BY DEF StopSpam, Aside, service, control, ghosts
<1>2. ASSUME multi'.accounts = multi.accounts PROVE Apart'
  BY <1>1, <1>2, ApartStays
<1>3. /\ filled' \subseteq Objs /\ tc' \in SlotOrNone /\ clients' \subseteq Slots
      /\ files' \subseteq Slots /\ crossed' \subseteq Slots /\ req' \in [Requests -> Calls]
  BY <1>1 DEF IInv, SetTypes, CallTypes
<1> QED
  BY <1>1, <1>2, <1>3, ServingSaves

\* A call about its slot goes on.
LEMMA ServingApart ==
  ASSUME IInv, NEW r \in Requests, req[r].at \in Serving, GoesTo(r, req[r].slot),
         clients' \subseteq clients \cup {req[r].slot}, pending' = pending, hand' = hand,
         crossed' = crossed, multi'.accounts = multi.accounts
  PROVE  Apart'
BY ApartGoesOn DEF GoesTo, Underway

LEMMA ReachedStep ==
  ASSUME IInv, NEW r \in Requests, Reached(r)
  PROVE  IInv'
<1>1. /\ req[r].at \in Serving /\ Aside
      /\ multi' = multi /\ disk' = disk /\ filled' = filled /\ running' = running
      /\ pending' = pending /\ hand' = hand /\ stale' = stale /\ crossed' = crossed
  BY DEF Reached, Aside, settings, ghosts, Serving
<1>2. req[r].slot \in Slots
  BY <1>1, CallOf DEF Underway
<1>3. /\ clients' \subseteq clients /\ tc' \in SlotOrNone /\ files' \subseteq Slots
      /\ (loops' = loops \/ StartsLoop) /\ GoesTo(r, req[r].slot)
  <2>1. CASE Served(r, FALSE) /\ UNCHANGED <<clients, files, tc>>
    BY <1>1, <2>1, ServedOf DEF IInv, SetTypes
  <2>2. CASE /\ Goto(r, "remaking") /\ PopClient(req[r].slot)
             /\ files' = files \cup {req[r].slot} /\ UNCHANGED loops
    <3>1. "remaking" \in Serving
      BY DEF Serving
    <3>2. files' \subseteq Slots
      BY <1>2, <2>2 DEF IInv, SetTypes
    <3> QED
      BY <1>1, <2>2, <3>1, <3>2, ServingGoes, PopClientOf
  <2> QED
    BY <2>1, <2>2 DEF Reached
<1>4. /\ req' \in [Requests -> Calls] /\ clients' \subseteq Slots /\ crossed' \subseteq Slots
      /\ filled' \subseteq Objs
  BY <1>1, <1>3, GoesType DEF IInv, SetTypes
<1>5. Apart'
  BY <1>1, <1>3, ServingApart
<1> QED
  BY <1>1, <1>3, <1>4, <1>5, ServingSaves

LEMMA MadeStep ==
  ASSUME IInv, NEW r \in Requests, Made(r)
  PROVE  IInv'
<1>1. /\ req[r].at \in Serving /\ Aside
      /\ multi' = multi /\ disk' = disk /\ filled' = filled /\ running' = running
      /\ files' = files /\ tc' = tc
      /\ pending' = pending /\ hand' = hand /\ stale' = stale /\ crossed' = crossed
  BY DEF Made, Aside, settings, ghosts, control, Serving
<1>2. req[r].slot \in Slots
  BY <1>1, CallOf DEF Underway
<1>3. /\ clients' \subseteq clients \cup {req[r].slot}
      /\ (loops' = loops \/ StartsLoop) /\ GoesTo(r, req[r].slot)
  <2>1. CASE End(r) /\ UNCHANGED <<clients, loops>>
    BY <2>1, EndGoes
  <2>2. CASE /\ clients' = clients \cup {req[r].slot}
             /\ Served(r, req[r].at = "remaking" /\ req[r].obj \in running)
    BY <1>1, <2>2, ServedOf
  <2> QED
    BY <2>1, <2>2 DEF Made
<1>4. /\ req' \in [Requests -> Calls] /\ clients' \subseteq Slots /\ crossed' \subseteq Slots
      /\ filled' \subseteq Objs /\ files' \subseteq Slots /\ tc' \in SlotOrNone
  BY <1>1, <1>2, <1>3, GoesType DEF IInv, SetTypes
<1>5. Apart'
  BY <1>1, <1>3, ServingApart
<1> QED
  BY <1>1, <1>3, <1>4, <1>5, ServingSaves

LEMMA ListedStep ==
  ASSUME IInv, NEW r \in Requests, Listed(r)
  PROVE  IInv'
<1>1. /\ req[r].at \in Serving /\ Aside /\ End(r)
      /\ multi' = multi /\ disk' = disk /\ filled' = filled /\ running' = running
      /\ clients' = clients /\ files' = files /\ tc' = tc /\ loops' = loops
      /\ pending' = pending /\ hand' = hand /\ stale' = stale /\ crossed' = crossed
  BY DEF Listed, Aside, settings, service, ghosts, control, Serving
<1>2. GoesTo(r, req[r].slot)
  BY <1>1, EndGoes
<1>3. /\ req' \in [Requests -> Calls] /\ clients' \subseteq Slots /\ crossed' \subseteq Slots
      /\ filled' \subseteq Objs /\ files' \subseteq Slots /\ tc' \in SlotOrNone
  BY <1>1, <1>2, GoesType DEF IInv, SetTypes
<1>4. Apart'
  BY <1>1, <1>2, ServingApart
<1> QED
  BY <1>1, <1>3, <1>4, ServingSaves

LEMMA ChatsSetStep ==
  ASSUME IInv, NEW r \in Requests, ChatsSet(r)
  PROVE  IInv'
<1>1. /\ req[r].at \in Serving /\ Aside /\ running' = running
      /\ clients' = clients /\ tc' = tc
      /\ pending' = pending /\ hand' = hand /\ stale' = stale /\ crossed' = crossed
  BY DEF ChatsSet, Aside, ghosts, control, Serving
<1>2. req[r].slot \in Slots /\ req[r].obj \in Objs
  BY <1>1, CallOf DEF Underway
<1>3. /\ UNCHANGED <<multi, disk>> \/ Saves
      /\ filled' = filled \/ filled' = filled \cup {req[r].obj}
      /\ \/ End(r) /\ UNCHANGED <<files, loops>>
         \/ Has(req[r].slot) /\ Ensure(r, req[r].slot, "loop")
  BY DEF ChatsSet
<1>4. /\ files' \subseteq Slots /\ (loops' = loops \/ StartsLoop) /\ GoesTo(r, req[r].slot)
  <2>1. CASE End(r) /\ UNCHANGED <<files, loops>>
    BY <2>1, EndGoes DEF IInv, SetTypes
  <2>2. CASE Has(req[r].slot) /\ Ensure(r, req[r].slot, "loop")
    <3>1. "loop" \in Purposes
      BY DEF Purposes
    <3> QED
      BY <2>2, <3>1, EnsureOf
  <2> QED
    BY <1>3, <2>1, <2>2
<1>5. /\ req' \in [Requests -> Calls] /\ clients' \subseteq Slots /\ crossed' \subseteq Slots
      /\ filled' \subseteq Objs /\ tc' \in SlotOrNone
  BY <1>1, <1>2, <1>3, <1>4, GoesType DEF IInv, SetTypes
<1>6. ASSUME multi'.accounts = multi.accounts PROVE Apart'
  BY <1>1, <1>4, <1>6, ServingApart
<1> QED
  BY <1>1, <1>3, <1>4, <1>5, <1>6, ServingSaves

\* An object is started: its slot has it, or it counts as stale.
LEMMA SpamStartedStep ==
  ASSUME IInv, NEW r \in Requests, SpamStarted(r)
  PROVE  IInv'
<1> DEFINE s == req[r].slot
           o == req[r].obj
<1>1. /\ req[r].at \in Serving /\ Aside /\ End(r) /\ filled' = filled
      /\ clients' = clients /\ files' = files /\ tc' = tc
      /\ pending' = pending /\ hand' = hand /\ crossed' = crossed
      /\ promised' = promised /\ gone' = gone
  BY DEF SpamStarted, Aside, answers, control, Serving
<1>2. s \in Slots /\ o \in Objs
  BY <1>1, CallOf DEF Underway
<1>3. \/ UNCHANGED <<multi, running, disk, loops, stale>>
      \/ /\ running' = running \cup {o}
         /\ \/ Has(s) /\ Register(s, multi.accounts[s]) /\ Save(multi)
            \/ ~Has(s) /\ UNCHANGED <<multi, disk, loops>>
         /\ stale' = IF Has(s) /\ multi.accounts[s] = o THEN stale ELSE stale \cup {o}
  BY DEF SpamStarted, Saves
<1> HIDE DEF s, o
<1>4. /\ Whole' /\ SlotsAsAnswered' /\ multi'.accounts = multi.accounts
      /\ multi.active \in DOMAIN multi.accounts => multi'.active = multi.active
  <2>1. CASE UNCHANGED <<multi, disk>>
    BY <1>1, <2>1, StateStays DEF answers
  <2>2. CASE Save(multi)
    BY <1>1, <2>2, SavedAsIs DEF IInv, Whole
  <2> QED
    BY <1>3, <2>1, <2>2
<1>5. Live' = Live /\ LoopsOfSlots
  BY <1>4 DEF Live, IInv
<1>6. LoopsOfSlots'
  <2>1. CASE UNCHANGED <<multi, running, disk, loops, stale>>
    BY <2>1, <1>4, LoopsStay
  <2>2. CASE /\ running' = running \cup {o}
             /\ \/ Has(s) /\ Register(s, multi.accounts[s])
                \/ ~Has(s) /\ UNCHANGED loops
             /\ stale' = IF Has(s) /\ multi.accounts[s] = o THEN stale ELSE stale \cup {o}
    <3>1. \A x \in DOMAIN loops' :
            \/ x \in DOMAIN loops /\ loops'[x] = loops[x]
            \/ Has(x) /\ loops'[x] = multi.accounts[x]
      BY <2>2 DEF Register
    <3>2. \A p \in Objs : p \in (running' \cup Live') \ stale' => p \in (running \cup Live) \ stale
      BY <1>5, <2>2 DEF Live, Range, Has
    <3>3. \A x \in DOMAIN loops : loops[x] \in Objs
      BY TablesDef DEF IInv, SetTypes
    <3>4. ASSUME NEW x \in DOMAIN loops', loops'[x] \in (running' \cup Live') \ stale'
          PROVE  x \in DOMAIN multi.accounts /\ multi.accounts[x] = loops'[x]
      <4>1. CASE x \in DOMAIN loops /\ loops'[x] = loops[x]
        BY <1>5, <3>2, <3>3, <3>4, <4>1 DEF LoopsOfSlots, Has
      <4>2. CASE Has(x) /\ loops'[x] = multi.accounts[x]
        BY <4>2 DEF Has
      <4> QED
        BY <3>1, <4>1, <4>2
    <3> QED
      BY <1>4, <3>4 DEF LoopsOfSlots, Has
  <2> QED
    BY <1>3, <2>1, <2>2
<1>7. /\ loops' = loops \/ StartsLoop
      /\ running' \subseteq running \cup {o} /\ stale' \subseteq stale \cup {o}
  BY <1>3 DEF StartsLoop, Has
<1>8. GoesTo(r, req[r].slot)
  BY <1>1, EndGoes
<1>9. Apart' /\ req' \in [Requests -> Calls] /\ loops' \in Tables
  BY <1>1, <1>4, <1>7, <1>8, ServingApart, GoesType, LoopsType
<1>10. /\ running' \subseteq Objs /\ stale' \subseteq Objs /\ filled' \subseteq Objs
       /\ clients' \subseteq Slots /\ files' \subseteq Slots /\ crossed' \subseteq Slots
       /\ tc' \in SlotOrNone
  BY <1>1, <1>2, <1>7 DEF IInv, SetTypes
<1> QED
  BY <1>1, <1>4, <1>6, <1>9, <1>10, ServingStep

-----------------------------------------------------------------------------
(* The API: uploads.                                                       *)

\* What a slot with the session has, of the state m that it comes to.
LEMMA PutSessionOf ==
  ASSUME IInv, NEW r \in Requests, NEW m, Sound(m), Range(m.accounts) \subseteq Live,
         NEW ru, ru \subseteq running, NEW s \in Slots, PutSession(r, m, ru, s)
  PROVE  /\ Sound(multi') /\ DOMAIN multi'.accounts = DOMAIN m.accounts \cup {s}
         /\ \A x \in DOMAIN m.accounts : multi'.accounts[x] = m.accounts[x]
         /\ multi'.active = m.active
         /\ running' \subseteq ru /\ filled' \subseteq Objs
         /\ \A x \in DOMAIN loops : loops[x] \in Live' => loops[x] \in Range(m.accounts)
<1>1. CASE s \in DOMAIN m.accounts
  <2>1. /\ multi' = m /\ running' = ru
        /\ filled' \in {filled, filled \cup {m.accounts[s]}, filled \ {m.accounts[s]}}
    BY <1>1 DEF PutSession
  <2>2. m.accounts[s] \in Objs
    BY <1>1, StateTypes DEF Sound
  <2> QED
    BY <1>1, <2>1, <2>2 DEF Live, IInv, SetTypes
<1>2. CASE s \notin DOMAIN m.accounts
  <2> DEFINE o == CHOOSE x \in Fresh : TRUE
  <2>1. /\ Fresh # {} /\ multi' = WithSlot(m, s, o) /\ running' = ru \ {o}
        /\ \E f \in BOOLEAN : filled' = (filled \ {o}) \cup (IF f THEN {o} ELSE {})
    BY <1>2 DEF PutSession
  <2>2. o \in Objs /\ o \notin Range(m.accounts) /\ o \notin Range(loops)
    BY <2>1, FreshOf
  <2> HIDE DEF o
  <2>3. /\ Sound(multi') /\ DOMAIN multi'.accounts = DOMAIN m.accounts \cup {s}
        /\ \A x \in DOMAIN m.accounts : multi'.accounts[x] = m.accounts[x]
        /\ multi'.active = m.active /\ Range(multi'.accounts) = Range(m.accounts) \cup {o}
    BY <1>2, <2>1, <2>2, WithSlotOf
  <2>4. \A x \in DOMAIN loops : loops[x] # o
    BY <2>2 DEF Range
  <2>5. filled' \subseteq Objs
    BY <2>1, <2>2 DEF IInv, SetTypes
  <2> QED
    BY <2>1, <2>3, <2>4, <2>5 DEF Live
<1> QED
  BY <1>1, <1>2

LEMMA UploadSessionStep ==
  ASSUME IInv, NEW r \in Requests, NEW s \in Slots, UploadSession(r, s)
  PROVE  IInv'
<1>1. /\ req[r] = Idle /\ Meets(s) /\ disk' = disk /\ pending' = pending /\ loops' = loops
      /\ hand' = hand /\ wait' = wait /\ shown' = shown /\ restarts' = restarts
      /\ promised' = promised /\ apiSince' = apiSince /\ stale' = stale
  BY DEF UploadSession
<1>2. crossed' \subseteq Slots
  BY <1>1, MeetsOf
<1>3. CASE /\ Has(s) /\ PopClient(s)
           /\ req' = [req EXCEPT ![r] = Call("clearing", s)]
           /\ UNCHANGED <<multi, settings, files, gone>>
  <2> DEFINE c == Call("clearing", s)
  <2>1. c \in Calls /\ c.slot = s /\ req' = [req EXCEPT ![r] = c]
    BY <1>3, CallType DEF Plain
  <2> HIDE DEF c
  <2>2. req' \in [Requests -> Calls]
    BY <2>1, Moves DEF IInv
  <2>3. clients' = clients \ {s} /\ clients' \subseteq Slots /\ tc' \in SlotOrNone
    BY <1>3, PopClientOf
  <2>4. QuietCall
    BY <1>1, <1>3 DEF QuietCall, answers
  <2>5. Apart'
    BY <1>1, <1>3, <2>1, <2>3, ApartBegins DEF Has
  <2>6. files' \subseteq Slots /\ pending' \subseteq Slots
    BY <1>1, <1>3 DEF IInv, SetTypes
  <2> QED
    BY <1>2, <2>2, <2>3, <2>4, <2>5, <2>6, QuietCallStep
<1>4. CASE PutSession(r, multi, running, s) /\ UNCHANGED <<clients, tc>>
  <2> DEFINE c == Call("uploading", s)
  <2>1. /\ c \in Calls /\ c.slot = s /\ c.at \notin {"deleting", "clearing"}
        /\ req' = [req EXCEPT ![r] = c] /\ files' = files \cup {s} /\ gone' = gone \ {s}
    BY <1>4, CallType DEF Plain, PutSession
  <2> HIDE DEF c
  <2>2. req' \in [Requests -> Calls]
    BY <2>1, Moves DEF IInv
  <2>3. Sound(multi) /\ Range(multi.accounts) \subseteq Live
    BY DEF IInv, Whole, Live
  <2>4. /\ Sound(multi') /\ DOMAIN multi'.accounts = DOMAIN multi.accounts \cup {s}
        /\ \A x \in DOMAIN multi.accounts : multi'.accounts[x] = multi.accounts[x]
        /\ multi'.active = multi.active
        /\ running' \subseteq running /\ filled' \subseteq Objs
        /\ \A x \in DOMAIN loops : loops[x] \in Live' => loops[x] \in Live
    BY <1>4, <2>3, PutSessionOf DEF Live
  <2>5. Whole' /\ SlotsAsAnswered'
    BY <1>1, <2>1, <2>4 DEF IInv, Whole, SlotsAsAnswered
  <2>6. Screen'
    BY <1>1, <2>4, ScreenStays DEF IInv, SetTypes
  <2>7. Told'
    BY <1>1, ToldStays
  <2>8. LoopsOfSlots'
    BY <1>1, <2>4 DEF IInv, LoopsOfSlots, Has
  <2>9. Apart'
    BY <1>1, <1>4, <2>1, <2>4, ApartBegins
  <2>10. CallTypes' /\ SetTypes'
    BY <1>1, <1>2, <1>4, <2>1, <2>2, <2>4 DEF IInv, CallTypes, SetTypes
  <2> QED
    BY <2>5, <2>6, <2>7, <2>8, <2>9, <2>10 DEF IInv
<1> QED
  BY <1>3, <1>4 DEF UploadSession

LEMMA UploadClearedStep ==
  ASSUME IInv, NEW r \in Requests, UploadCleared(r)
  PROVE  IInv'
<1> DEFINE s == req[r].slot
           m == Normal(WithoutSlot(multi, s))
           ru == running \ Own(multi, s)
           c == Call("uploading", s)
<1>1. /\ req[r].at = "clearing" /\ PutSession(r, m, ru, s) /\ disk' = Written(m, filled, running)
      /\ pending' = pending \ {s} /\ promised' = promised \ {s} /\ apiSince' = TRUE
      /\ clients' = clients /\ loops' = loops /\ hand' = hand /\ wait' = wait /\ shown' = shown
      /\ tc' = tc /\ restarts' = restarts /\ stale' = stale /\ crossed' = crossed
  BY DEF UploadCleared, control, Own
<1>2. s \in Slots /\ req[r].at \in Underway
  BY <1>1, CallOf DEF Underway, Plain
<1>3. Sound(multi) /\ Live = Range(multi.accounts)
  BY DEF IInv, Whole, Live
<1>4. /\ Sound(m) /\ Settled(m) /\ DOMAIN m.accounts = DOMAIN multi.accounts \ {s}
      /\ \A x \in DOMAIN m.accounts : m.accounts[x] = multi.accounts[x]
      /\ Range(m.accounts) = Live \ Own(multi, s)
  <2> DEFINE n == WithoutSlot(multi, s)
  <2>1. /\ Sound(n) /\ DOMAIN n.accounts = DOMAIN multi.accounts \ {s}
        /\ \A x \in DOMAIN n.accounts : n.accounts[x] = multi.accounts[x]
    BY <1>3, WithoutSlotOf
  <2>2. Range(n.accounts) = Range(multi.accounts) \ Own(multi, s)
    BY <1>3, WithoutSlotOf
  <2> HIDE DEF n
  <2>3. Sound(Normal(n)) /\ Settled(Normal(n)) /\ Normal(n).accounts = n.accounts
    BY <2>1, NormalOf
  <2> QED
    BY <1>3, <2>1, <2>2, <2>3 DEF n
<1>5. SoundFile(disk') /\ disk'.slots = DOMAIN multi.accounts \ {s}
  BY <1>1, <1>4, WrittenOf
<1>6. /\ c \in Calls /\ c.slot = s /\ c.at \notin {"deleting", "clearing"}
      /\ req' = [req EXCEPT ![r] = c] /\ files' = files \cup {s} /\ gone' = gone \ {s}
  BY <1>1, <1>2, CallType DEF Plain, PutSession
<1>7. req' \in [Requests -> Calls]
  BY <1>6, Moves DEF IInv
<1> HIDE DEF m, c
<1>8. /\ Sound(multi') /\ DOMAIN multi'.accounts = DOMAIN m.accounts \cup {s}
      /\ \A x \in DOMAIN m.accounts : multi'.accounts[x] = m.accounts[x]
      /\ running' \subseteq ru /\ filled' \subseteq Objs
      /\ \A x \in DOMAIN loops : loops[x] \in Live' => loops[x] \in Range(m.accounts)
  <2>1. Range(m.accounts) \subseteq Live /\ ru \subseteq running
    BY <1>4
  <2> QED
    BY <1>1, <1>2, <1>4, <2>1, PutSessionOf
<1>9. Whole' /\ SlotsAsAnswered'
  BY <1>1, <1>4, <1>5, <1>6, <1>8 DEF IInv, Whole, SlotsAsAnswered
<1>10. Screen'
  BY <1>1, ScreenFree
<1>11. Told'
  BY <1>1, ToldStays
<1>12. LoopsOfSlots'
  <2>1. \A x \in DOMAIN loops :
          loops[x] \in running' \cup Live' => loops[x] \in (running \cup Live) \ Own(multi, s)
    BY <1>4, <1>8
  <2> HIDE DEF s
  <2> QED
    BY <1>1, <1>4, <1>8, <2>1, LoopsLeft
<1>13. Apart'
  BY <1>1, <1>2, <1>4, <1>6, <1>8, ApartGoesOn
<1>14. running' \subseteq running
  BY <1>8
<1>15. CallTypes' /\ SetTypes'
  BY <1>1, <1>2, <1>6, <1>7, <1>8, <1>14 DEF IInv, CallTypes, SetTypes
<1> QED
  BY <1>9, <1>10, <1>11, <1>12, <1>13, <1>15 DEF IInv

-----------------------------------------------------------------------------
(* The control bot, where it changes slots or settings.                    *)

\* A handler that edits what is shown, whatever becomes of the question.
LEMMA EditShownStep ==
  ASSUME IInv, Listening, NEW B \in SUBSET BOOLEAN, EditShown(B), Questioned
  PROVE  IInv'
<1>1. /\ running' = running /\ Save(multi) /\ clients' = clients /\ files' = files
      /\ pending' = pending /\ loops' = loops /\ req' = req /\ hand' = hand /\ shown' = shown
      /\ tc' = tc /\ restarts' = restarts /\ promised' = promised /\ gone' = gone
      /\ apiSince' = apiSince /\ stale' = stale /\ crossed' = crossed
      /\ filled' \in {filled \cup {shown}, filled \ {shown}}
  BY DEF EditShown, Saves, service, answers, ghosts
<1>2. /\ Whole' /\ SlotsAsAnswered' /\ multi'.accounts = multi.accounts
      /\ multi.active \in DOMAIN multi.accounts => multi'.active = multi.active
  BY <1>1, SavedAsIs DEF IInv, Whole
<1>3. hand.at = "idle" /\ shown \in Objs
  BY HandOf DEF IInv, SetTypes
<1>4. Screen'
  BY <1>1, <1>2, ScreenStays DEF IInv, SetTypes
<1>5. Told'
  BY <1>1, <1>3, ToldStays DEF Questioned
<1>6. LoopsOfSlots'
  BY <1>1, <1>2, LoopsStay
<1>7. Apart'
  BY <1>1, <1>2, ApartStays
<1>8. CallTypes' /\ SetTypes'
  BY <1>1, <1>3 DEF IInv, CallTypes, SetTypes, Questioned
<1> QED
  BY <1>2, <1>4, <1>5, <1>6, <1>7, <1>8 DEF IInv

LEMMA ToggleChatsStep ==
  ASSUME IInv, ToggleChats
  PROVE  IInv'
BY WaitSame, EditShownStep DEF ToggleChats

LEMMA EditDefaultsStep ==
  ASSUME IInv, EditDefaults
  PROVE  IInv'
<1>1. (IF shown \in filled THEN BOOLEAN ELSE {FALSE}) \in SUBSET BOOLEAN
  OBVIOUS
<1> QED
  BY <1>1, WaitSame, EditShownStep DEF EditDefaults

LEMMA AnswerFieldStep ==
  ASSUME IInv, NEW a \in Admins, AnswerField(a)
  PROVE  IInv'
<1>1. Questioned
  BY NoWaitType, WaitSet DEF AnswerField
<1> QED
  BY <1>1, EditShownStep DEF AnswerField

LEMMA AnswerDefaultsStep ==
  ASSUME IInv, NEW a \in Admins, AnswerDefaults(a)
  PROVE  IInv'
<1>1. Questioned
  BY NoWaitType, WaitSet DEF AnswerDefaults
<1> QED
  BY <1>1, EditShownStep DEF AnswerDefaults

LEMMA AnswerPostStep ==
  ASSUME IInv, NEW a \in Admins, AnswerPost(a)
  PROVE  IInv'
<1>1. Questioned /\ Listening
  BY NoWaitType, WaitSet DEF AnswerPost
<1>2. CASE tc # NoSlot
  BY <1>1, <1>2, EditShownStep DEF AnswerPost
<1>3. CASE tc = NoSlot
  <2>1. QuietHand /\ hand' = hand /\ clients' = clients /\ files' = files /\ loops' = loops
        /\ crossed' = crossed
    BY <1>3 DEF AnswerPost, QuietHand, service, ghosts
  <2> QED
    BY <1>1, <2>1, QuietQuestion
<1> QED
  BY <1>2, <1>3

\* The button that starts and stops.  Settings are started under the name of
\* their slot, or count as stale.
LEMMA PressSpamStep ==
  ASSUME IInv, PressSpam
  PROVE  IInv'
<1>1. /\ Listening /\ filled' = filled /\ clients' = clients /\ files' = files
      /\ pending' = pending /\ req' = req /\ hand' = hand /\ wait' = wait /\ shown' = shown
      /\ tc' = tc /\ restarts' = restarts /\ promised' = promised /\ gone' = gone
      /\ apiSince' = apiSince /\ crossed' = crossed /\ Save(multi)
  BY DEF PressSpam, control, answers, Saves
<1>2. /\ Whole' /\ SlotsAsAnswered' /\ multi'.accounts = multi.accounts
      /\ multi.active \in DOMAIN multi.accounts => multi'.active = multi.active
      /\ multi'.active \in DOMAIN multi.accounts \cup {NoSlot}
  BY <1>1, SavedAsIs DEF IInv, Whole
<1>3. hand.at = "idle" /\ shown \in Objs /\ Live' = Live
  BY <1>1, <1>2, HandOf DEF IInv, SetTypes, Live
<1>4. Screen'
  BY <1>1, <1>2, ScreenStays DEF IInv, SetTypes
<1>5. Told'
  BY <1>1, ToldStays
<1>6. LoopsOfSlots' /\ loops' \in Tables /\ running' \subseteq Objs /\ stale' \subseteq Objs
  <2>1. CASE running' = running \ {shown} /\ UNCHANGED <<loops, stale>>
    BY <1>2, <2>1, LoopsStay DEF IInv, SetTypes
  <2>2. CASE /\ running' = running \cup {shown}
             /\ IF multi'.active = NoSlot THEN UNCHANGED loops ELSE Register(multi'.active, shown)
             /\ stale' = IF apiSince THEN stale \cup {shown} ELSE stale
    <3>1. loops \in Tables
      BY DEF IInv, SetTypes
    <3>2. loops' \in Tables
      <4>1. multi'.active # NoSlot => multi'.active \in Slots
        BY <1>2, SlotOf
      <4> QED
        BY <1>3, <2>2, <3>1, <4>1, RegisterType
    <3>3. running' \subseteq Objs /\ stale' \subseteq Objs
      BY <1>3, <2>2 DEF IInv, SetTypes
    <3>4. \A x \in DOMAIN loops' :
            \/ x \in DOMAIN loops /\ loops'[x] = loops[x]
            \/ x = multi'.active /\ loops'[x] = shown
      BY <2>2 DEF Register
    <3>5. ~apiSince => Has(multi.active) /\ shown = multi.accounts[multi.active]
                       /\ multi'.active = multi.active /\ shown \in Live
      <4>1. ~apiSince => Has(multi.active) /\ shown = multi.accounts[multi.active]
        BY <1>3 DEF IInv, Screen, ShownIsActive
      <4> QED
        BY <1>2, <4>1 DEF Has, Live, Range
    <3>6. ASSUME NEW x \in DOMAIN loops', loops'[x] \in (running' \cup Live) \ stale'
          PROVE  x \in DOMAIN multi.accounts /\ multi.accounts[x] = loops'[x]
      <4>1. CASE x \in DOMAIN loops /\ loops'[x] = loops[x]
        <5>1. loops[x] \in (running \cup Live) \ stale
          BY <2>2, <3>5, <3>6, <4>1
        <5> QED
          BY <4>1, <5>1 DEF IInv, LoopsOfSlots, Has
      <4>2. CASE x = multi'.active /\ loops'[x] = shown
        BY <2>2, <3>5, <3>6, <4>2 DEF Has
      <4> QED
        BY <3>4, <4>1, <4>2
    <3>7. LoopsOfSlots'
      BY <1>2, <1>3, <3>6 DEF LoopsOfSlots, Has
    <3> QED
      BY <3>2, <3>3, <3>7
  <2> QED
    BY <2>1, <2>2 DEF PressSpam
<1>7. Apart'
  BY <1>1, <1>2, ApartStays
<1>8. CallTypes' /\ SetTypes'
  BY <1>1, <1>6 DEF IInv, CallTypes, SetTypes
<1> QED
  BY <1>2, <1>4, <1>5, <1>6, <1>7, <1>8 DEF IInv

\* Whatever was asked, the answers are torn from where they were asked.
LEMMA AllTorn ==
  ASSUME CallTypes, NEW B, hand'.at \notin {"start", "dead"},
         wait' = [x \in Admins |-> IF x \in B THEN NoWait ELSE Torn(wait[x])]
  PROVE  wait' \in [Admins -> Questions] /\ Told'
<1>1. ASSUME NEW x \in Admins
      PROVE  wait'[x] \in Questions /\ ~(wait'[x].kind \in Asked /\ ~wait'[x].torn)
  <2>1. wait[x] \in Questions /\ wait'[x] = IF x \in B THEN NoWait ELSE Torn(wait[x])
    BY DEF CallTypes
  <2> QED
    BY <2>1, TornType, NoWaitType
<1>2. wait' = [x \in Admins |-> wait'[x]]
  OBVIOUS
<1> QED
  BY <1>1, <1>2 DEF Told, AnswerLandsWhereAsked, NoneAsked

\* The state without a slot, as the control bot makes it.
Dropping(s) ==
  LET n == WithoutSlot(multi, s)
  IN  IF n.order = <<>> THEN [n EXCEPT !.active = multi.active] ELSE n

LEMMA DroppedState ==
  ASSUME IInv, NEW s \in Slots, NEW m, m = Dropping(s)
  PROVE  /\ Sound(m) /\ DOMAIN m.accounts = DOMAIN multi.accounts \ {s}
         /\ \A x \in DOMAIN m.accounts : m.accounts[x] = multi.accounts[x]
         /\ Range(m.accounts) = Live \ Own(multi, s)
         /\ Has(multi.active) /\ DOMAIN m.accounts # {} => m.active \in DOMAIN m.accounts
<1> DEFINE n == WithoutSlot(multi, s)
<1>1. Sound(multi) /\ Live = Range(multi.accounts) /\ multi.active \in SlotOrNone
  BY SlotOf DEF IInv, Whole, Live
<1>2. /\ Sound(n) /\ DOMAIN n.accounts = DOMAIN multi.accounts \ {s}
      /\ \A x \in DOMAIN n.accounts : n.accounts[x] = multi.accounts[x]
      /\ multi.active # s => n.active = multi.active
      /\ multi.active = s /\ DOMAIN n.accounts # {} => n.active \in DOMAIN n.accounts
      /\ n.order = <<>> <=> DOMAIN n.accounts = {}
  BY <1>1, WithoutSlotOf
<1>3. Range(n.accounts) = Range(multi.accounts) \ Own(multi, s)
  BY <1>1, WithoutSlotOf
<1>4. m = IF n.order = <<>> THEN [n EXCEPT !.active = multi.active] ELSE n
  BY DEF Dropping
<1> HIDE DEF n
<1>5. LET k == [n EXCEPT !.active = multi.active]
      IN  Sound(k) /\ k.accounts = n.accounts
  BY <1>1, <1>2, WithActive
<1>6. Sound(m) /\ m.accounts = n.accounts
  BY <1>2, <1>4, <1>5
<1>7. Has(multi.active) /\ DOMAIN n.accounts # {} => n.active \in DOMAIN n.accounts /\ m = n
  BY <1>2, <1>4 DEF Has
<1> QED
  BY <1>1, <1>2, <1>3, <1>6, <1>7

LEMMA DropOf ==
  ASSUME IInv, NEW s \in Slots, NEW a \in Admins, Drop(s, a), clients' = clients, hand' = Rest,
         hand.at \in {"idle", "drop"},
         ~apiSince => \E x \in DOMAIN multi.accounts : x # s,
         s \in clients => s \in crossed
  PROVE  IInv'
<1> DEFINE m == Dropping(s)
           B == {x \in Admins : wait[x].slot = s /\ x = a}
<1>1. /\ files' = files \ {s} /\ filled' = filled
      /\ running' = IF Has(s) THEN running \ {multi.accounts[s]} ELSE running
      /\ promised' = promised \ {s}
      /\ crossed' = crossed \cup {x \in {s} : x \in pending \/ \E r \in Requests : req[r].slot = x}
      /\ pending' = pending /\ loops' = loops /\ req' = req /\ restarts' = restarts
      /\ stale' = stale
  BY DEF Drop
<1>2. \/ /\ m.active \in DOMAIN m.accounts
         /\ shown' = m.accounts[m.active]
         /\ tc' = IF m.active \in clients THEN m.active ELSE NoSlot
         /\ Save(m)
         /\ wait' = [x \in Admins |-> IF x \in B THEN NoWait ELSE Torn(wait[x])]
         /\ apiSince' = FALSE /\ gone' = gone \cup {s}
      \/ /\ m.active \notin DOMAIN m.accounts
         /\ multi' = m
         /\ UNCHANGED <<disk, shown, tc, wait, apiSince, gone>>
  BY DEF Drop, Dropping
<1>3. /\ Sound(m) /\ DOMAIN m.accounts = DOMAIN multi.accounts \ {s}
      /\ \A x \in DOMAIN m.accounts : m.accounts[x] = multi.accounts[x]
      /\ Range(m.accounts) = Live \ Own(multi, s)
      /\ Has(multi.active) /\ DOMAIN m.accounts # {} => m.active \in DOMAIN m.accounts
  <2>1. m = Dropping(s)
    OBVIOUS
  <2> HIDE DEF m
  <2> QED
    BY <2>1, DroppedState
<1> HIDE DEF m, B
<1>4. hand'.at = "idle" /\ hand'.slot = NoSlot /\ s # NoSlot /\ hand' \in Handlers
  BY RestType, SlotsAssumption
<1>5. /\ multi'.accounts = m.accounts /\ Sound(multi') /\ SoundFile(disk')
      /\ \/ disk'.slots = DOMAIN m.accounts
         \/ disk'.slots = disk.slots /\ gone' = gone
  <2>1. CASE Save(m)
    BY <1>3, <2>1, SaveOf
  <2>2. CASE multi' = m /\ UNCHANGED <<disk, gone>>
    BY <1>3, <2>2 DEF IInv, Whole
  <2> QED
    BY <1>2, <2>1, <2>2
<1>6. SlotsAsAnswered'
  BY <1>1, <1>2, <1>3, <1>5 DEF IInv, SlotsAsAnswered
<1>7. LoopsOfSlots'
  <2>1. Live' = Live \ Own(multi, s)
    BY <1>3, <1>5 DEF Live
  <2>2. running' = running \ Own(multi, s)
    BY <1>1 DEF Has, Own
  <2> QED
    BY <1>1, <1>3, <1>5, <2>1, <2>2, LoopsLeft
<1>8. Apart'
  <2>1. \A q \in Requests : req'[q].slot = s => s \in crossed'
    BY <1>1
  <2>2. s \in pending => s \in crossed'
    BY <1>1
  <2> QED
    BY <1>1, <1>3, <1>4, <1>5, <2>1, <2>2, ApartDeletes DEF SlotOrNone
<1>9. Screen' /\ Told' /\ wait' \in [Admins -> Questions] /\ shown' \in Objs
      /\ apiSince' \in BOOLEAN /\ tc' \in SlotOrNone /\ gone' \subseteq Slots
  <2>1. CASE /\ m.active \in DOMAIN m.accounts
             /\ shown' = m.accounts[m.active]
             /\ tc' = IF m.active \in clients THEN m.active ELSE NoSlot
             /\ Save(m)
             /\ wait' = [x \in Admins |-> IF x \in B THEN NoWait ELSE Torn(wait[x])]
             /\ apiSince' = FALSE /\ gone' = gone \cup {s}
    <3>1. multi'.active = m.active
      BY <1>3, <2>1, SaveOf
    <3>2. m.active \in Slots /\ m.accounts[m.active] \in Objs
      BY <1>3, <2>1, StateTypes DEF Sound
    <3>3. Screen'
      BY <1>4, <1>5, <2>1, <3>1 DEF Screen, ShownIsActive, HandsOn, Has
    <3>4. wait' \in [Admins -> Questions] /\ Told'
      BY <1>4, <2>1, AllTorn DEF IInv
    <3> QED
      BY <2>1, <3>2, <3>3, <3>4 DEF SlotOrNone, IInv, SetTypes
  <2>2. CASE m.active \notin DOMAIN m.accounts /\ UNCHANGED <<disk, shown, tc, wait, apiSince, gone>>
    <3>1. apiSince \in BOOLEAN /\ shown \in Objs /\ tc \in SlotOrNone /\ gone \subseteq Slots
      BY DEF IInv, SetTypes
    <3>2. ~apiSince => Has(multi.active) /\ DOMAIN m.accounts # {}
      BY <1>3 DEF IInv, Screen, ShownIsActive
    <3>3. apiSince' = TRUE
      BY <1>3, <2>2, <3>1, <3>2
    <3>4. Screen'
      BY <3>3, ScreenFree
    <3>5. Told'
      BY <1>4, <2>2, ToldStays
    <3> QED
      BY <2>2, <3>1, <3>4, <3>5 DEF IInv, CallTypes
  <2> QED
    BY <1>2, <2>1, <2>2
<1>10. CallTypes' /\ SetTypes'
  BY <1>1, <1>4, <1>9 DEF IInv, CallTypes, SetTypes
<1> QED
  BY <1>5, <1>6, <1>7, <1>8, <1>9, <1>10 DEF IInv, Whole

LEMMA DroppedStep ==
  ASSUME IInv, Dropped
  PROVE  IInv'
<1>1. hand.at = "drop" /\ hand' = Rest /\ Drop(hand.slot, hand.who) /\ clients' = clients
  BY DEF Dropped
<1>2. hand.slot \in Slots /\ hand.who \in Admins
  BY <1>1, HandOf DEF Awaiting
<1>3. ~apiSince => \E x \in DOMAIN multi.accounts : x # hand.slot
  BY <1>1 DEF IInv, Screen, HandsOn
<1>4. hand.slot \in clients => hand.slot \in crossed
  BY <1>1 DEF IInv, Apart
<1> QED
  BY <1>1, <1>2, <1>3, <1>4, DropOf

\* With two slots, one is left.
LEMMA OneIsLeft ==
  ASSUME IInv, Cardinality(DOMAIN multi.accounts) > 1, NEW s
  PROVE  \E x \in DOMAIN multi.accounts : x # s
<1> SUFFICES ASSUME DOMAIN multi.accounts \subseteq {s} PROVE FALSE
  OBVIOUS
<1>1. IsFiniteSet({s}) /\ Cardinality({s}) = 1
  BY FS_Singleton
<1>2. Cardinality(DOMAIN multi.accounts) <= 1
  BY <1>1, FS_Subset
<1>3. IsFiniteSet(DOMAIN multi.accounts)
  BY <1>1, FS_Subset
<1> QED
  BY <1>2, <1>3, FS_CardinalityType

LEMMA PressDeleteStep ==
  ASSUME IInv, NEW a \in Admins, NEW s \in Slots, PressDelete(a, s)
  PROVE  IInv'
<1>1. Listening /\ Has(s) /\ \E x \in DOMAIN multi.accounts : x # s
  BY OneIsLeft DEF PressDelete
<1>2. hand.at = "idle" /\ hand.slot = NoSlot /\ hand = Rest
  BY <1>1, HandOf DEF Listening
<1>3. CASE s \notin clients /\ Drop(s, a) /\ UNCHANGED <<clients, hand>>
  BY <1>1, <1>2, <1>3, DropOf
<1>4. CASE /\ PopClient(s) /\ Meets(s) /\ Take("drop", s, a)
           /\ UNCHANGED <<multi, settings, disk, files, pending, loops, req, wait, shown, restarts,
                          answers, apiSince, stale>>
  <2>1. hand' \in Handlers /\ hand'.at = "drop" /\ hand'.slot = s
    BY <1>4, TakeOf DEF Awaiting
  <2>2. clients' = clients \ {s} /\ clients' \subseteq Slots /\ tc' \in SlotOrNone
    BY <1>4, PopClientOf
  <2>3. Whole' /\ SlotsAsAnswered'
    BY <1>4, StateStays
  <2>4. Screen'
    BY <1>1, <1>2, <1>4, <2>1 DEF IInv, Screen, ShownIsActive, HandsOn, Has
  <2>5. Told'
    BY <1>4, <2>1, ToldStays
  <2>6. LoopsOfSlots'
    BY <1>4, LoopsStay DEF settings
  <2>7. Apart'
    BY <1>1, <1>4, <2>1, <2>2, ApartHandBegins DEF Has
  <2>8. crossed' \subseteq Slots
    BY <1>4, MeetsOf
  <2>9. CallTypes' /\ SetTypes'
    BY <1>2, <1>4, <2>1, <2>2, <2>8 DEF settings, answers, IInv, CallTypes, SetTypes
  <2> QED
    BY <2>3, <2>4, <2>5, <2>6, <2>7, <2>9 DEF IInv
<1> QED
  BY <1>3, <1>4 DEF PressDelete

\* The slot chosen is shown; of a slot that is gone, the API knows.
LEMMA ChooseOf ==
  ASSUME IInv, NEW s \in Slots, Choose(s), hand.at \in {"check", "greet"}, hand.slot = s, hand' = Rest,
         UNCHANGED <<service, req, restarts, answers, stale, crossed>>,
         NEW B, Has(s) => wait' = [x \in Admins |-> IF x \in B THEN NoWait ELSE Torn(wait[x])],
         ~Has(s) => wait' = wait
  PROVE  IInv'
<1> DEFINE m == [multi EXCEPT !.active = s]
<1>1. Sound(m) /\ m.accounts = multi.accounts /\ m.active = s
  BY WithActive DEF IInv, Whole, SlotOrNone
<1>2. \/ /\ Has(s)
         /\ shown' = m.accounts[s] /\ tc' = IF s \in clients THEN s ELSE NoSlot
         /\ apiSince' = FALSE
         /\ UNCHANGED settings
         /\ Save(m)
      \/ /\ ~Has(s) /\ multi' = m
         /\ UNCHANGED <<settings, disk, shown, tc, apiSince>>
  BY DEF Choose
<1> HIDE DEF m
<1>3. /\ filled' = filled /\ running' = running /\ clients' = clients /\ files' = files
      /\ pending' = pending /\ loops' = loops /\ req' = req /\ restarts' = restarts
      /\ promised' = promised /\ gone' = gone /\ stale' = stale /\ crossed' = crossed
  BY <1>2 DEF settings, service, answers
<1>4. hand' \in Handlers /\ hand'.at = "idle" /\ hand'.slot = NoSlot
  BY RestType
<1>5. Whole' /\ SlotsAsAnswered' /\ multi'.accounts = multi.accounts
  <2>1. CASE Save(m)
    BY <1>1, <1>3, <2>1, SavedAsIs
  <2>2. CASE multi' = m /\ UNCHANGED disk
    BY <1>1, <1>3, <2>2 DEF IInv, Whole, SlotsAsAnswered
  <2> QED
    BY <1>2, <2>1, <2>2
<1>6. LoopsOfSlots'
  BY <1>3, <1>5, LoopsStay
<1>7. Apart'
  BY <1>3, <1>4, <1>5, ApartHandGoesOn
<1>8. Screen' /\ Told' /\ wait' \in [Admins -> Questions] /\ shown' \in Objs
      /\ apiSince' \in BOOLEAN /\ tc' \in SlotOrNone
  <2>1. CASE /\ Has(s)
             /\ shown' = m.accounts[s] /\ tc' = IF s \in clients THEN s ELSE NoSlot
             /\ apiSince' = FALSE
             /\ Save(m)
    <3>1. multi'.active = s
      BY <1>1, <1>3, <2>1, SavedAsIs DEF Has
    <3>2. Screen'
      BY <1>1, <1>4, <1>5, <2>1, <3>1 DEF Screen, ShownIsActive, HandsOn, Has
    <3>3. wait' \in [Admins -> Questions] /\ Told'
      BY <1>4, <2>1, AllTorn DEF IInv
    <3> QED
      BY <1>1, <2>1, <3>2, <3>3, SlotOf DEF SlotOrNone
  <2>2. CASE ~Has(s) /\ UNCHANGED <<shown, tc, apiSince>>
    <3>1. apiSince \in BOOLEAN /\ shown \in Objs /\ tc \in SlotOrNone
      BY DEF IInv, SetTypes
    <3>2. apiSince' = TRUE
      BY <2>2, <3>1 DEF IInv, Screen, HandsOn
    <3>3. Screen'
      BY <3>2, ScreenFree
    <3>4. Told'
      BY <1>4, <2>2, ToldStays
    <3> QED
      BY <2>2, <3>1, <3>3, <3>4 DEF IInv, CallTypes
  <2> QED
    BY <1>2, <2>1, <2>2
<1>9. CallTypes' /\ SetTypes'
  BY <1>3, <1>4, <1>8 DEF IInv, CallTypes, SetTypes
<1> QED
  BY <1>5, <1>6, <1>7, <1>8, <1>9 DEF IInv

LEMMA WelcomedStep ==
  ASSUME IInv, Welcomed
  PROVE  IInv'
<1>1. /\ hand.at = "greet" /\ hand' = Rest
      /\ UNCHANGED <<service, req, restarts, answers, stale, crossed>>
  BY DEF Welcomed
<1>2. hand.slot \in Slots
  BY <1>1, HandOf DEF Awaiting
<1>3. CASE UNCHANGED <<multi, settings, disk, shown, tc, wait, apiSince>>
  BY <1>1, <1>3, WaitSame, QuietGoesOn DEF QuietHand, service, Awaiting
<1>4. CASE /\ Choose(hand.slot)
           /\ wait' = [a \in Admins |-> IF Has(hand.slot) THEN Torn(wait[a]) ELSE wait[a]]
  <2> DEFINE B == {}
  <2>1. Has(hand.slot) => wait' = [x \in Admins |-> IF x \in B THEN NoWait ELSE Torn(wait[x])]
    BY <1>4
  <2> HIDE DEF B
  <2>2. ~Has(hand.slot) => wait' = wait
    BY <1>4 DEF IInv, CallTypes
  <2> QED
    BY <1>1, <1>2, <1>4, <2>1, <2>2, ChooseOf
<1> QED
  BY <1>3, <1>4 DEF Welcomed

LEMMA SlotCheckedStep ==
  ASSUME IInv, SlotChecked
  PROVE  IInv'
<1> DEFINE w == [NoWait EXCEPT !.kind = "phone", !.slot = hand.slot]
<1>1. /\ hand.at = "check" /\ hand' = Rest
      /\ UNCHANGED <<service, req, restarts, answers, stale, crossed>>
  BY DEF SlotChecked
<1>2. hand.slot \in Slots /\ hand.slot \in SlotOrNone /\ hand.who \in Admins
  BY <1>1, HandOf DEF Awaiting
<1>3. CASE Wait(hand.who, w) /\ UNCHANGED <<multi, settings, disk, shown, tc, apiSince>>
  <2>1. w \in Questions /\ w.kind \notin Asked
    <3>1. w = [NoWait EXCEPT !.kind = "phone", !.slot = hand.slot]
      OBVIOUS
    <3> HIDE DEF w
    <3> QED
      BY <1>2, <3>1, KindType
  <2> HIDE DEF w
  <2>2. Questioned
    BY <1>2, <1>3, <2>1, WaitSet
  <2> QED
    BY <1>1, <1>3, <2>2, QuietGoesOn DEF QuietHand, service, Awaiting
<1>4. CASE /\ Choose(hand.slot)
           /\ wait' = [a \in Admins |-> IF ~Has(hand.slot) THEN wait[a]
                                        ELSE IF a = hand.who THEN NoWait ELSE Torn(wait[a])]
  <2>1. Has(hand.slot) =>
          wait' = [x \in Admins |-> IF x \in {hand.who} THEN NoWait ELSE Torn(wait[x])]
    BY <1>4
  <2>2. ~Has(hand.slot) => wait' = wait
    BY <1>4 DEF IInv, CallTypes
  <2> QED
    BY <1>1, <1>2, <1>4, <2>1, <2>2, ChooseOf
<1> QED
  BY <1>3, <1>4 DEF SlotChecked

\* A new slot is made and saved; then its client is there, or is connected.
LEMMA AnswerNewSlotStep ==
  ASSUME IInv, NEW a \in Admins, NEW s \in Slots, AnswerNewSlot(a, s)
  PROVE  IInv'
<1> DEFINE o == CHOOSE x \in Fresh : TRUE
           m == WithSlot(multi, s, o)
<1>1. /\ Listening /\ Meets(s) /\ filled' = filled \ {o} /\ running' = running \ {o} /\ Save(m)
      /\ promised' = promised \cup {s} /\ gone' = gone \ {s} /\ clients' = clients
      /\ pending' = pending /\ loops' = loops /\ req' = req /\ shown' = shown /\ tc' = tc
      /\ restarts' = restarts /\ apiSince' = apiSince /\ stale' = stale
  BY DEF AnswerNewSlot
<1>2. s \notin DOMAIN multi.accounts /\ Fresh # {}
  BY DEF AnswerNewSlot, Has
<1>3. o \in Objs /\ o \notin Live /\ o \notin Range(loops)
  BY <1>2, FreshOf
<1> HIDE DEF o
<1>4. /\ Sound(m) /\ DOMAIN m.accounts = DOMAIN multi.accounts \cup {s}
      /\ \A x \in DOMAIN multi.accounts : m.accounts[x] = multi.accounts[x]
      /\ m.active = multi.active /\ Range(m.accounts) = Live \cup {o}
  BY <1>2, <1>3, WithSlotOf DEF IInv, Whole, Live
<1> HIDE DEF m
<1>5. /\ Sound(multi') /\ SoundFile(disk') /\ multi'.accounts = m.accounts
      /\ disk'.slots = DOMAIN m.accounts
      /\ m.active \in DOMAIN m.accounts => multi'.active = m.active
  BY <1>1, <1>4, SaveOf
<1>6. SlotsAsAnswered'
  BY <1>1, <1>4, <1>5 DEF IInv, SlotsAsAnswered
<1>7. LoopsOfSlots'
  <2>1. Live' = Live \cup {o}
    BY <1>4, <1>5 DEF Live
  <2>2. \A x \in DOMAIN loops : loops[x] # o
    BY <1>3 DEF Range
  <2>3. Own(multi, s) = {}
    BY <1>2 DEF Own
  <2> QED
    BY <1>1, <1>4, <1>5, <2>1, <2>2, <2>3, LoopsLeft
<1>8. hand.at = "idle" /\ hand.slot = NoSlot /\ hand \in Handlers /\ shown \in Objs
  BY <1>1, HandOf DEF IInv, CallTypes, SetTypes
<1>9. /\ \/ hand' = hand
         \/ hand' \in Handlers /\ hand'.at = "join" /\ hand'.slot = s
      /\ wait' = wait \/ Wait(a, NoWait)
      /\ files' \in {files, files \cup {s}}
  BY TakeOf DEF AnswerNewSlot, Awaiting
<1>10. Questioned
  BY <1>9, NoWaitType, WaitSame, WaitSet
<1>11. Screen'
  BY <1>1, <1>4, <1>5, <1>8, <1>9, ScreenStays DEF IInv, SetTypes
<1>12. Told'
  BY <1>1, <1>8, <1>9, <1>10, ToldStays DEF Questioned
<1>13. Apart'
  <2>1. CASE hand' = hand
    <3>1. crossed \subseteq crossed'
      BY <1>1 DEF Meets
    <3>2. Known \subseteq Known'
      BY <1>4, <1>5, <3>1 DEF Known
    <3> QED
      BY <1>1, <2>1, <3>1, <3>2 DEF IInv, Apart
  <2>2. CASE hand'.at = "join" /\ hand'.slot = s
    BY <1>1, <1>4, <1>5, <2>2, ApartHandBegins
  <2> QED
    BY <1>9, <2>1, <2>2
<1>14. crossed' \subseteq Slots
  BY <1>1, MeetsOf
<1>15. CallTypes' /\ SetTypes'
  BY <1>1, <1>8, <1>9, <1>10, <1>14 DEF IInv, CallTypes, SetTypes, Questioned
<1> QED
  BY <1>5, <1>6, <1>7, <1>11, <1>12, <1>13, <1>15 DEF IInv, Whole

-----------------------------------------------------------------------------
(* Starts.                                                                 *)

LEMMA BeginType ==
  ASSUME NEW label \in {"start", "dead"}, NEW h, h = [Rest EXCEPT !.at = label]
  PROVE  h \in Handlers /\ h.at = label /\ h.slot = NoSlot
BY DEF Rest, Handlers

LEMMA BuildOf ==
  ASSUME NEW m, Sound(m), NEW cs, Build(m, cs)
  PROVE  /\ hand' \in Handlers /\ hand'.at \in {"start", "dead"} /\ hand'.slot = NoSlot
         /\ tc' \in SlotOrNone /\ shown' \in Objs \cup {NoObj}
         /\ hand'.at # "dead" => /\ m.active \in DOMAIN m.accounts /\ shown' = m.accounts[m.active]
                                 /\ shown' \in Objs
<1>1. CASE m.active \in DOMAIN m.accounts \cap cs
  <2>1. hand' = [Rest EXCEPT !.at = "start"] /\ shown' = m.accounts[m.active] /\ tc' = m.active
    BY <1>1 DEF Build
  <2>2. m.active \in Slots /\ m.accounts[m.active] \in Objs
    BY <1>1, StateTypes DEF Sound
  <2> QED
    BY <1>1, <2>1, <2>2, BeginType DEF SlotOrNone
<1>2. CASE m.active \notin DOMAIN m.accounts \cap cs
  <2>1. hand' = [Rest EXCEPT !.at = "dead"] /\ shown' = NoObj /\ tc' = NoSlot
    BY <1>2 DEF Build
  <2> QED
    BY <2>1, BeginType DEF SlotOrNone
<1> QED
  BY <1>1, <1>2

LEMMA RebuildStep ==
  ASSUME IInv, Rebuild
  PROVE  IInv'
<1>1. /\ hand.at = "start" /\ Build(multi, clients) /\ apiSince' = FALSE
      /\ UNCHANGED <<multi, settings, disk, service, req, wait, restarts, answers, stale, crossed>>
  BY DEF Rebuild
<1>2. Sound(multi)
  BY DEF IInv, Whole
<1>3. /\ hand' \in Handlers /\ hand'.at \in {"start", "dead"} /\ hand'.slot = NoSlot
      /\ tc' \in SlotOrNone /\ shown' \in Objs \cup {NoObj}
      /\ hand'.at # "dead" => /\ Has(multi.active) /\ shown' = multi.accounts[multi.active]
                              /\ shown' \in Objs
  BY <1>1, <1>2, BuildOf DEF Has
<1>4. Whole' /\ SlotsAsAnswered'
  BY <1>1, StateStays
<1>5. Screen'
  BY <1>1, <1>3 DEF Screen, ShownIsActive, HandsOn, Has
<1>6. Told'
  BY <1>1 DEF IInv, Told, AnswerLandsWhereAsked, NoneAsked
<1>7. LoopsOfSlots'
  BY <1>1, LoopsStay DEF settings, service
<1>8. Apart'
  BY <1>1, <1>3, ApartHandGoesOn DEF service
<1>9. CallTypes' /\ SetTypes'
  BY <1>1, <1>3 DEF settings, service, answers, IInv, CallTypes, SetTypes
<1> QED
  BY <1>4, <1>5, <1>6, <1>7, <1>8, <1>9 DEF IInv

\* A table of fresh objects and an order of the slots.
Table(D) == CHOOSE f \in [D -> Objs] : IsInjective(f)

LEMMA MadeOf ==
  ASSUME NEW D \in SUBSET Slots, NEW ord \in Seq(Slots), Ordered(ord, D), NEW act \in SlotOrNone,
         NEW m, m = [accounts |-> Table(D), order |-> ord, active |-> act]
  PROVE  Sound(m) /\ DOMAIN m.accounts = D /\ m.active = act
<1> DEFINE acc == Table(D)
<1>1. acc \in [D -> Objs] /\ IsInjective(acc)
  BY TablesExist DEF Table
<1>2. m = [accounts |-> acc, order |-> ord, active |-> act]
  OBVIOUS
<1> HIDE DEF acc
<1>3. DOMAIN acc = D /\ acc \in Tables
  BY <1>1 DEF Tables
<1> QED
  BY <1>1, <1>2, <1>3 DEF Sound, States

LEMMA LoadedOf ==
  ASSUME SoundFile(disk)
  PROVE  Sound(Loaded) /\ Settled(Loaded) /\ DOMAIN Loaded.accounts = disk.slots \cup Env
<1> DEFINE D == disk.slots \cup Env
           rest == SetToSeq(D \ ToSet(disk.order))
           ord == disk.order \o rest
           act == IF disk.active \in D THEN disk.active ELSE First(ord)
<1>1. /\ disk.slots \in SUBSET Slots /\ disk.order \in Seq(Slots) /\ Ordered(disk.order, disk.slots)
      /\ disk.active \in SlotOrNone /\ Env \subseteq Slots
  BY SlotsAssumption DEF SoundFile, Files
<1>2. D \in SUBSET Slots /\ ToSet(disk.order) = disk.slots /\ D \ disk.slots \in SUBSET Slots
  BY <1>1 DEF Ordered
<1>3. rest \in Seq(Slots) /\ Ordered(rest, D \ disk.slots)
  <2>1. IsFiniteSet(D \ disk.slots)
    BY <1>2, SlotsAssumption, FS_Subset
  <2>2. rest \in Seq(D \ disk.slots) /\ Ordered(rest, D \ disk.slots)
    BY <1>2, <2>1, SetToSeqOf
  <2> HIDE DEF rest
  <2> QED
    BY <1>2, <2>2, SeqMonotonic
<1> HIDE DEF rest
<1>4. ord \in Seq(Slots) /\ Ordered(ord, D)
  <2>1. ord \in Seq(Slots) /\ Ordered(ord, disk.slots \cup (D \ disk.slots))
    BY <1>1, <1>3, OrderedConcat
  <2>2. disk.slots \cup (D \ disk.slots) = D
    OBVIOUS
  <2> HIDE DEF ord
  <2> QED
    BY <2>1, <2>2
<1> HIDE DEF ord
<1>5. act \in SlotOrNone /\ (D # {} => act \in D)
  <2>1. First(ord) \in D \cup {NoSlot} /\ (D # {} => First(ord) \in D)
    BY <1>4, FirstOf
  <2> QED
    BY <1>1, <1>2, <2>1 DEF SlotOrNone
<1>6. Loaded = [accounts |-> Table(D), order |-> ord, active |-> act]
  BY DEF Loaded, Table, ord, rest
<1> HIDE DEF act, D
<1>7. Sound(Loaded) /\ DOMAIN Loaded.accounts = D /\ Loaded.active = act
  BY <1>2, <1>4, <1>5, <1>6, MadeOf
<1> QED
  BY <1>5, <1>7 DEF Settled, D

LEMMA PrunedOf ==
  ASSUME NEW m, Sound(m), Settled(m), NEW b \in BOOLEAN,
         NEW n, n = IF b THEN WithoutSlot(m, Default) ELSE m
  PROVE  /\ Sound(n) /\ Settled(n)
         /\ DOMAIN n.accounts = IF b THEN DOMAIN m.accounts \ {Default} ELSE DOMAIN m.accounts
<1>1. CASE b
  <2> DEFINE w == WithoutSlot(m, Default)
  <2>1. n = w
    BY <1>1
  <2>2. /\ Sound(w) /\ DOMAIN w.accounts = DOMAIN m.accounts \ {Default}
        /\ m.active # Default => w.active = m.active
        /\ m.active = Default /\ DOMAIN w.accounts # {} => w.active \in DOMAIN w.accounts
    BY WithoutSlotOf
  <2> HIDE DEF w
  <2> QED
    BY <1>1, <2>1, <2>2 DEF Settled
<1>2. CASE ~b
  BY <1>2
<1> QED
  BY <1>1, <1>2

LEMMA MovedOf ==
  ASSUME NEW n, Sound(n), Settled(n), NEW au, au \subseteq DOMAIN n.accounts,
         NEW b \in BOOLEAN, b => au # {},
         NEW e, e = IF b THEN [n EXCEPT !.active = First(Kept(n.order, au))] ELSE n
  PROVE  Sound(e) /\ Settled(e) /\ e.accounts = n.accounts
<1> DEFINE k == Kept(n.order, au)
<1>1. CASE b
  <2>1. n.order \in Seq(Slots) /\ Ordered(n.order, DOMAIN n.accounts) /\ DOMAIN n.accounts \subseteq Slots
    BY StateTypes DEF Sound
  <2>2. k \in Seq(Slots) /\ Ordered(k, DOMAIN n.accounts \cap au)
    BY <2>1, KeptOf
  <2>3. DOMAIN n.accounts \cap au # {}
    BY <1>1
  <2> HIDE DEF k
  <2>4. First(k) \in DOMAIN n.accounts /\ First(k) \in SlotOrNone
    BY <2>1, <2>2, <2>3, FirstOf DEF SlotOrNone
  <2> DEFINE w == [n EXCEPT !.active = First(k)]
  <2>5. e = w
    BY <1>1 DEF k
  <2>6. Sound(w) /\ w.accounts = n.accounts /\ w.active = First(k)
    BY <2>4, WithActive
  <2> HIDE DEF w
  <2> QED
    BY <2>4, <2>5, <2>6 DEF Settled
<1>2. CASE ~b
  BY <1>2
<1> QED
  BY <1>1, <1>2

\* What a start leaves: every slot with a client and a loop, nothing under way.
LEMMA Started ==
  ASSUME NEW n, Sound(n), Sound(multi'), multi'.accounts = n.accounts, Build(multi', clients'),
         clients' = DOMAIN n.accounts, pending' = {}, loops' = n.accounts,
         wait' = [a \in Admins |-> NoWait], req' = [r \in Requests |-> Idle],
         stale' = {}, crossed' = {}
  PROVE  Screen' /\ Told' /\ LoopsOfSlots' /\ Apart' /\ CallTypes'
         /\ tc' \in SlotOrNone /\ shown' \in Objs \cup {NoObj}
         /\ (hand'.at # "dead" => shown' \in Objs)
<1>1. /\ hand' \in Handlers /\ hand'.at \in {"start", "dead"} /\ hand'.slot = NoSlot
      /\ tc' \in SlotOrNone /\ shown' \in Objs \cup {NoObj}
      /\ hand'.at # "dead" => /\ multi'.active \in DOMAIN multi'.accounts
                              /\ shown' = multi'.accounts[multi'.active] /\ shown' \in Objs
  BY BuildOf
<1>2. Screen'
  BY <1>1 DEF Screen, ShownIsActive, HandsOn, Has
<1>3. \A a \in Admins : wait'[a] = NoWait
  OBVIOUS
<1>4. Told'
  BY <1>3, NoWaitType DEF Told, AnswerLandsWhereAsked, NoneAsked
<1>5. LoopsOfSlots'
  BY DEF LoopsOfSlots, Has
<1>6. \A r \in Requests : req'[r] = Idle
  OBVIOUS
<1>7. Apart'
  BY <1>1, <1>6, IdleType DEF Apart, Known
<1>8. CallTypes'
  BY <1>1, <1>3, <1>6, NoWaitType, IdleType DEF CallTypes
<1> QED
  BY <1>1, <1>2, <1>4, <1>5, <1>7, <1>8

LEMMA StartOf ==
  ASSUME IInv, NEW authorised, Start(authorised), restarts' \in 0 .. MaxRestarts
  PROVE  IInv'
<1> DEFINE m == Loaded
           f == {m.accounts[s] : s \in disk.filled}
           ru == {m.accounts[s] : s \in disk.running}
           pruned == Phantom(m, f, ru)
           n == IF pruned THEN WithoutSlot(m, Default) ELSE m
           D == DOMAIN n.accounts
           moved == authorised # {} /\ n.active \notin authorised
           final == IF moved THEN [n EXCEPT !.active = First(Kept(n.order, authorised))] ELSE n
<1>1. /\ authorised \subseteq D /\ filled' = f /\ running' = ru /\ multi' = final
      /\ \/ disk' = Written(final, filled', running')
         \/ ~pruned /\ disk' = disk
      /\ clients' = D /\ files' = files \cup D /\ pending' = {} /\ loops' = n.accounts
      /\ Build(final, D) /\ gone' = gone
      /\ promised' = IF pruned THEN promised \ {Default} ELSE promised
      /\ wait' = [a \in Admins |-> NoWait] /\ req' = [r \in Requests |-> Idle]
      /\ apiSince' = FALSE /\ stale' = {} /\ crossed' = {}
  BY DEF Start
<1>2. /\ Sound(m) /\ Settled(m) /\ DOMAIN m.accounts = disk.slots \cup Env
      /\ SoundFile(disk) /\ disk.filled \cup disk.running \subseteq disk.slots
  BY LoadedOf DEF IInv, Whole, SoundFile
<1>3. pruned \in BOOLEAN
  BY DEF Phantom
<1>4. moved \in BOOLEAN /\ (moved => authorised # {})
  OBVIOUS
<1>5. f \subseteq Objs /\ ru \subseteq Objs
  <2>1. \A s \in DOMAIN m.accounts : m.accounts[s] \in Objs
    BY <1>2, StateTypes DEF Sound
  <2> QED
    BY <1>2, <2>1
<1>6. n = IF pruned THEN WithoutSlot(m, Default) ELSE m
  OBVIOUS
<1>7. final = IF moved THEN [n EXCEPT !.active = First(Kept(n.order, authorised))] ELSE n
  OBVIOUS
<1> HIDE DEF f, ru, pruned, m, n, moved, final
<1>8. /\ Sound(n) /\ Settled(n)
      /\ DOMAIN n.accounts = IF pruned THEN DOMAIN m.accounts \ {Default} ELSE DOMAIN m.accounts
  BY <1>2, <1>3, <1>6, PrunedOf
<1>9. Sound(final) /\ Settled(final) /\ final.accounts = n.accounts
  BY <1>1, <1>4, <1>7, <1>8, MovedOf
<1>10. Sound(multi') /\ multi'.accounts = n.accounts
  BY <1>1, <1>9
<1>11. /\ SoundFile(disk')
       /\ \/ disk'.slots = D
          \/ ~pruned /\ disk'.slots = disk.slots
  BY <1>1, <1>2, <1>9, WrittenOf
<1>12. SlotsAsAnswered'
  <2>1. gone' \cap (DOMAIN multi'.accounts \cup disk'.slots) \subseteq Env
    BY <1>1, <1>2, <1>8, <1>10, <1>11 DEF IInv, SlotsAsAnswered
  <2>2. promised' \subseteq DOMAIN multi'.accounts \cap disk'.slots
    BY <1>1, <1>2, <1>8, <1>10, <1>11 DEF IInv, SlotsAsAnswered
  <2> QED
    BY <2>1, <2>2 DEF SlotsAsAnswered
<1>13. Screen' /\ Told' /\ LoopsOfSlots' /\ Apart' /\ CallTypes'
       /\ tc' \in SlotOrNone /\ shown' \in Objs \cup {NoObj}
       /\ (hand'.at # "dead" => shown' \in Objs)
  <2>1. Build(multi', clients')
    BY <1>1
  <2> QED
    BY <1>1, <1>8, <1>10, <2>1, Started
<1>14. SetTypes'
  <2>1. n.accounts \in Tables /\ D \subseteq Slots
    BY <1>8, StateTypes DEF Sound
  <2> QED
    BY <1>1, <1>5, <1>13, <2>1 DEF IInv, SetTypes
<1> QED
  BY <1>10, <1>11, <1>12, <1>13, <1>14 DEF IInv, Whole

LEMMA CrashStep ==
  ASSUME IInv, Crash
  PROVE  IInv'
<1>1. restarts' \in 0 .. MaxRestarts
  BY SlotsAssumption DEF Crash, IInv, SetTypes
<1> QED
  BY <1>1, StartOf DEF Crash

LEMMA InitStep == Init => IInv
<1> SUFFICES ASSUME Init PROVE IInv
  OBVIOUS
<1> DEFINE D == Env \cup Configured
           ord == SetToSeq(D)
<1>1. /\ multi = [accounts |-> Table(D), order |-> ord, active |-> First(ord)]
      /\ filled = {multi.accounts[s] : s \in Configured} /\ running = {}
      /\ disk = Written(multi, filled, running)
      /\ clients = D /\ files = D /\ pending = {} /\ loops = multi.accounts /\ promised = D
      /\ req = [r \in Requests |-> Idle] /\ hand = [Rest EXCEPT !.at = "start"]
      /\ wait = [a \in Admins |-> NoWait]
      /\ shown = multi.accounts[multi.active] /\ tc = multi.active /\ restarts = 0
      /\ gone = {} /\ apiSince = FALSE /\ stale = {} /\ crossed = {}
  BY DEF Init, Table
<1>2. D \in SUBSET Slots /\ D # {} /\ Configured \subseteq D /\ MaxRestarts \in Nat
  BY SlotsAssumption
<1>3. ord \in Seq(Slots) /\ Ordered(ord, D)
  <2>1. IsFiniteSet(D)
    BY <1>2, SlotsAssumption, FS_Subset
  <2>2. ord \in Seq(D) /\ Ordered(ord, D)
    BY <2>1, SetToSeqOf
  <2> HIDE DEF ord
  <2> QED
    BY <1>2, <2>2, SeqMonotonic
<1> HIDE DEF ord
<1>4. First(ord) \in D /\ First(ord) \in SlotOrNone
  BY <1>2, <1>3, FirstOf DEF SlotOrNone
<1> HIDE DEF D
<1>5. Sound(multi) /\ DOMAIN multi.accounts = D /\ multi.active = First(ord)
  BY <1>1, <1>2, <1>3, <1>4, MadeOf
<1>6. SoundFile(disk) /\ disk.slots = D
  BY <1>1, <1>4, <1>5, WrittenOf DEF Settled
<1>7. hand \in Handlers /\ hand.at = "start" /\ hand.slot = NoSlot
  BY <1>1, BeginType
<1>8. \A s \in D : multi.accounts[s] \in Objs
  BY <1>5, StateTypes DEF Sound
<1>9. (\A r \in Requests : req[r] = Idle) /\ (\A a \in Admins : wait[a] = NoWait)
  BY <1>1
<1>10. CallTypes
  BY <1>1, <1>7, NoWaitType, IdleType DEF CallTypes
<1>11. SetTypes
  <2>1. loops \in Tables
    BY <1>1, <1>5, StateTypes DEF Sound
  <2>2. filled \subseteq Objs /\ shown \in Objs
    BY <1>1, <1>2, <1>4, <1>5, <1>8
  <2>3. tc \in SlotOrNone /\ restarts \in 0 .. MaxRestarts
    BY <1>1, <1>2, <1>4, <1>5
  <2> QED
    BY <1>1, <1>2, <2>1, <2>2, <2>3 DEF SetTypes
<1>12. SlotsAsAnswered
  BY <1>1, <1>5, <1>6 DEF SlotsAsAnswered
<1>13. Screen
  BY <1>1, <1>4, <1>5, <1>7 DEF Screen, ShownIsActive, HandsOn, Has
<1>14. Told
  BY <1>9, NoWaitType DEF Told, AnswerLandsWhereAsked, NoneAsked
<1>15. LoopsOfSlots
  BY <1>1 DEF LoopsOfSlots, Has
<1>16. Apart
  BY <1>1, <1>5, <1>7, <1>9, IdleType DEF Apart, Known
<1> QED
  BY <1>5, <1>6, <1>10, <1>11, <1>12, <1>13, <1>14, <1>15, <1>16 DEF IInv, Whole

-----------------------------------------------------------------------------
(* Every step keeps the invariant.                                         *)

LEMMA ApiCallStep ==
  ASSUME IInv, ApiCall
  PROVE  IInv'
<1>1. ASSUME NEW s \in Slots, NEW f \in BOOLEAN, AddSlot(s, f) PROVE IInv'
  BY <1>1, AddSlotStep
<1>2. ASSUME NEW s \in Slots, ActivateSlot(s) \/ PatchSlot(s) \/ StopSpam(s) PROVE IInv'
  BY <1>2, ActivateSlotStep, PatchSlotStep, StopSpamStep
<1>3. ASSUME NEW r \in Requests, NEW s \in Slots,
             DeleteSlot(r, s) \/ SendCode(r, s) \/ SignIn(r, s) \/ UploadSession(r, s)
      PROVE  IInv'
  BY <1>3, DeleteSlotStep, SendCodeStep, SignInStep, UploadSessionStep
<1>4. ASSUME NEW r \in Requests, NEW s \in Slots,
             SetSpam(r, s) \/ ListDialogs(r, s) \/ BulkChats(r, s) \/ PatchChat(r, s)
      PROVE  IInv'
  BY <1>4, NeedsStep, PatchChatStep DEF SetSpam, ListDialogs, BulkChats, Purposes
<1> QED
  BY <1>1, <1>2, <1>3, <1>4 DEF ApiCall

LEMMA ApiGoesOnStep ==
  ASSUME IInv, ApiGoesOn
  PROVE  IInv'
<1>1. PICK r \in Requests :
        \/ DeleteFinish(r) \/ Connected(r) \/ CodeSent(r) \/ SignedIn(r) \/ Greeted(r)
        \/ UploadCleared(r) \/ Uploaded(r) \/ NotAuthorised(r)
        \/ Reached(r) \/ Made(r) \/ SpamStarted(r) \/ ChatsSet(r) \/ Listed(r)
  BY DEF ApiGoesOn
<1> QED
  BY <1>1, DeleteFinishStep, ConnectedStep, CodeSentStep, SignedInStep, GreetedStep,
     UploadClearedStep, UploadedStep, NotAuthorisedStep, ReachedStep, MadeStep, SpamStartedStep,
     ChatsSetStep, ListedStep

LEMMA UpdateStep ==
  ASSUME IInv, Update
  PROVE  IInv'
<1>1. CASE PressSpam \/ ToggleChats \/ ClearField \/ PickSource \/ ResetField \/ EditDefaults
  BY <1>1, PressSpamStep, ToggleChatsStep, EditDefaultsStep DEF ClearField, PickSource, ResetField
<1>2. ASSUME NEW a \in Admins,
             AskField(a) \/ AskDefaults(a) \/ AskPost(a) \/ AskNewSlot(a) \/ GoHome(a)
      PROVE  IInv'
  <2>1. "chat" \in Asked /\ "defaults" \in Asked /\ "post" \in Asked
    BY DEF Asked
  <2> QED
    BY <1>2, <2>1, AskStep, AskNewSlotStep, GoHomeStep DEF AskField, AskDefaults, AskPost
<1>3. ASSUME NEW a \in Admins,
             \/ AnswerField(a) \/ AnswerLimits(a) \/ AnswerDefaults(a) \/ AnswerPost(a)
             \/ AnswerPhone(a) \/ AnswerCode(a)
      PROVE  IInv'
  BY <1>3, AnswerFieldStep, AnswerDefaultsStep, AnswerPostStep, AnswerPhoneStep, AnswerCodeStep
     DEF AnswerLimits
<1>4. ASSUME NEW a \in Admins, NEW s \in Slots,
             PressDelete(a, s) \/ PressSlot(a, s) \/ AnswerNewSlot(a, s)
      PROVE  IInv'
  BY <1>4, PressDeleteStep, PressSlotStep, AnswerNewSlotStep
<1> QED
  BY <1>1, <1>2, <1>3, <1>4 DEF Update

LEMMA BotGoesOnStep ==
  ASSUME IInv, BotGoesOn
  PROVE  IInv'
BY DroppedStep, SlotConnectedStep, SlotCheckedStep, NewSlotConnectedStep, PhoneDoneStep,
   CodeDoneStep, WelcomedStep, ListenStep, RebuildStep DEF BotGoesOn

LEMMA Stutters ==
  ASSUME IInv, UNCHANGED vars
  PROVE  IInv'
<1>1. /\ UNCHANGED <<multi, filled, running, disk, clients, files, pending, loops, req, hand, wait,
                     shown, tc, restarts, promised, gone, apiSince, stale, crossed>>
  BY DEF vars, settings, service, control, answers, ghosts
<1>2. Whole' /\ CallTypes' /\ SetTypes' /\ SlotsAsAnswered'
  BY <1>1 DEF IInv, Whole, CallTypes, SetTypes, SlotsAsAnswered
<1>3. Screen' /\ Told' /\ LoopsOfSlots'
  BY <1>1 DEF IInv, Screen, ShownIsActive, HandsOn, Told, AnswerLandsWhereAsked, NoneAsked,
              LoopsOfSlots, Has, Live
<1>4. Apart'
  BY <1>1, ApartStays
<1> QED
  BY <1>2, <1>3, <1>4 DEF IInv

LEMMA NextStep == IInv /\ [Next]_vars => IInv'
<1> SUFFICES ASSUME IInv, [Next]_vars PROVE IInv'
  OBVIOUS
<1>1. CASE ApiCall \/ Update \/ Crash
  BY <1>1, ApiCallStep, UpdateStep, CrashStep
<1>2. CASE ApiGoesOn \/ BotGoesOn
  BY <1>2, ApiGoesOnStep, BotGoesOnStep
<1>3. CASE UNCHANGED vars
  BY <1>3, Stutters
<1> QED
  BY <1>1, <1>2, <1>3 DEF Next

LEMMA Inductive == Spec => []IInv
BY InitStep, NextStep, PTL DEF Spec

\* Calls are counted.
Counted == calls \in 0 .. MaxCalls

LEMMA CallsCounted == Spec => []Counted
<1>1. Init => Counted
  BY SlotsAssumption DEF Init, Counted
<1>2. Counted /\ [Next]_vars => Counted'
  <2> SUFFICES ASSUME Counted, [Next]_vars PROVE Counted'
    OBVIOUS
  <2>1. CASE UNCHANGED calls
    BY <2>1 DEF Counted
  <2>2. CASE calls < MaxCalls /\ calls' = calls + 1
    BY <2>2, SlotsAssumption DEF Counted
  <2> QED
    BY <2>1, <2>2 DEF Next, vars
<1> QED
  BY <1>1, <1>2, PTL DEF Spec

-----------------------------------------------------------------------------
(* What follows.                                                           *)

LEMMA Typed == IInv /\ Counted => TypeOK
<1> SUFFICES ASSUME IInv, Counted PROVE TypeOK
  OBVIOUS
<1>1. /\ DOMAIN multi.accounts \subseteq Slots /\ Live \subseteq Objs
      /\ multi.active \in Slots \cup {NoSlot}
  BY SlotOf DEF SlotOrNone
<1>2. disk.filled \cup disk.running \subseteq disk.slots /\ disk.slots \subseteq Slots
  BY DEF IInv, Whole, SoundFile, Files
<1>3. DOMAIN loops \subseteq Slots /\ Range(loops) \subseteq Objs
  <2>1. DOMAIN loops \subseteq Slots /\ loops \in [DOMAIN loops -> Objs]
    BY TablesDef DEF IInv, SetTypes
  <2> QED
    BY <2>1 DEF Range
<1>4. \A r \in Requests : req[r].slot \in Slots \cup {NoSlot} /\ req[r].obj \in Objs \cup {NoObj}
  BY CallOf DEF SlotOrNone
<1>5. hand.slot \in Slots \cup {NoSlot} /\ hand.who \in Admins \cup {NoAdmin}
  BY DEF IInv, CallTypes, Handlers
<1>6. \A a \in Admins : wait[a].kind \in Asked \cup {"none", "accadd", "phone", "code"}
  BY DEF IInv, CallTypes, Questions, Kinds
<1>7. /\ filled \subseteq Objs /\ running \subseteq Objs /\ clients \cup files \cup pending \subseteq Slots
      /\ shown \in Objs \cup {NoObj} /\ tc \in Slots \cup {NoSlot}
      /\ promised \cup gone \cup crossed \subseteq Slots /\ stale \subseteq Objs
      /\ apiSince \in BOOLEAN /\ restarts \in 0 .. MaxRestarts
  BY DEF IInv, SetTypes, SlotOrNone
<1>8. calls \in 0 .. MaxCalls
  BY DEF Counted
<1> QED
  BY <1>1, <1>2, <1>3, <1>4, <1>5, <1>6, <1>7, <1>8 DEF TypeOK

\* Whatever the site's API, the control bot and the starts of the bot do to the
\* slots across their awaits, account_order has every slot once, no two slots
\* share a RuntimeState, and the file written names one of its slots as active.
THEOREM SlotsFileIsWhole == Spec => []FileIsWhole
<1>1. IInv /\ Counted => FileIsWhole
  <2>1. IInv => /\ ToSet(multi.order) = DOMAIN multi.accounts /\ IsInjective(multi.order)
                /\ IsInjective(multi.accounts)
                /\ ToSet(disk.order) = disk.slots /\ IsInjective(disk.order)
                /\ disk.slots # {} => disk.active \in disk.slots
    BY DEF IInv, Whole, Sound, SoundFile, Ordered
  <2> QED
    BY <2>1, Typed DEF FileIsWhole
<1> QED
  BY <1>1, Inductive, CallsCounted, PTL

\* A slot that delete_slot or the control bot answered as deleted stays deleted,
\* across crashes too, unless ACCOUNTS names it; one that was answered as there
\* is there and in the file, whichever handler saved last.
THEOREM SlotsAnswered == Spec => []SlotsAsAnswered
<1>1. IInv => SlotsAsAnswered
  BY DEF IInv
<1> QED
  BY <1>1, Inductive, PTL

\* The control bot's buttons act on the active slot as long as the API leaves
\* alone which one that is: bot_data["state"] and active_account_id agree.
THEOREM SlotsShown == Spec => []ShownIsActive
<1>1. IInv => ShownIsActive
  BY DEF IInv, Screen
<1> QED
  BY <1>1, Inductive, PTL

\* The text an administrator sends is applied to the slot on whose screen it was
\* asked for, unless a handler between switched or deleted a slot.
THEOREM SlotsAnswersLand == Spec => []AnswerLandsWhereAsked
<1>1. IInv => AnswerLandsWhereAsked
  BY DEF IInv, Told
<1> QED
  BY <1>1, Inductive, PTL

\* A spam loop that sends does so with the settings of the slot it is registered
\* under, however slots were deleted, made again and switched meanwhile, unless
\* its settings were started by the button of a screen the API had overtaken, or
\* by a set_spam whose slot was deleted while it waited for the client.
THEOREM SlotsSend == Spec => []SendsForItsSlot
<1>1. IInv => SendsForItsSlot
  BY DEF IInv, LoopsOfSlots, SendsForItsSlot
<1> QED
  BY <1>1, Inductive, PTL

\* Of a slot that is deleted no client stays connected and no sign-in half done,
\* unless a call on it was under way: the awaits of calls on other slots leave
\* nothing behind.
THEOREM SlotsNothingLeft == Spec => []NothingLeftBehind
<1>1. IInv => NothingLeftBehind
  BY DEF IInv, Apart, Known, NothingLeftBehind
<1> QED
  BY <1>1, Inductive, PTL
=============================================================================
