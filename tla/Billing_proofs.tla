--------------------------- MODULE Billing_proofs ---------------------------
(***************************************************************************)
(* The safety of Billing for any numbers of users, invoices, requests,     *)
(* prices, discounts and crashes.                                          *)
(***************************************************************************)
EXTENDS Billing, FiniteSetTheorems, WellFoundedInduction, TLAPS

-----------------------------------------------------------------------------
(* The sum of a function over a finite set, as FoldFunction computes it.   *)
(* Each induction is on a bound of the cardinality, by least               *)
(* counterexample, over a set of numbers instead of a predicate.           *)

Total(f) == FoldFunction(LAMBDA a, b : a + b, 0, f)

Any(s) == CHOOSE x \in s : TRUE

\* it adds up f over the subsets of S.
Sums(it, f, S) ==
  it = [s \in SUBSET S |-> IF s = {} THEN 0 ELSE f[Any(s)] + it[s \ {Any(s)}]]

\* ... and ends with the sum over S.
Adds(it, f, S) ==
  /\ Total(f) = it[S]
  /\ \A s \in SUBSET S :
       /\ it[s] \in Nat
       /\ it[s] = IF s = {} THEN 0 ELSE f[Any(s)] + it[s \ {Any(s)}]

LEMMA TotalIs ==
  ASSUME NEW f
  PROVE  Total(f) = (CHOOSE it : Sums(it, f, DOMAIN f))[DOMAIN f]
BY DEF Total, Sums, Any, FoldFunction, FoldFunctionOnSet, MapThenFoldSet

\* The natural numbers are the only set that holds 0 and every successor.
LEMMA Induction ==
  ASSUME NEW P, 0 \in P, \A n \in Nat : n \in P => n + 1 \in P
  PROVE  Nat \subseteq P
<1> DEFINE T == Nat \ P
<1> SUFFICES ASSUME T # {} PROVE FALSE
  OBVIOUS
<1>1. IsWellFoundedOn(OpToRel(<, Nat), Nat)
  BY NatLessThanWellFounded
<1>2. PICK x \in T : \A y \in T : ~(<<y, x>> \in OpToRel(<, Nat))
  BY <1>1, WFMin
<1>3. \A y \in T : ~(y < x)
  BY <1>2 DEF OpToRel
<1>4. x - 1 \in Nat /\ x - 1 \in P
  BY <1>3
<1> QED
  BY <1>4

LEMMA Smaller ==
  ASSUME NEW S, IsFiniteSet(S), NEW s \in SUBSET S
  PROVE  /\ Cardinality(s) \in Nat
         /\ Cardinality(s) <= Cardinality(S)
         /\ Cardinality(s) <= 0 <=> s = {}
         /\ s # {} => /\ Any(s) \in s
                      /\ Cardinality(s \ {Any(s)}) = Cardinality(s) - 1
<1>1. IsFiniteSet(s) /\ Cardinality(s) <= Cardinality(S)
  BY FS_Subset
<1>2. Cardinality(s) \in Nat /\ (Cardinality(s) = 0 <=> s = {})
  BY <1>1, FS_CardinalityType, FS_EmptySet
<1>3. s # {} => Any(s) \in s
  BY DEF Any
<1>4. Cardinality(s \ {Any(s)}) = IF Any(s) \in s THEN Cardinality(s) - 1 ELSE Cardinality(s)
  BY <1>1, FS_RemoveElement
<1> QED
  BY <1>1, <1>2, <1>3, <1>4

LEMMA SumsExist ==
  ASSUME NEW S, IsFiniteSet(S), NEW f \in [S -> Nat]
  PROVE  \E it \in [SUBSET S -> Nat] : Sums(it, f, S)
<1> DEFINE Eq(h, s) == h[s] = IF s = {} THEN 0 ELSE f[Any(s)] + h[s \ {Any(s)}]
           P == {n \in Nat : \E h \in [SUBSET S -> Nat] :
                   \A s \in SUBSET S : Cardinality(s) <= n => Eq(h, s)}
<1>1. 0 \in P
  <2> DEFINE z == [s \in SUBSET S |-> 0]
  <2>1. z \in [SUBSET S -> Nat]
    OBVIOUS
  <2>2. \A s \in SUBSET S : Cardinality(s) <= 0 => s = {}
    BY Smaller
  <2>3. \A s \in SUBSET S : Cardinality(s) <= 0 => Eq(z, s)
    BY <2>2
  <2> QED
    BY <2>1, <2>3
<1>2. ASSUME NEW n \in Nat, n \in P PROVE n + 1 \in P
  <2>1. PICK h \in [SUBSET S -> Nat] : \A s \in SUBSET S : Cardinality(s) <= n => Eq(h, s)
    BY <1>2
  <2> DEFINE g == [s \in SUBSET S |-> IF s = {} THEN 0 ELSE f[Any(s)] + h[s \ {Any(s)}]]
  <2>2. \A s \in SUBSET S : s # {} => Any(s) \in S /\ s \ {Any(s)} \in SUBSET S
    BY Smaller
  <2>3. g \in [SUBSET S -> Nat]
    BY <2>2
  <2>4. ASSUME NEW s \in SUBSET S, Cardinality(s) <= n PROVE g[s] = h[s]
    BY <2>1, <2>4
  <2>5. ASSUME NEW s \in SUBSET S, Cardinality(s) <= n + 1 PROVE Eq(g, s)
    <3>1. CASE s = {}
      BY <3>1
    <3>2. CASE s # {}
      <4>1. Cardinality(s \ {Any(s)}) <= n
        BY <2>5, <3>2, Smaller
      <4>2. g[s \ {Any(s)}] = h[s \ {Any(s)}]
        BY <2>4, <4>1, <2>2, <3>2
      <4>3. g[s] = f[Any(s)] + h[s \ {Any(s)}]
        BY <3>2
      <4> QED
        BY <4>2, <4>3, <3>2
    <3> QED
      BY <3>1, <3>2
  <2> HIDE DEF g, Eq
  <2>6. \E h2 \in [SUBSET S -> Nat] : \A s \in SUBSET S : Cardinality(s) <= n + 1 => Eq(h2, s)
    BY <2>3, <2>5
  <2> QED
    BY <2>6
<1>3. Cardinality(S) \in P
  <2>1. Cardinality(S) \in Nat
    BY FS_CardinalityType
  <2> HIDE DEF P
  <2> QED
    BY <1>1, <1>2, <2>1, Induction
<1>4. PICK h \in [SUBSET S -> Nat] :
        \A s \in SUBSET S : Cardinality(s) <= Cardinality(S) => Eq(h, s)
  BY <1>3
<1>5. \A s \in SUBSET S : Eq(h, s)
  BY <1>4, Smaller
<1>6. h = [s \in SUBSET S |-> h[s]]
  OBVIOUS
<1>7. h = [s \in SUBSET S |-> IF s = {} THEN 0 ELSE f[Any(s)] + h[s \ {Any(s)}]]
  BY <1>5, <1>6
<1> QED
  BY <1>7 DEF Sums

\* What is chosen is a sum; and sums are natural numbers.
LEMMA SumsOf ==
  ASSUME NEW S, IsFiniteSet(S), NEW f \in [S -> Nat]
  PROVE  \E it : Adds(it, f, S)
<1> DEFINE it == CHOOSE h : Sums(h, f, S)
           P == {n \in Nat : \A s \in SUBSET S : Cardinality(s) <= n => it[s] \in Nat}
<1>1. Sums(it, f, S)
  BY SumsExist
<1>2. Total(f) = it[S]
  <2>1. DOMAIN f = S
    OBVIOUS
  <2> QED
    BY <2>1, TotalIs
<1> HIDE DEF it
<1>3. \A s \in SUBSET S : it[s] = IF s = {} THEN 0 ELSE f[Any(s)] + it[s \ {Any(s)}]
  BY <1>1 DEF Sums
<1>4. 0 \in P
  <2>1. \A s \in SUBSET S : Cardinality(s) <= 0 => s = {}
    BY Smaller
  <2>2. {} \in SUBSET S /\ it[{}] = 0
    BY <1>3
  <2> QED
    BY <2>1, <2>2
<1>5. ASSUME NEW n \in Nat, n \in P PROVE n + 1 \in P
  <2> SUFFICES ASSUME NEW s \in SUBSET S, Cardinality(s) <= n + 1, s # {} PROVE it[s] \in Nat
    BY <1>3
  <2>1. Any(s) \in S /\ Cardinality(s \ {Any(s)}) <= n /\ s \ {Any(s)} \in SUBSET S
    BY Smaller
  <2>2. it[s \ {Any(s)}] \in Nat
    BY <2>1, <1>5
  <2>3. it[s] = f[Any(s)] + it[s \ {Any(s)}]
    BY <1>3
  <2>4. f[Any(s)] \in Nat
    BY <2>1
  <2> QED
    BY <2>2, <2>3, <2>4
<1>6. Cardinality(S) \in P
  <2>1. Cardinality(S) \in Nat
    BY FS_CardinalityType
  <2> HIDE DEF P
  <2> QED
    BY <1>4, <1>5, <2>1, Induction
<1>7. \A s \in SUBSET S : it[s] \in Nat
  BY <1>6, Smaller
<1> QED
  BY <1>2, <1>3, <1>7 DEF Adds

LEMMA TotalOfNothing ==
  ASSUME NEW S, IsFiniteSet(S)
  PROVE  Total([x \in S |-> 0]) = 0
<1> DEFINE f == [x \in S |-> 0]
<1>1. f \in [S -> Nat]
  OBVIOUS
<1>2. PICK it : Adds(it, f, S)
  BY <1>1, SumsOf
<1> USE DEF Adds
<1> DEFINE P == {n \in Nat : \A s \in SUBSET S : Cardinality(s) <= n => it[s] = 0}
<1>3. 0 \in P
  <2>1. \A s \in SUBSET S : Cardinality(s) <= 0 => s = {}
    BY Smaller
  <2>2. {} \in SUBSET S /\ it[{}] = 0
    BY <1>2
  <2> QED
    BY <2>1, <2>2
<1>4. ASSUME NEW n \in Nat, n \in P PROVE n + 1 \in P
  <2> SUFFICES ASSUME NEW s \in SUBSET S, Cardinality(s) <= n + 1, s # {} PROVE it[s] = 0
    BY <1>2
  <2>1. Any(s) \in S /\ Cardinality(s \ {Any(s)}) <= n /\ s \ {Any(s)} \in SUBSET S
    BY Smaller
  <2>2. it[s \ {Any(s)}] = 0
    BY <2>1, <1>4
  <2>3. it[s] = f[Any(s)] + it[s \ {Any(s)}]
    BY <1>2
  <2>4. f[Any(s)] = 0
    BY <2>1
  <2> QED
    BY <2>2, <2>3, <2>4
<1>5. Cardinality(S) \in P
  <2>1. Cardinality(S) \in Nat
    BY FS_CardinalityType
  <2> HIDE DEF P
  <2> QED
    BY <1>3, <1>4, <2>1, Induction
<1> QED
  BY <1>2, <1>5

LEMMA TotalOfOneMore ==
  ASSUME NEW S, IsFiniteSet(S), NEW f \in [S -> Nat], NEW x \in S
  PROVE  /\ Total(f) \in Nat
         /\ Total([f EXCEPT ![x] = @ + 1]) = Total(f) + 1
<1> DEFINE g == [f EXCEPT ![x] = @ + 1]
<1>1. g \in [S -> Nat] /\ \A y \in S : g[y] = IF y = x THEN f[y] + 1 ELSE f[y]
  OBVIOUS
<1> HIDE DEF g
<1>2. PICK a : Adds(a, f, S)
  BY SumsOf
<1>3. PICK b : Adds(b, g, S)
  BY <1>1, SumsOf
<1> USE DEF Adds
<1> DEFINE More(s) == IF x \in s THEN a[s] + 1 ELSE a[s]
           P == {n \in Nat : \A s \in SUBSET S : Cardinality(s) <= n => b[s] = More(s)}
<1>4. 0 \in P
  <2>1. \A s \in SUBSET S : Cardinality(s) <= 0 => s = {}
    BY Smaller
  <2>2. {} \in SUBSET S /\ a[{}] = 0 /\ b[{}] = 0
    BY <1>2, <1>3
  <2> QED
    BY <2>1, <2>2
<1>5. ASSUME NEW n \in Nat, n \in P PROVE n + 1 \in P
  <2> SUFFICES ASSUME NEW s \in SUBSET S, Cardinality(s) <= n + 1, s # {} PROVE b[s] = More(s)
    BY <1>2, <1>3
  <2> DEFINE y == Any(s)
  <2>1. y \in S /\ y \in s /\ Cardinality(s \ {y}) <= n /\ s \ {y} \in SUBSET S
    BY Smaller
  <2> HIDE DEF y
  <2>2. b[s \ {y}] = More(s \ {y})
    BY <2>1, <1>5
  <2>3. b[s] = g[y] + b[s \ {y}] /\ a[s] = f[y] + a[s \ {y}]
    BY <1>2, <1>3 DEF y
  <2>4. f[y] \in Nat /\ g[y] \in Nat /\ a[s \ {y}] \in Nat
    BY <2>1, <1>1, <1>2
  <2>5. CASE x \in s \ {y}
    BY <2>1, <2>2, <2>3, <2>4, <2>5, <1>1
  <2>6. CASE x = y
    BY <2>1, <2>2, <2>3, <2>4, <2>6, <1>1
  <2>7. CASE x \notin s
    BY <2>1, <2>2, <2>3, <2>4, <2>7, <1>1
  <2> QED
    BY <2>5, <2>6, <2>7
<1>6. Cardinality(S) \in P
  <2>1. Cardinality(S) \in Nat
    BY FS_CardinalityType
  <2> HIDE DEF P
  <2> QED
    BY <1>4, <1>5, <2>1, Induction
<1>7. b[S] = a[S] + 1 /\ a[S] \in Nat
  BY <1>6, <1>2, Smaller
<1> QED
  BY <1>7, <1>2, <1>3 DEF g

-----------------------------------------------------------------------------
(* The inductive invariant.                                                *)

\* The saves of an activation up to the one that marks the invoice as paid, and
\* those that follow it.
Before == {"plan", "use", "extra", "mark"}
After == {"spend", "reward", "entry", "bonus"}

\* An invoice that was never created is blank everywhere, and one that was has an
\* order and is in the file; who is paid in memory is paid in the file (the
\* reverse is false: a late answer is written over the status in memory only).
\* An answer that says "paid" is still true when it arrives.
InvoicesInv ==
  /\ \A i \in Invoices :
       /\ status[i] = "none" => inv[i] = NoOrder /\ provider[i] = "none" /\ charged[i] = 0
       /\ status[i] # "none" => inv[i] \in Orders
       /\ status[i] = "none" <=> saved[i] = "none"
       /\ status[i] = "paid" => saved[i] = "paid"
  /\ \A k \in Pollers :
       /\ answer[k] # "none" => check[k] \in Invoices
       /\ answer[k] = "paid" => provider[check[k]] = "paid"
       /\ check[k] \in Invoices => Created(check[k])

\* An activation without an invoice is a gift.  One with an invoice is of an
\* invoice that is created, is paid after "mark" and not before, and was not
\* let expire.
ActInv ==
  /\ act.step = "idle" => act = NoAct
  /\ act.inv \notin Invoices => act.step \in {"idle", "entry"}
  /\ act.step \in Before => status[act.inv] \notin {"none", "paid"}
  /\ act.inv \in Invoices /\ act.step \in After => status[act.inv] = "paid"
  /\ act.step \in Before \cup {"spend"} => provider[act.inv] # "expired"

\* PaidIsDelivered, and what the activation in progress has delivered so far: the
\* use of the code is counted one step before its days are given.
Delivered(i) ==
  inv[i].user \in exists => granted[i] > 0 /\ (inv[i].promo => extra[i] > 0)

DeliveredInv ==
  /\ \A i \in Invoices : "paid" \in {status[i], saved[i]} => Delivered(i)
  /\ act.step \in {"use", "extra", "mark"} /\ Buyer \in exists => granted[act.inv] > 0
  /\ act.step = "mark" => Delivered(act.inv)
  /\ Total(extra) + (IF act.step = "extra" THEN 1 ELSE 0) <= uses

\* The plan of an invoice was added once for each "paid" it lost, and once more
\* while it has one or is about to.
GrantsInv ==
  \A i \in Invoices :
    granted[i] <= reopened[i] +
      (IF status[i] = "paid" \/ (act.inv = i /\ act.step \in {"use", "extra", "mark"})
       THEN 1 ELSE 0)

\* Of a buyer none of whose invoices has lost a "paid": a bonus was only given if
\* one is paid, so an activation that found none paid finds no bonus either.
NotReopened(u) == \A i \in Invoices : inv[i].user = u => reopened[i] = 0

BonusInv ==
  \A u \in Users :
    NotReopened(u) =>
      /\ bonuses[u] <= 1
      /\ PaidFor(u) = {} => bonuses[u] = 0
      /\ act.inv \in Invoices /\ Buyer = u /\ act.first => bonuses[u] = 0

\* What was credited is in the ledger, or is what the activation will enter; a
\* crash between the two saves leaves the ledger behind for good.
Owed(u) == IF act.step = "entry" /\ act.payee = u THEN act.sum ELSE 0

LedgerInv ==
  \A u \in Users : /\ ledger[u] + Owed(u) <= earned[u]
                   /\ crashes = 0 => ledger[u] + Owed(u) = earned[u]

\* The credit of a buyer is promised to one thing at a time, an order being
\* created or an open invoice, and the balance covers that promise: nothing else
\* takes from the balance.  An invoice is charged its credit as it is settled.
Pending(i) == act.step = "spend" /\ act.inv = i

Ordering(u, q) == creating[q].user = u /\ creating[q].credit > 0

Open(u, i) ==
  /\ inv[i].user = u /\ inv[i].credit > 0 /\ provider[i] # "expired"
  /\ status[i] # "paid" \/ Pending(i)

OnePromise(u) ==
  /\ \A q, r \in Requests : Ordering(u, q) /\ Ordering(u, r) => q = r
  /\ \A i, j \in Invoices : Open(u, i) /\ Open(u, j) => i = j
  /\ \A q \in Requests, i \in Invoices : ~(Ordering(u, q) /\ Open(u, i))

Covered(u) ==
  /\ \A q \in Requests : Ordering(u, q) => creating[q].credit <= balance[u]
  /\ \A i \in Invoices : Open(u, i) => inv[i].credit <= balance[u]

Charged(u) ==
  \A i \in Invoices : inv[i].user = u =>
    IF status[i] = "paid" /\ ~Pending(i)
    THEN u \in exists => charged[i] = inv[i].credit
    ELSE charged[i] = 0

Single(u) == u \notin doubled /\ crashes = 0 /\ NotReopened(u)

CreditInv == \A u \in Users : Single(u) => OnePromise(u) /\ Covered(u) /\ Charged(u)

IInv ==
  /\ TypeOK /\ InvoicesInv /\ ActInv /\ DeliveredInv
  /\ GrantsInv /\ BonusInv /\ LedgerInv /\ CreditInv

-----------------------------------------------------------------------------
(* Amounts: whatever the percentages, a part of a sum is at most the sum.  *)

LEMMA Part ==
  ASSUME NEW n \in Nat, NEW pct \in 0..100
  PROVE  (n * pct + 50) \div 100 \in 0..n
<1>1. n * pct \in Nat
  OBVIOUS
<1>2. n * (100 - pct) \in Nat /\ n * (100 - pct) = 100 * n - n * pct
  OBVIOUS
<1>3. ASSUME NEW m \in Nat, m <= 100 * n PROVE (m + 50) \div 100 \in 0..n
  BY <1>3
<1> QED
  BY <1>1, <1>2, <1>3

LEMMA Prices ==
  ASSUME NEW p \in BOOLEAN
  PROVE  Discounted(p) \in 0..Price
BY BillingAssumption, Part DEF Discounted

LEMMA Commissions ==
  ASSUME NEW n \in Nat
  PROVE  Commission(n) \in Nat
<1>1. Commission(n) \in 0..n
  BY BillingAssumption, Part DEF Commission
<1> QED
  BY <1>1

LEMMA Credits ==
  ASSUME TypeOK, NEW u \in Users, NEW p \in BOOLEAN, NEW wanted \in BOOLEAN
  PROVE  /\ CreditFor(u, p, wanted) \in 0..Price
         /\ CreditFor(u, p, wanted) <= Discounted(p)
         /\ CreditFor(u, p, wanted) <= balance[u]
<1>1. Discounted(p) \in 0..Price /\ Price \in Nat
  BY Prices, BillingAssumption
<1>2. balance[u] \in Nat
  BY DEF TypeOK
<1> QED
  BY <1>1, <1>2 DEF CreditFor

-----------------------------------------------------------------------------
(* Steps.                                                                  *)

LEMMA InitIs == Init => IInv
<1> SUFFICES ASSUME Init PROVE IInv
  OBVIOUS
<1> USE DEF Init
<1>1. TypeOK
  BY BillingAssumption DEF TypeOK, NoAct
<1>2. InvoicesInv /\ ActInv
  BY BillingAssumption DEF InvoicesInv, ActInv, NoAct, Before, After
<1>3. DeliveredInv
  <2>1. Total(extra) = 0
    BY BillingAssumption, TotalOfNothing
  <2> QED
    BY <2>1 DEF DeliveredInv, NoAct
<1>4. GrantsInv /\ BonusInv /\ LedgerInv
  BY BillingAssumption DEF GrantsInv, BonusInv, LedgerInv, Owed, NoAct
<1>5. CreditInv
  BY DEF CreditInv, OnePromise, Covered, Charged, Ordering, Open, NoOrder, Order, Pending, NoAct
<1> QED
  BY <1>1, <1>2, <1>3, <1>4, <1>5 DEF IInv

\* The orders that a request can make.
LEMMA OrderTypes ==
  ASSUME TypeOK
  PROVE  /\ \A u \in Users, p, wanted \in BOOLEAN, a \in 0..Price :
              Order(u, a, CreditFor(u, p, wanted), p) \in Orders
         /\ NoOrder \notin Orders
         /\ NoOrder.user \notin Users
         /\ NoOrder.amount = 0 /\ NoOrder.credit = 0 /\ NoOrder.promo = FALSE
         /\ \A o \in Orders : /\ o.user \in Users /\ o.amount \in 0..Price
                              /\ o.credit \in 0..Price /\ o.promo \in BOOLEAN
<1>1. \A u \in Users, p, wanted \in BOOLEAN : CreditFor(u, p, wanted) \in 0..Price
  BY Credits
<1> QED
  BY <1>1, BillingAssumption DEF Order, Orders, NoOrder

\* The orders of invoices that exist, or do not.
LEMMA InvTypes ==
  ASSUME TypeOK, NEW i \in Invoices
  PROVE  /\ inv[i].amount \in Nat /\ inv[i].credit \in Nat /\ inv[i].promo \in BOOLEAN
         /\ inv[i].user \in Users \cup {NoUser}
<1>1. inv[i] \in Orders \cup {NoOrder} /\ Price \in Nat
  BY BillingAssumption DEF TypeOK
<1>2. CASE inv[i] \in Orders
  BY <1>1, <1>2, OrderTypes
<1>3. CASE inv[i] = NoOrder
  BY <1>3 DEF NoOrder, Order
<1> QED
  BY <1>1, <1>2, <1>3

Activations ==
  [step : {"idle", "plan", "use", "extra", "mark", "spend", "reward", "entry", "bonus"},
   inv : Invoices \cup {NoInvoice}, first : BOOLEAN,
   payee : Users \cup {NoUser}, sum : Nat]

LEMMA ActTypes ==
  ASSUME TypeOK
  PROVE  /\ act \in Activations /\ NoAct \in Activations
         /\ \A i \in Invoices, u \in Users \cup {NoUser} : Activate(i, u) \in Activations
         /\ \A s \in {"use", "extra", "mark", "spend", "reward", "bonus"} :
              Then(s) => act' \in Activations
         /\ \A u \in Users, n \in Nat :
              /\ [act EXCEPT !.step = "entry", !.payee = u, !.sum = n] \in Activations
              /\ [NoAct EXCEPT !.step = "entry", !.payee = u, !.sum = n] \in Activations
<1>1. act \in Activations /\ NoAct \in Activations
  BY DEF TypeOK, NoAct, Activations
<1>2. \A i \in Invoices, u \in Users \cup {NoUser} : Activate(i, u) \in Activations
  BY DEF Activate, NoAct, Activations
<1>3. ASSUME NEW s \in {"use", "extra", "mark", "spend", "reward", "bonus"}, Then(s)
      PROVE  act' \in Activations
  BY <1>1, <1>3 DEF Then, Activations
<1>4. ASSUME NEW u \in Users, NEW n \in Nat, NEW a \in Activations
      PROVE  [a EXCEPT !.step = "entry", !.payee = u, !.sum = n] \in Activations
  BY DEF Activations
<1> QED
  BY <1>1, <1>2, <1>3, <1>4

LEMMA TypeStep ==
  ASSUME TypeOK, InvoicesInv, ActInv, Next
  PROVE  TypeOK'
<1> USE DEF TypeOK
<1>a. Price \in Nat \ {0} /\ 0 \in 0..Price
  BY BillingAssumption
<1>b. act \in Activations
  BY ActTypes
<1>1. ASSUME NEW q \in Requests, NEW u \in Users, NEW p \in BOOLEAN, NEW wanted \in BOOLEAN,
             CreateCall(q, u, p, wanted)
      PROVE  TypeOK'
  <2> DEFINE credit == CreditFor(u, p, wanted)
             rest == Discounted(p) - credit
             order == Order(u, IF rest = 0 THEN 1 ELSE rest, credit, p)
  <2>1. credit \in 0..Price /\ credit <= Discounted(p) /\ Discounted(p) \in 0..Price
    BY Credits, Prices
  <2>2. (IF rest = 0 THEN 1 ELSE rest) \in 0..Price
    BY <2>1, <1>a
  <2>3. order \in Orders
    BY <2>2, OrderTypes
  <2> HIDE DEF order
  <2>4. creating' = [creating EXCEPT ![q] = order]
    BY <1>1 DEF CreateCall, order
  <2> QED
    BY <1>1, <2>3, <2>4 DEF CreateCall, Promise, userVars, planVars, pollVars
<1>2. ASSUME NEW q \in Requests, NEW i \in Invoices, CreateDone(q, i) PROVE TypeOK'
  BY <1>2 DEF CreateDone, Add, userVars, planVars, pollVars, history
<1>3. ASSUME NEW q \in Requests, CreateFail(q) PROVE TypeOK'
  BY <1>3 DEF CreateFail, userVars, planVars, pollVars, history
<1>4. ASSUME NEW i \in Invoices, NEW u \in Users, NEW p \in BOOLEAN, CreateByCredit(i, u, p)
      PROVE  TypeOK'
  <2> DEFINE order == Order(u, 0, CreditFor(u, p, TRUE), p)
  <2>a. TRUE \in BOOLEAN
    OBVIOUS
  <2>1. order \in Orders
    BY <2>a, <1>a, OrderTypes
  <2> HIDE DEF order
  <2>2. Add(i, order)
    BY <1>4 DEF CreateByCredit, order
  <2>3. act' \in Activations
    BY <1>4, ActTypes DEF CreateByCredit
  <2>4. doubled' \in SUBSET Users
    BY <1>4 DEF CreateByCredit, Promise
  <2> QED
    <3>2. /\ inv' \in [Invoices -> Orders \cup {NoOrder}]
          /\ status' \in [Invoices -> {"none", "active", "expired", "paid"}]
          /\ saved' \in [Invoices -> {"none", "active", "expired", "paid"}]
      BY <2>1, <2>2 DEF Add
    <3>3. UNCHANGED <<exists, referrer, balance, earned, ledger, uses, granted, extra, bonuses,
                      creating, check, answer, provider, crashes, reopened, charged>>
      BY <1>4 DEF CreateByCredit, userVars, planVars, pollVars
    <3> QED
      BY <2>3, <2>4, <3>2, <3>3 DEF Activations
<1>d. ASSUME NEW i \in Invoices, Begin(i) PROVE act' \in Activations
  <2>1. inv[i].user \in Users \cup {NoUser}
    BY InvTypes
  <2>2. Activate(i, inv[i].user) \in Activations
    BY <2>1, ActTypes
  <2> QED
    BY <1>d, <2>2, <1>b DEF Begin
<1>5. ASSUME NEW i \in Invoices, Pay(i) \/ Expire(i) PROVE TypeOK'
  BY <1>5 DEF Pay, Expire, userVars, planVars, pollVars, history
<1>5a. ASSUME NEW i \in Invoices, Webhook(i) PROVE TypeOK'
  <2>1. act' \in Activations
    BY <1>5a, <1>d DEF Webhook
  <2> QED
    BY <1>5a, <2>1 DEF Webhook, userVars, planVars, pollVars, history, Activations
<1>6. ASSUME NEW k \in Pollers, NEW i \in Invoices, CheckCall(k, i) PROVE TypeOK'
  BY <1>6 DEF CheckCall, userVars, planVars, history
<1>7. ASSUME NEW k \in Pollers, CheckAnswer(k) \/ CheckFail(k) PROVE TypeOK'
  BY <1>7 DEF CheckAnswer, CheckFail, Answered, userVars, planVars, history
<1>8. ASSUME NEW k \in Pollers, CheckDone(k) PROVE TypeOK'
  <2>1. check[k] \in Invoices
    BY <1>8 DEF CheckDone, InvoicesInv
  <2>2. act' \in Activations
    BY <1>8, <2>1, <1>b, <1>d DEF CheckDone
  <2>3. status' \in [Invoices -> {"none", "active", "expired", "paid"}]
    BY <1>8 DEF CheckDone
  <2>4. reopened' \in [Invoices -> Nat]
    BY <1>8 DEF CheckDone
  <2> QED
    BY <1>8, <2>2, <2>3, <2>4 DEF CheckDone, Answered, userVars, planVars, Activations
<1>9. ASSUME GrantPlan \/ ApplyUse \/ PromoDays \/ MarkPaid PROVE TypeOK'
  BY <1>9 DEF GrantPlan, ApplyUse, PromoDays, MarkPaid, Then, userVars, planVars, pollVars, history
<1>10. ASSUME SpendCredit PROVE TypeOK'
  <2>1. act.inv \in Invoices
    BY <1>10 DEF SpendCredit, ActInv
  <2>2. inv[act.inv].credit \in Nat
    BY <2>1, InvTypes
  <2> QED
    BY <1>10, <2>1, <2>2 DEF SpendCredit, Affordable, Then, planVars, pollVars
<1>11. ASSUME Reward PROVE TypeOK'
  <2>1. act.inv \in Invoices
    BY <1>11 DEF Reward, ActInv
  <2>2. inv[act.inv].amount \in Nat
    BY <2>1, InvTypes
  <2>3. Commission(inv[act.inv].amount) \in Nat
    BY <2>2, Commissions
  <2> QED
    <3> DEFINE sum == Commission(inv[act.inv].amount)
               payee == IF Buyer \in exists THEN referrer[Buyer] ELSE NoUser
    <3>1. payee \in Users \cup {NoUser}
      OBVIOUS
    <3>2. act' \in Activations
      <4>1. NoAct \in Activations
        BY ActTypes
      <4>2. Then("bonus") => act' \in Activations
        BY ActTypes
      <4>3. payee # NoUser =>
              [act EXCEPT !.step = "entry", !.payee = payee, !.sum = sum] \in Activations
        BY <3>1, <2>3, ActTypes
      <4> QED
        BY <1>11, <4>1, <4>2, <4>3 DEF Reward
    <3>3. balance' \in [Users -> Nat] /\ earned' \in [Users -> Nat]
      BY <1>11, <2>3, <3>1 DEF Reward, Credit
    <3> QED
      BY <1>11, <3>2, <3>3 DEF Reward, planVars, pollVars, history, Activations
<1>12. ASSUME LedgerEntry \/ FirstBonus PROVE TypeOK'
  <2>1. act' \in Activations
    BY <1>12, ActTypes DEF LedgerEntry, FirstBonus
  <2>2. act.sum \in Nat /\ act.first \in BOOLEAN
    OBVIOUS
  <2>3. ledger' \in [Users -> Nat] /\ bonuses' \in [Users -> Nat]
    BY <1>12, <2>2 DEF LedgerEntry, FirstBonus, planVars
  <2> QED
    BY <1>12, <2>1, <2>3
    DEF LedgerEntry, FirstBonus, userVars, planVars, pollVars, history, Activations
<1>13. ASSUME NEW u \in Users, DeleteUser(u) PROVE TypeOK'
  BY <1>13 DEF DeleteUser, planVars, pollVars, history
<1>14. ASSUME NEW u \in Users, NEW sum \in Gifts, Gift(u, sum) PROVE TypeOK'
  <2>1. sum \in Nat
    BY BillingAssumption
  <2> QED
    <3>1. act' \in Activations
      BY <1>14, <2>1, ActTypes DEF Gift
    <3>2. balance' \in [Users -> Nat] /\ earned' \in [Users -> Nat]
      BY <1>14, <2>1 DEF Gift, Credit
    <3> QED
      BY <1>14, <3>1, <3>2 DEF Gift, planVars, pollVars, history, Activations
<1>15. ASSUME Crash PROVE TypeOK'
  BY <1>15 DEF Crash, NoAct, userVars, planVars
<1> QED
  BY <1>1, <1>2, <1>3, <1>4, <1>5, <1>5a, <1>6, <1>7, <1>8, <1>9, <1>10, <1>11, <1>12, <1>13, <1>14,
     <1>15
  DEF Next, Activation, BuyerNext, AdminNext

LEMMA InvoicesStep ==
  ASSUME TypeOK, InvoicesInv, ActInv, Next
  PROVE  InvoicesInv'
<1> USE DEF InvoicesInv, Created
<1>t. /\ inv \in [Invoices -> Orders \cup {NoOrder}]
      /\ status \in [Invoices -> {"none", "active", "expired", "paid"}]
      /\ saved \in [Invoices -> {"none", "active", "expired", "paid"}]
      /\ creating \in [Requests -> Orders \cup {NoOrder}]
      /\ check \in [Pollers -> Invoices \cup {NoInvoice}]
      /\ answer \in [Pollers -> {"none", "active", "expired", "paid"}]
      /\ provider \in [Invoices -> {"none", "active", "expired", "paid"}]
      /\ charged \in [Invoices -> Nat]
      /\ NoInvoice \notin Invoices
  BY BillingAssumption DEF TypeOK
<1>1. ASSUME UNCHANGED <<inv, status, saved, provider, charged, check, answer>>
      PROVE  InvoicesInv'
  BY <1>1
<1>2. ASSUME NEW i \in Invoices, NEW order \in Orders, Add(i, order),
             UNCHANGED <<charged, check, answer>>,
             provider' = provider \/ provider' = [provider EXCEPT ![i] = "active"]
      PROVE  InvoicesInv'
  <2>1. /\ status[i] = "none"
        /\ inv' = [inv EXCEPT ![i] = order]
        /\ status' = [status EXCEPT ![i] = "active"]
        /\ saved' = [status EXCEPT ![i] = "active"]
    BY <1>2 DEF Add
  <2> QED
    BY <1>2, <2>1, <1>t
<1>3. ASSUME NEW q \in Requests, NEW u \in Users, NEW p \in BOOLEAN, NEW wanted \in BOOLEAN,
             CreateCall(q, u, p, wanted)
      PROVE  InvoicesInv'
  BY <1>1, <1>3 DEF CreateCall, pollVars
<1>3a. ASSUME NEW q \in Requests, CreateFail(q) PROVE InvoicesInv'
  BY <1>1, <1>3a DEF CreateFail, pollVars, history
<1>4. ASSUME NEW q \in Requests, NEW i \in Invoices, CreateDone(q, i) PROVE InvoicesInv'
  <2>1. creating[q] \in Orders
    BY <1>4, <1>t DEF CreateDone
  <2>2. /\ Add(i, creating[q])
        /\ UNCHANGED <<charged, check, answer>>
        /\ provider' = [provider EXCEPT ![i] = "active"]
    BY <1>4 DEF CreateDone, pollVars, history
  <2> QED
    BY <1>2, <2>1, <2>2
<1>5. ASSUME NEW i \in Invoices, NEW u \in Users, NEW p \in BOOLEAN, CreateByCredit(i, u, p)
      PROVE  InvoicesInv'
  <2>1. Order(u, 0, CreditFor(u, p, TRUE), p) \in Orders
    <3>1. 0 \in 0..Price /\ TRUE \in BOOLEAN
      BY BillingAssumption
    <3> QED
      BY <3>1, OrderTypes
  <2> QED
    BY <1>2, <1>5, <2>1 DEF CreateByCredit, pollVars
<1>6. ASSUME NEW i \in Invoices, Pay(i) \/ Expire(i) PROVE InvoicesInv'
  BY <1>6, <1>t DEF Pay, Expire, pollVars, history
<1>7. ASSUME NEW i \in Invoices, Webhook(i) PROVE InvoicesInv'
  BY <1>1, <1>7 DEF Webhook, pollVars, history
<1>8. ASSUME NEW k \in Pollers, NEW i \in Invoices, CheckCall(k, i) PROVE InvoicesInv'
  BY <1>8, <1>t DEF CheckCall, history
<1>9. ASSUME NEW k \in Pollers, CheckAnswer(k) \/ CheckFail(k) PROVE InvoicesInv'
  BY <1>9, <1>t DEF CheckAnswer, CheckFail, Answered, history
<1>10. ASSUME NEW k \in Pollers, CheckDone(k) PROVE InvoicesInv'
  <2>1. /\ UNCHANGED <<inv, saved, provider, charged>>
        /\ check' = [check EXCEPT ![k] = NoInvoice]
        /\ answer' = [answer EXCEPT ![k] = "none"]
        /\ check[k] \in Invoices /\ answer[k] # "none" /\ status[check[k]] # "none"
    BY <1>10, <1>t DEF CheckDone, Answered
  <2>3. \/ status' = status
        \/ answer[k] # "paid" /\ status' = [status EXCEPT ![check[k]] = answer[k]]
    BY <1>10 DEF CheckDone
  <2>2. \A j \in Invoices :
          /\ status'[j] = "none" <=> status[j] = "none"
          /\ status'[j] = "paid" => status[j] = "paid"
    BY <2>1, <2>3, <1>t
  <2> QED
    BY <2>1, <2>2, <1>t
<1>11. ASSUME MarkPaid PROVE InvoicesInv'
  <2>1. act.inv \in Invoices /\ status[act.inv] # "none"
    BY <1>11 DEF MarkPaid, ActInv, Before
  <2> QED
    BY <1>11, <2>1, <1>t DEF MarkPaid, pollVars, history
<1>12. ASSUME SpendCredit PROVE InvoicesInv'
  <2>1. act.inv \in Invoices /\ status[act.inv] = "paid"
    BY <1>12 DEF SpendCredit, ActInv, After
  <2>2. \A i \in Invoices : status[i] = "none" => charged'[i] = charged[i]
    BY <1>12, <2>1, <1>t DEF SpendCredit
  <2> QED
    BY <1>12, <2>2 DEF SpendCredit, pollVars
<1>13. ASSUME GrantPlan \/ ApplyUse \/ PromoDays \/ Reward \/ LedgerEntry \/ FirstBonus
       PROVE  InvoicesInv'
  BY <1>1, <1>13
  DEF GrantPlan, ApplyUse, PromoDays, Reward, LedgerEntry, FirstBonus, pollVars, history
<1>14. ASSUME NEW u \in Users, DeleteUser(u) \/ \E sum \in Gifts : Gift(u, sum)
       PROVE  InvoicesInv'
  BY <1>1, <1>14 DEF DeleteUser, Gift, pollVars, history
<1>15. ASSUME Crash PROVE InvoicesInv'
  BY <1>15, <1>t DEF Crash
<1> HIDE DEF InvoicesInv, Created
<1>16. CASE Activation
  BY <1>16, <1>11, <1>12, <1>13 DEF Activation
<1>17. CASE BuyerNext
  BY <1>17, <1>3, <1>3a, <1>4, <1>5, <1>6, <1>7, <1>8, <1>9, <1>10 DEF BuyerNext
<1>18. CASE AdminNext
  BY <1>18, <1>14 DEF AdminNext
<1> QED
  BY <1>15, <1>16, <1>17, <1>18 DEF Next

LEMMA ActStep ==
  ASSUME TypeOK, InvoicesInv, ActInv, Next
  PROVE  ActInv'
<1> USE DEF ActInv, Before, After, Quiet
<1>t. /\ status \in [Invoices -> {"none", "active", "expired", "paid"}]
      /\ provider \in [Invoices -> {"none", "active", "expired", "paid"}]
      /\ act \in Activations /\ act.inv \in Invoices \cup {NoInvoice}
      /\ NoInvoice \notin Invoices
  BY BillingAssumption DEF TypeOK, Activations
<1>1. ASSUME act' = NoAct PROVE ActInv'
  BY <1>1, BillingAssumption DEF NoAct
<1>2. ASSUME Quiet, act' = act PROVE ActInv'
  BY <1>1, <1>2
<1>3. ASSUME NEW i \in Invoices, NEW u, act' = Activate(i, u),
             status'[i] \notin {"none", "paid"}, provider'[i] # "expired"
      PROVE  ActInv'
  <2>1. act'.step = "plan" /\ act'.inv = i
    BY <1>3 DEF Activate, NoAct
  <2> QED
    BY <1>3, <2>1
<1>4. ASSUME Quiet, NEW i \in Invoices, Begin(i), status[i] # "none", provider[i] # "expired",
             UNCHANGED <<status, provider>>
      PROVE  ActInv'
  <2>1. CASE status[i] = "paid"
    BY <1>2, <1>4, <2>1 DEF Begin
  <2>2. CASE status[i] # "paid"
    BY <1>3, <1>4, <2>2 DEF Begin
  <2> QED
    BY <2>1, <2>2
<1>5. ASSUME NEW q \in Requests, NEW u \in Users, NEW p \in BOOLEAN, NEW wanted \in BOOLEAN,
             CreateCall(q, u, p, wanted)
      PROVE  ActInv'
  BY <1>2, <1>5 DEF CreateCall
<1>5a. ASSUME NEW q \in Requests, CreateFail(q) PROVE ActInv'
  BY <1>2, <1>5a DEF CreateFail
<1>6. ASSUME NEW q \in Requests, NEW i \in Invoices, CreateDone(q, i) PROVE ActInv'
  BY <1>2, <1>6 DEF CreateDone
<1>7. ASSUME NEW i \in Invoices, NEW u \in Users, NEW p \in BOOLEAN, CreateByCredit(i, u, p)
      PROVE  ActInv'
  <2>1. act' = Activate(i, u) /\ status'[i] = "active" /\ provider'[i] = provider[i]
        /\ provider[i] = "none"
    BY <1>7, <1>t DEF CreateByCredit, Add, Created, InvoicesInv
  <2> QED
    BY <1>3, <2>1
<1>8. ASSUME NEW i \in Invoices, Pay(i) \/ Expire(i) PROVE ActInv'
  BY <1>2, <1>8 DEF Pay, Expire
<1>9. ASSUME NEW i \in Invoices, Webhook(i) PROVE ActInv'
  BY <1>4, <1>9 DEF Webhook, InvoicesInv
<1>10. ASSUME NEW k \in Pollers, NEW i \in Invoices, CheckCall(k, i) PROVE ActInv'
  BY <1>2, <1>10 DEF CheckCall
<1>11. ASSUME NEW k \in Pollers, CheckAnswer(k) \/ CheckFail(k) PROVE ActInv'
  BY <1>2, <1>11 DEF CheckAnswer, CheckFail
<1>12. ASSUME NEW k \in Pollers, CheckDone(k) PROVE ActInv'
  <2>1. CASE answer[k] = "paid"
    <3>1. check[k] \in Invoices /\ provider[check[k]] = "paid" /\ status[check[k]] # "none"
      BY <2>1 DEF InvoicesInv, Created
    <3> QED
      BY <1>4, <1>12, <2>1, <3>1 DEF CheckDone
  <2>2. CASE answer[k] # "paid"
    BY <1>2, <1>12, <2>2 DEF CheckDone
  <2> QED
    BY <2>1, <2>2
<1>13. ASSUME NEW s \in {"use", "extra", "mark", "spend", "reward", "bonus"}, Then(s)
       PROVE  act'.step = s /\ act'.inv = act.inv
  BY <1>13, <1>t DEF Then, Activations
<1>14. ASSUME GrantPlan \/ ApplyUse \/ PromoDays PROVE ActInv'
  <2>1. /\ act'.step \in {"use", "extra", "mark"} /\ act'.inv = act.inv
        /\ act.step \in Before /\ UNCHANGED <<status, provider>>
    BY <1>13, <1>14 DEF GrantPlan, ApplyUse, PromoDays
  <2> QED
    BY <2>1
<1>15. ASSUME MarkPaid PROVE ActInv'
  <2>1. /\ act'.step = "spend" /\ act'.inv = act.inv /\ act.inv \in Invoices
        /\ UNCHANGED provider /\ provider[act.inv] # "expired"
    BY <1>13, <1>15 DEF MarkPaid
  <2>2. status'[act.inv] = "paid"
    BY <1>15, <1>t, <2>1 DEF MarkPaid
  <2> QED
    BY <2>1, <2>2
<1>16. ASSUME SpendCredit PROVE ActInv'
  <2>1. /\ act'.step = "reward" /\ act'.inv = act.inv
        /\ act.step = "spend" /\ UNCHANGED <<status, provider>>
    BY <1>13, <1>16 DEF SpendCredit
  <2> QED
    BY <2>1
<1>17. ASSUME Reward PROVE ActInv'
  <2>1. CASE act' = NoAct
    BY <1>1, <2>1
  <2>2. CASE act' # NoAct
    <3>1. act'.step \in {"entry", "bonus"} /\ act'.inv = act.inv
      BY <1>17, <2>2, <1>13, <1>t DEF Reward, Activations
    <3>2. act.step = "reward" /\ UNCHANGED <<status, provider>>
      BY <1>17 DEF Reward
    <3> QED
      BY <3>1, <3>2
  <2> QED
    BY <2>1, <2>2
<1>18. ASSUME LedgerEntry PROVE ActInv'
  <2>1. CASE act.inv = NoInvoice
    BY <1>1, <1>18, <2>1 DEF LedgerEntry
  <2>2. CASE act.inv # NoInvoice
    <3>1. act'.step = "bonus" /\ act'.inv = act.inv
      BY <1>13, <1>18, <2>2 DEF LedgerEntry
    <3>2. act.step = "entry" /\ UNCHANGED <<status, provider>>
      BY <1>18 DEF LedgerEntry
    <3> QED
      BY <3>1, <3>2, <2>2, <1>t
  <2> QED
    BY <2>1, <2>2
<1>19. ASSUME FirstBonus \/ Crash PROVE ActInv'
  BY <1>1, <1>19 DEF FirstBonus, Crash
<1>20. ASSUME NEW u \in Users, DeleteUser(u) PROVE ActInv'
  BY <1>2, <1>20 DEF DeleteUser
<1>21. ASSUME NEW u \in Users, NEW sum \in Gifts, Gift(u, sum) PROVE ActInv'
  <2>1. act'.step = "entry" /\ act'.inv = NoInvoice
    BY <1>21 DEF Gift, NoAct
  <2> QED
    BY <2>1, <1>t
<1> HIDE DEF ActInv, Before, After, Quiet
<1>22. CASE Activation
  BY <1>22, <1>14, <1>15, <1>16, <1>17, <1>18, <1>19 DEF Activation
<1>23. CASE BuyerNext
  BY <1>23, <1>5, <1>5a, <1>6, <1>7, <1>8, <1>9, <1>10, <1>11, <1>12 DEF BuyerNext
<1>24. CASE AdminNext
  BY <1>24, <1>20, <1>21 DEF AdminNext
<1> QED
  BY <1>19, <1>22, <1>23, <1>24 DEF Next

LEMMA ThenIs ==
  ASSUME TypeOK, NEW s, Then(s)
  PROVE  /\ act'.step = s /\ act'.inv = act.inv /\ act'.first = act.first
         /\ act'.payee = act.payee /\ act'.sum = act.sum
BY DEF TypeOK, Then

\* Nothing that is delivered is taken back, and a user who is gone does not return.
LEMMA DeliveredStep ==
  ASSUME TypeOK, InvoicesInv, ActInv, DeliveredInv, Next
  PROVE  DeliveredInv'
<1>t. /\ inv \in [Invoices -> Orders \cup {NoOrder}]
      /\ status \in [Invoices -> {"none", "active", "expired", "paid"}]
      /\ saved \in [Invoices -> {"none", "active", "expired", "paid"}]
      /\ granted \in [Invoices -> Nat] /\ extra \in [Invoices -> Nat]
      /\ uses \in Nat /\ act \in Activations
      /\ answer \in [Pollers -> {"none", "active", "expired", "paid"}]
  BY DEF TypeOK, Activations
<1>f. /\ Total(extra) \in Nat
      /\ \A i \in Invoices : Total([extra EXCEPT ![i] = @ + 1]) = Total(extra) + 1
  <2>1. IsFiniteSet(Invoices)
    BY BillingAssumption
  <2>2. ASSUME NEW i \in Invoices
        PROVE  Total(extra) \in Nat /\ Total([extra EXCEPT ![i] = @ + 1]) = Total(extra) + 1
    BY <1>t, <2>1, TotalOfOneMore
  <2>3. CASE Invoices = {}
    <3>1. extra = [x \in Invoices |-> 0]
      BY <1>t, <2>3
    <3>2. Total([x \in Invoices |-> 0]) = 0
      BY <2>1, TotalOfNothing
    <3>3. Total(extra) = 0
      BY <3>1, <3>2
    <3> QED
      BY <3>3, <2>3
  <2> QED
    BY <2>2, <2>3
<1>d. DeliveredInv
  OBVIOUS
<1> USE DEF Delivered, Buyer
<1>1. ASSUME Quiet, UNCHANGED <<granted, extra, uses>>, exists' \subseteq exists,
             act'.step \in {"idle", "plan", "entry"},
             \A i \in Invoices : "paid" \in {status'[i], saved'[i]} =>
                /\ "paid" \in {status[i], saved[i]}
                /\ inv'[i] = inv[i]
      PROVE  DeliveredInv'
  <2>1. Total(extra)' = Total(extra)
    BY <1>1
  <2>2. Total(extra) <= uses
    BY <1>f, <1>1, <1>t DEF DeliveredInv, Quiet
  <2>3. ASSUME NEW i \in Invoices, "paid" \in {status'[i], saved'[i]} PROVE Delivered(i)'
    BY <1>1, <2>3 DEF DeliveredInv
  <2>4. (Total(extra) + (IF act.step = "extra" THEN 1 ELSE 0) <= uses)'
    BY <1>1, <2>1, <2>2, <1>f, <1>t
  <2> QED
    BY <1>1, <2>3, <2>4 DEF DeliveredInv
<1>n. NoAct.step = "idle"
  BY DEF NoAct
<1>b. ASSUME NEW i \in Invoices, Quiet, Begin(i) PROVE act'.step \in {"idle", "plan"}
  BY <1>b DEF Begin, Activate, NoAct, Quiet
<1>2. ASSUME NEW q \in Requests, NEW u \in Users, NEW p \in BOOLEAN, NEW wanted \in BOOLEAN,
             CreateCall(q, u, p, wanted)
      PROVE  DeliveredInv'
  BY <1>1, <1>2 DEF CreateCall, Quiet, userVars, planVars
<1>3. ASSUME NEW q \in Requests, CreateFail(q) PROVE DeliveredInv'
  BY <1>1, <1>3 DEF CreateFail, Quiet, userVars, planVars
<1>4. ASSUME NEW i \in Invoices, NEW order, Add(i, order), NEW j \in Invoices,
             "paid" \in {status'[j], saved'[j]}
      PROVE  "paid" \in {status[j], saved[j]} /\ inv'[j] = inv[j]
  BY <1>4, <1>t DEF Add
<1>5. ASSUME NEW q \in Requests, NEW i \in Invoices, CreateDone(q, i) PROVE DeliveredInv'
  <2>1. /\ Quiet /\ UNCHANGED <<granted, extra, uses, exists, act>>
        /\ Add(i, creating[q])
    BY <1>5 DEF CreateDone, userVars, planVars
  <2> QED
    BY <1>1, <1>4, <2>1 DEF Quiet
<1>6. ASSUME NEW i \in Invoices, NEW u \in Users, NEW p \in BOOLEAN, CreateByCredit(i, u, p)
      PROVE  DeliveredInv'
  <2>1. /\ Quiet /\ UNCHANGED <<granted, extra, uses, exists>>
        /\ Add(i, Order(u, 0, CreditFor(u, p, TRUE), p))
        /\ act'.step = "plan"
    BY <1>6 DEF CreateByCredit, Activate, NoAct, userVars, planVars
  <2> QED
    BY <1>1, <1>4, <2>1
<1>7. ASSUME NEW i \in Invoices, Pay(i) \/ Expire(i) PROVE DeliveredInv'
  BY <1>1, <1>7 DEF Pay, Expire, Quiet, userVars, planVars
<1>8. ASSUME NEW i \in Invoices, Webhook(i) PROVE DeliveredInv'
  BY <1>1, <1>b, <1>8 DEF Webhook, userVars, planVars
<1>9. ASSUME NEW k \in Pollers, NEW i \in Invoices, CheckCall(k, i) PROVE DeliveredInv'
  BY <1>1, <1>9 DEF CheckCall, Quiet, userVars, planVars
<1>10. ASSUME NEW k \in Pollers, CheckAnswer(k) \/ CheckFail(k) PROVE DeliveredInv'
  BY <1>1, <1>10 DEF CheckAnswer, CheckFail, Quiet, userVars, planVars
<1>11. ASSUME NEW k \in Pollers, CheckDone(k) PROVE DeliveredInv'
  <2>1. check[k] \in Invoices
    BY <1>11 DEF CheckDone, InvoicesInv
  <2>2. Quiet /\ UNCHANGED <<granted, extra, uses, exists, inv, saved>>
    BY <1>11 DEF CheckDone, userVars, planVars
  <2>3. act'.step \in {"idle", "plan"}
    BY <1>11, <1>b, <2>1 DEF CheckDone, Quiet
  <2>4. \A i \in Invoices : status'[i] = "paid" => status[i] = "paid"
    BY <1>11, <1>t, <2>1 DEF CheckDone
  <2> QED
    BY <1>1, <2>2, <2>3, <2>4
<1>12. ASSUME NEW u \in Users, DeleteUser(u) PROVE DeliveredInv'
  BY <1>1, <1>12 DEF DeleteUser, Quiet, planVars
<1>13. ASSUME NEW u \in Users, NEW sum \in Gifts, Gift(u, sum) PROVE DeliveredInv'
  BY <1>1, <1>13 DEF Gift, NoAct, planVars
<1>14. ASSUME GrantPlan PROVE DeliveredInv'
  <2>1. /\ act.step = "plan" /\ act.inv \in Invoices
        /\ granted' = [granted EXCEPT ![act.inv] = IF Buyer \in exists THEN @ + 1 ELSE @]
        /\ UNCHANGED <<exists, inv, status, saved, extra, uses>>
    BY <1>14 DEF GrantPlan, ActInv, userVars
  <2>2. act'.inv = act.inv /\ act'.step = IF inv[act.inv].promo THEN "use" ELSE "mark"
    BY <1>14, ThenIs DEF GrantPlan
  <2>3. \A i \in Invoices : granted'[i] \in Nat /\ granted[i] \in Nat /\ granted'[i] >= granted[i]
    BY <2>1, <1>t
  <2>4. Buyer \in exists => granted'[act.inv] > 0
    BY <2>1, <1>t
  <2>5. ASSUME NEW i \in Invoices, Delivered(i) PROVE Delivered(i)'
    BY <2>1, <2>3, <2>5
  <2>6. Total(extra)' = Total(extra)
    BY <2>1
  <2>7. Total(extra) <= uses
    BY <1>f, <1>t, <2>1 DEF DeliveredInv
  <2>8. (Total(extra) + (IF act.step = "extra" THEN 1 ELSE 0) <= uses)'
    BY <2>1, <2>2, <2>6, <2>7, <1>f, <1>t
  <2>9. (act.step = "mark" => Delivered(act.inv))'
    BY <2>1, <2>2, <2>4
  <2>10. \A i \in Invoices : "paid" \in {status'[i], saved'[i]} => Delivered(i)'
    BY <2>1, <2>5 DEF DeliveredInv
  <2>11. act'.step \in {"use", "extra", "mark"} /\ Buyer' \in exists' => granted'[act'.inv] > 0
    BY <2>1, <2>2, <2>4
  <2> QED
    BY <2>8, <2>9, <2>10, <2>11 DEF DeliveredInv
<1>15. ASSUME ApplyUse PROVE DeliveredInv'
  <2>1. /\ act.step = "use" /\ uses' = uses + 1
        /\ UNCHANGED <<exists, inv, status, saved, extra, granted>>
    BY <1>15 DEF ApplyUse, userVars, planVars
  <2>2. act'.inv = act.inv /\ act'.step = "extra"
    BY <1>15, ThenIs DEF ApplyUse
  <2>3. Total(extra)' = Total(extra)
    BY <2>1
  <2>4. (Total(extra) + (IF act.step = "extra" THEN 1 ELSE 0) <= uses)'
    <3>1. Total(extra) <= uses
      BY <1>f, <1>t, <2>1 DEF DeliveredInv
    <3> QED
      BY <2>1, <2>2, <2>3, <3>1, <1>f, <1>t
  <2> QED
    BY <2>1, <2>2, <2>4 DEF DeliveredInv
<1>16. ASSUME PromoDays PROVE DeliveredInv'
  <2>1. /\ act.step = "extra" /\ act.inv \in Invoices
        /\ extra' = [extra EXCEPT ![act.inv] = IF Buyer \in exists THEN @ + 1 ELSE @]
        /\ UNCHANGED <<exists, inv, status, saved, granted, uses>>
    BY <1>16 DEF PromoDays, ActInv, userVars
  <2>2. act'.inv = act.inv /\ act'.step = "mark"
    BY <1>16, ThenIs DEF PromoDays
  <2>3. \A i \in Invoices : extra'[i] \in Nat /\ extra[i] \in Nat /\ extra'[i] >= extra[i]
    BY <2>1, <1>t
  <2>4. Buyer \in exists => extra'[act.inv] > 0
    BY <2>1, <1>t
  <2>5. ASSUME NEW i \in Invoices, Delivered(i) PROVE Delivered(i)'
    BY <2>1, <2>3, <2>5
  <2>6. Total(extra') <= Total(extra) + 1 /\ Total(extra') \in Nat
    <3>1. CASE Buyer \in exists
      <4>1. extra' = [extra EXCEPT ![act.inv] = @ + 1]
        BY <2>1, <3>1
      <4>2. Total([extra EXCEPT ![act.inv] = @ + 1]) = Total(extra) + 1
        BY <1>f, <2>1
      <4> QED
        BY <4>1, <4>2, <1>f
    <3>2. CASE Buyer \notin exists
      <4>1. extra' = extra
        BY <2>1, <3>2, <1>t
      <4> QED
        BY <4>1, <1>f
    <3> QED
      BY <3>1, <3>2
  <2>7. Total(extra) + 1 <= uses
    BY <2>1 DEF DeliveredInv
  <2>8. (Total(extra) + (IF act.step = "extra" THEN 1 ELSE 0) <= uses)'
    BY <2>1, <2>2, <2>6, <2>7, <1>f, <1>t
  <2>9. Buyer \in exists => granted[act.inv] > 0
    BY <2>1 DEF DeliveredInv
  <2>10. \A i \in Invoices : "paid" \in {status'[i], saved'[i]} => Delivered(i)'
    BY <2>1, <2>5 DEF DeliveredInv
  <2> QED
    BY <2>1, <2>2, <2>4, <2>8, <2>9, <2>10 DEF DeliveredInv
<1>17. ASSUME MarkPaid PROVE DeliveredInv'
  <2>1. /\ act.step = "mark" /\ act.inv \in Invoices
        /\ status' = [status EXCEPT ![act.inv] = "paid"]
        /\ saved' = [status EXCEPT ![act.inv] = "paid"]
        /\ UNCHANGED <<exists, inv, granted, extra, uses>>
    BY <1>17 DEF MarkPaid, ActInv, userVars, planVars
  <2>2. act'.inv = act.inv /\ act'.step = "spend"
    BY <1>17, ThenIs DEF MarkPaid
  <2>3. Total(extra)' = Total(extra)
    BY <2>1
  <2>4. (Total(extra) + (IF act.step = "extra" THEN 1 ELSE 0) <= uses)'
    BY <2>1, <2>2, <2>3, <1>f, <1>t DEF DeliveredInv
  <2>5. Delivered(act.inv)
    BY <2>1 DEF DeliveredInv
  <2>6. ASSUME NEW i \in Invoices, "paid" \in {status'[i], saved'[i]} PROVE Delivered(i)'
    <3>1. i = act.inv \/ status[i] = "paid"
      BY <2>1, <2>6, <1>t
    <3>2. Delivered(i)
      BY <3>1, <2>5 DEF DeliveredInv
    <3> QED
      BY <3>2, <2>1
  <2> QED
    BY <2>1, <2>2, <2>4, <2>6 DEF DeliveredInv
<1>18. ASSUME act.step \notin {"use", "extra", "mark"}, act'.step \notin {"use", "extra", "mark"},
              UNCHANGED <<exists, inv, granted, extra, uses, saved>>, status' \in {status, saved}
       PROVE  DeliveredInv'
  <2>1. Total(extra)' = Total(extra)
    BY <1>18
  <2>2. (Total(extra) + (IF act.step = "extra" THEN 1 ELSE 0) <= uses)'
    BY <1>18, <2>1, <1>f, <1>t DEF DeliveredInv
  <2>3. ASSUME NEW i \in Invoices, "paid" \in {status'[i], saved'[i]} PROVE Delivered(i)'
    <3>1. "paid" \in {status[i], saved[i]}
      BY <1>18, <2>3
    <3> QED
      BY <3>1, <1>18 DEF DeliveredInv
  <2> QED
    BY <1>18, <2>2, <2>3 DEF DeliveredInv
<1>19. ASSUME SpendCredit \/ FirstBonus PROVE DeliveredInv'
  <2>1. act'.step \in {"reward", "idle"} /\ act.step \in {"spend", "bonus"}
    BY <1>19, <1>n, ThenIs DEF SpendCredit, FirstBonus
  <2> QED
    BY <1>18, <1>19, <2>1 DEF SpendCredit, FirstBonus, userVars, planVars
<1>20. ASSUME Reward PROVE DeliveredInv'
  <2>1. act'.step \in {"bonus", "idle", "entry"} /\ act.step = "reward"
    BY <1>20, <1>n, <1>t, ThenIs DEF Reward, Activations
  <2> QED
    BY <1>18, <1>20, <2>1 DEF Reward, planVars
<1>21. ASSUME LedgerEntry PROVE DeliveredInv'
  <2>1. act'.step \in {"bonus", "idle"} /\ act.step = "entry"
    BY <1>21, <1>n, ThenIs DEF LedgerEntry
  <2> QED
    BY <1>18, <1>21, <2>1 DEF LedgerEntry, userVars, planVars
<1>22. ASSUME Crash PROVE DeliveredInv'
  <2>1. /\ UNCHANGED <<exists, inv, granted, extra, uses, saved>>
        /\ status' = saved /\ act'.step = "idle"
    BY <1>22, <1>n DEF Crash, userVars, planVars
  <2>2. Total(extra)' = Total(extra)
    BY <2>1
  <2>3. (Total(extra) + (IF act.step = "extra" THEN 1 ELSE 0) <= uses)'
    BY <2>1, <2>2, <1>f, <1>t DEF DeliveredInv
  <2>4. ASSUME NEW i \in Invoices, "paid" \in {status'[i], saved'[i]} PROVE Delivered(i)'
    BY <2>1, <2>4 DEF DeliveredInv
  <2> QED
    BY <2>1, <2>3, <2>4 DEF DeliveredInv
<1>23. CASE Activation
  BY <1>23, <1>14, <1>15, <1>16, <1>17, <1>19, <1>20, <1>21 DEF Activation
<1>24. CASE BuyerNext
  BY <1>24, <1>2, <1>3, <1>5, <1>6, <1>7, <1>8, <1>9, <1>10, <1>11 DEF BuyerNext
<1>25. CASE AdminNext
  BY <1>25, <1>12, <1>13 DEF AdminNext
<1> QED
  BY <1>22, <1>23, <1>24, <1>25 DEF Next

LEMMA GrantsStep ==
  ASSUME TypeOK, InvoicesInv, ActInv, GrantsInv, Next
  PROVE  GrantsInv'
<1> DEFINE Has(i) == status[i] = "paid" \/ (act.inv = i /\ act.step \in {"use", "extra", "mark"})
<1>t. /\ status \in [Invoices -> {"none", "active", "expired", "paid"}]
      /\ granted \in [Invoices -> Nat] /\ reopened \in [Invoices -> Nat]
      /\ act \in Activations
      /\ NoInvoice \notin Invoices
  BY BillingAssumption DEF TypeOK, Activations
<1>g. \A i \in Invoices : granted[i] <= reopened[i] + (IF Has(i) THEN 1 ELSE 0)
  BY DEF GrantsInv
<1>h. ASSUME \A i \in Invoices : granted'[i] <= reopened'[i] + (IF Has(i)' THEN 1 ELSE 0)
      PROVE  GrantsInv'
  BY <1>h DEF GrantsInv
<1> HIDE DEF Has
<1>1. ASSUME UNCHANGED <<granted, reopened>>, \A i \in Invoices : Has(i) => Has(i)'
      PROVE  GrantsInv'
  BY <1>1, <1>g, <1>h, <1>t
<1>2. ASSUME Quiet, UNCHANGED <<granted, reopened>>,
             \A i \in Invoices : status[i] = "paid" => status'[i] = "paid"
      PROVE  GrantsInv'
  BY <1>1, <1>2 DEF Has, Quiet
<1>3. ASSUME UNCHANGED <<granted, reopened, status>>,
             act.step \in {"use", "extra", "mark"} =>
               act'.step \in {"use", "extra", "mark"} /\ act'.inv = act.inv
      PROVE  GrantsInv'
  BY <1>1, <1>3 DEF Has
<1>4. ASSUME NEW q \in Requests, NEW u \in Users, NEW p \in BOOLEAN, NEW wanted \in BOOLEAN,
             CreateCall(q, u, p, wanted)
      PROVE  GrantsInv'
  BY <1>2, <1>4 DEF CreateCall, planVars
<1>5. ASSUME NEW q \in Requests, CreateFail(q) PROVE GrantsInv'
  BY <1>2, <1>5 DEF CreateFail, planVars, history
<1>6. ASSUME NEW i \in Invoices, NEW order, Add(i, order), NEW j \in Invoices, status[j] = "paid"
      PROVE  status'[j] = "paid"
  BY <1>6, <1>t DEF Add, Created
<1>7. ASSUME NEW q \in Requests, NEW i \in Invoices, CreateDone(q, i) PROVE GrantsInv'
  <2>1. Quiet /\ Add(i, creating[q]) /\ UNCHANGED <<granted, reopened>>
    BY <1>7 DEF CreateDone, planVars, history
  <2> QED
    BY <1>2, <1>6, <2>1
<1>8. ASSUME NEW i \in Invoices, NEW u \in Users, NEW p \in BOOLEAN, CreateByCredit(i, u, p)
      PROVE  GrantsInv'
  <2>1. Quiet /\ Add(i, Order(u, 0, CreditFor(u, p, TRUE), p)) /\ UNCHANGED <<granted, reopened>>
    BY <1>8 DEF CreateByCredit, planVars
  <2> QED
    BY <1>2, <1>6, <2>1
<1>9. ASSUME NEW i \in Invoices, Pay(i) \/ Expire(i) \/ Webhook(i) PROVE GrantsInv'
  BY <1>2, <1>9 DEF Pay, Expire, Webhook, planVars, history
<1>10. ASSUME NEW k \in Pollers, NEW i \in Invoices, CheckCall(k, i) PROVE GrantsInv'
  BY <1>2, <1>10 DEF CheckCall, planVars, history
<1>11. ASSUME NEW k \in Pollers, CheckAnswer(k) \/ CheckFail(k) PROVE GrantsInv'
  BY <1>2, <1>11 DEF CheckAnswer, CheckFail, planVars, history
\* The late answer: what the status lost is what reopened counts.
<1>12. ASSUME NEW k \in Pollers, CheckDone(k) PROVE GrantsInv'
  <2>1. CASE answer[k] = "paid"
    BY <1>2, <1>12, <2>1 DEF CheckDone, planVars
  <2>2. CASE answer[k] # "paid"
    <3>1. /\ check[k] \in Invoices
          /\ status' = [status EXCEPT ![check[k]] = answer[k]]
          /\ reopened' = [reopened EXCEPT ![check[k]] =
               IF status[check[k]] = "paid" THEN @ + 1 ELSE @]
          /\ granted' = granted /\ Quiet
      BY <1>12, <2>2 DEF CheckDone, InvoicesInv, planVars
    <3> SUFFICES ASSUME NEW i \in Invoices
                 PROVE  granted'[i] <= reopened'[i] + (IF Has(i)' THEN 1 ELSE 0)
      BY <1>h
    <3>2. CASE i = check[k]
      <4>1. granted[i] <= reopened[i] + (IF status[i] = "paid" THEN 1 ELSE 0)
        BY <1>g, <3>1 DEF Has, Quiet
      <4>2. granted'[i] <= reopened'[i]
        BY <4>1, <3>1, <3>2, <1>t
      <4>3. granted'[i] \in Nat /\ reopened'[i] \in Nat
        BY <3>1, <1>t
      <4> QED
        BY <4>2, <4>3
    <3>3. CASE i # check[k]
      <4>1. Has(i) => Has(i)'
        BY <3>1, <3>3, <1>t DEF Has, Quiet
      <4>2. granted'[i] = granted[i] /\ reopened'[i] = reopened[i]
        BY <3>1, <3>3, <1>t
      <4> QED
        BY <4>1, <4>2, <1>g, <1>t
    <3> QED
      BY <3>2, <3>3
  <2> QED
    BY <2>1, <2>2
<1>13. ASSUME NEW u \in Users, DeleteUser(u) \/ \E sum \in Gifts : Gift(u, sum)
       PROVE  GrantsInv'
  BY <1>2, <1>13 DEF DeleteUser, Gift, planVars, history
\* The plan is added to an invoice that is not paid, and so was added no oftener
\* than it lost a "paid".
<1>14. ASSUME GrantPlan PROVE GrantsInv'
  <2>1. /\ act.step = "plan" /\ act.inv \in Invoices /\ status[act.inv] # "paid"
        /\ granted' = [granted EXCEPT ![act.inv] = IF Buyer \in exists THEN @ + 1 ELSE @]
        /\ UNCHANGED <<status, reopened>>
    BY <1>14 DEF GrantPlan, ActInv, Before, history
  <2>2. act'.inv = act.inv /\ act'.step \in {"use", "mark"}
    BY <1>14, ThenIs DEF GrantPlan
  <2> SUFFICES ASSUME NEW i \in Invoices
               PROVE  granted'[i] <= reopened'[i] + (IF Has(i)' THEN 1 ELSE 0)
    BY <1>h
  <2>3. CASE i = act.inv
    <3>1. granted[i] <= reopened[i] /\ Has(i)'
      BY <2>1, <2>2, <2>3, <1>g, <1>t DEF Has
    <3>2. granted'[i] <= granted[i] + 1
      BY <2>1, <2>3, <1>t
    <3>3. granted'[i] \in Nat /\ reopened'[i] = reopened[i]
      BY <2>1, <1>t
    <3> QED
      BY <3>1, <3>2, <3>3, <1>t
  <2>4. CASE i # act.inv
    <3>1. Has(i) => Has(i)'
      BY <2>1, <2>2, <2>4 DEF Has
    <3>2. granted'[i] = granted[i] /\ reopened'[i] = reopened[i]
      BY <2>1, <2>4, <1>t
    <3> QED
      BY <3>1, <3>2, <1>g, <1>t
  <2> QED
    BY <2>3, <2>4
<1>15. ASSUME ApplyUse \/ PromoDays PROVE GrantsInv'
  <2>1. act'.step \in {"extra", "mark"} /\ act'.inv = act.inv
    BY <1>15, ThenIs DEF ApplyUse, PromoDays
  <2> QED
    BY <1>3, <1>15, <2>1 DEF ApplyUse, PromoDays, planVars, history
<1>16. ASSUME MarkPaid PROVE GrantsInv'
  <2>1. /\ UNCHANGED <<granted, reopened>>
        /\ status' = [status EXCEPT ![act.inv] = "paid"]
    BY <1>16 DEF MarkPaid, planVars, history
  <2> QED
    BY <1>1, <2>1, <1>t DEF Has
<1>17. ASSUME SpendCredit \/ Reward \/ LedgerEntry \/ FirstBonus PROVE GrantsInv'
  BY <1>3, <1>17 DEF SpendCredit, Reward, LedgerEntry, FirstBonus, planVars, history
\* A crash in an activation loses a "paid" that was about to be saved.
<1>18. ASSUME Crash PROVE GrantsInv'
  <2>1. /\ granted' = granted /\ status' = saved
        /\ reopened' = [i \in Invoices |->
             IF i = act.inv /\ act.step \in {"use", "extra", "mark"}
             THEN reopened[i] + 1 ELSE reopened[i]]
    BY <1>18 DEF Crash, planVars
  <2> SUFFICES ASSUME NEW i \in Invoices
               PROVE  granted'[i] <= reopened'[i] + (IF Has(i)' THEN 1 ELSE 0)
    BY <1>h
  <2>2. CASE i = act.inv /\ act.step \in {"use", "extra", "mark"}
    <3>1. reopened'[i] = reopened[i] + 1 /\ granted'[i] = granted[i]
      BY <2>1, <2>2
    <3> QED
      BY <3>1, <1>g, <1>t
  <2>3. CASE ~(i = act.inv /\ act.step \in {"use", "extra", "mark"})
    <3>1. reopened'[i] = reopened[i] /\ granted'[i] = granted[i]
      BY <2>1, <2>3
    <3>2. Has(i) => Has(i)'
      BY <2>1, <2>3 DEF Has, InvoicesInv
    <3> QED
      BY <3>1, <3>2, <1>g, <1>t
  <2> QED
    BY <2>2, <2>3
<1>19. CASE Activation
  BY <1>19, <1>14, <1>15, <1>16, <1>17 DEF Activation
<1>20. CASE BuyerNext
  BY <1>20, <1>4, <1>5, <1>7, <1>8, <1>9, <1>10, <1>11, <1>12 DEF BuyerNext
<1>21. CASE AdminNext
  BY <1>21, <1>13 DEF AdminNext
<1> QED
  BY <1>18, <1>19, <1>20, <1>21 DEF Next

\* What no step takes back: the order of an invoice, a "paid" unless reopened
\* counts it, and what the properties remember.
Lasting ==
  /\ \A i \in Invoices :
       /\ inv'[i] = inv[i] \/ inv[i] = NoOrder
       /\ reopened'[i] >= reopened[i]
       /\ status[i] = "paid" /\ reopened'[i] = reopened[i] => status'[i] = "paid"
  /\ exists' \subseteq exists
  /\ doubled \subseteq doubled'
  /\ crashes' >= crashes

LEMMA LastingStep ==
  ASSUME TypeOK, InvoicesInv, Next
  PROVE  Lasting
<1>t. /\ inv \in [Invoices -> Orders \cup {NoOrder}]
      /\ status \in [Invoices -> {"none", "active", "expired", "paid"}]
      /\ reopened \in [Invoices -> Nat]
      /\ crashes \in Nat
      /\ answer \in [Pollers -> {"none", "active", "expired", "paid"}]
  BY DEF TypeOK
<1>1. ASSUME UNCHANGED <<inv, reopened, crashes>>,
             exists' \subseteq exists, doubled \subseteq doubled',
             \A i \in Invoices : status[i] = "paid" => status'[i] = "paid"
      PROVE  Lasting
  BY <1>1, <1>t DEF Lasting
<1>2. ASSUME NEW i \in Invoices, NEW order, Add(i, order),
             UNCHANGED <<reopened, crashes, exists>>, doubled \subseteq doubled'
      PROVE  Lasting
  BY <1>2, <1>t DEF Lasting, Add, Created, InvoicesInv
<1>3. ASSUME NEW u, NEW credit, Promise(u, credit) PROVE doubled \subseteq doubled'
  BY <1>3 DEF Promise
<1>4. ASSUME NEW q \in Requests, NEW u \in Users, NEW p \in BOOLEAN, NEW wanted \in BOOLEAN,
             CreateCall(q, u, p, wanted)
      PROVE  Lasting
  BY <1>1, <1>3, <1>4 DEF CreateCall, userVars
<1>5. ASSUME NEW q \in Requests, CreateFail(q) PROVE Lasting
  BY <1>1, <1>5 DEF CreateFail, userVars, history
<1>6. ASSUME NEW q \in Requests, NEW i \in Invoices, CreateDone(q, i) PROVE Lasting
  BY <1>2, <1>6 DEF CreateDone, userVars, history
<1>7. ASSUME NEW i \in Invoices, NEW u \in Users, NEW p \in BOOLEAN, CreateByCredit(i, u, p)
      PROVE  Lasting
  BY <1>2, <1>3, <1>7 DEF CreateByCredit, userVars
<1>8. ASSUME NEW i \in Invoices, Pay(i) \/ Expire(i) \/ Webhook(i) PROVE Lasting
  BY <1>1, <1>8 DEF Pay, Expire, Webhook, userVars, history
<1>9. ASSUME NEW k \in Pollers, NEW i \in Invoices, CheckCall(k, i) PROVE Lasting
  BY <1>1, <1>9 DEF CheckCall, userVars, history
<1>10. ASSUME NEW k \in Pollers, CheckAnswer(k) \/ CheckFail(k) PROVE Lasting
  BY <1>1, <1>10 DEF CheckAnswer, CheckFail, userVars, history
<1>11. ASSUME NEW k \in Pollers, CheckDone(k) PROVE Lasting
  <2>1. CASE answer[k] = "paid"
    BY <1>1, <1>11, <2>1 DEF CheckDone, userVars
  <2>2. CASE answer[k] # "paid"
    <3>1. /\ check[k] \in Invoices
          /\ status' = [status EXCEPT ![check[k]] = answer[k]]
          /\ reopened' = [reopened EXCEPT ![check[k]] =
               IF status[check[k]] = "paid" THEN @ + 1 ELSE @]
          /\ UNCHANGED <<inv, exists, doubled, crashes>>
      BY <1>11, <2>2 DEF CheckDone, InvoicesInv, userVars
    <3> QED
      BY <3>1, <1>t DEF Lasting
  <2> QED
    BY <2>1, <2>2
<1>12. ASSUME NEW u \in Users, DeleteUser(u) \/ \E sum \in Gifts : Gift(u, sum) PROVE Lasting
  BY <1>1, <1>12 DEF DeleteUser, Gift, history
<1>13. ASSUME GrantPlan \/ ApplyUse \/ PromoDays PROVE Lasting
  BY <1>1, <1>13 DEF GrantPlan, ApplyUse, PromoDays, userVars, history
<1>14. ASSUME MarkPaid PROVE Lasting
  BY <1>1, <1>14, <1>t DEF MarkPaid, userVars, history
<1>15. ASSUME SpendCredit \/ Reward \/ LedgerEntry \/ FirstBonus PROVE Lasting
  BY <1>1, <1>15 DEF SpendCredit, Reward, LedgerEntry, FirstBonus, userVars, history
<1>16. ASSUME Crash PROVE Lasting
  <2>1. /\ UNCHANGED <<inv, exists, doubled>> /\ crashes' = crashes + 1 /\ status' = saved
        /\ reopened' = [i \in Invoices |->
             IF i = act.inv /\ act.step \in {"use", "extra", "mark"}
             THEN reopened[i] + 1 ELSE reopened[i]]
    BY <1>16 DEF Crash, userVars
  <2> QED
    BY <2>1, <1>t DEF Lasting, InvoicesInv
<1>17. CASE Activation
  BY <1>17, <1>13, <1>14, <1>15 DEF Activation
<1>18. CASE BuyerNext
  BY <1>18, <1>4, <1>5, <1>6, <1>7, <1>8, <1>9, <1>10, <1>11 DEF BuyerNext
<1>19. CASE AdminNext
  BY <1>19, <1>12 DEF AdminNext
<1> QED
  BY <1>16, <1>17, <1>18, <1>19 DEF Next

\* So a buyer whose invoices kept their "paid" until after a step had kept them before it.
LEMMA StillKept ==
  ASSUME TypeOK, InvoicesInv, Lasting, NEW u \in Users, NotReopened(u)'
  PROVE  /\ NotReopened(u)
         /\ \A i \in Invoices : inv[i].user = u =>
              /\ inv'[i] = inv[i] /\ reopened'[i] = reopened[i]
              /\ status[i] = "paid" => status'[i] = "paid"
         /\ PaidFor(u)' = {} => PaidFor(u) = {}
<1>1. NoOrder.user # u
  BY BillingAssumption DEF NoOrder, Order
<1>2. ASSUME NEW i \in Invoices, inv[i].user = u
      PROVE  /\ inv'[i] = inv[i] /\ reopened[i] = 0 /\ reopened'[i] = 0
             /\ status[i] = "paid" => status'[i] = "paid"
  <2>1. inv'[i] = inv[i]
    BY <1>1, <1>2 DEF Lasting
  <2>2. reopened'[i] = 0
    BY <2>1, <1>2 DEF NotReopened
  <2>3. reopened[i] = 0
    BY <2>2 DEF Lasting, TypeOK
  <2> QED
    BY <2>1, <2>2, <2>3 DEF Lasting
<1> QED
  BY <1>2 DEF NotReopened, PaidFor

\* An activation is the buyer's first if it found none of their invoices paid.
LEMMA FirstIs ==
  ASSUME TypeOK, InvoicesInv, ActInv, Next,
         act'.inv \in Invoices, act'.first
  PROVE  \/ act'.inv = act.inv /\ act.first
         \/ PaidFor(inv'[act'.inv].user) = {}
<1> DEFINE G == \/ act'.inv = act.inv /\ act.first
                \/ PaidFor(inv'[act'.inv].user) = {}
<1> SUFFICES G
  OBVIOUS
<1>n. NoInvoice \notin Invoices /\ NoAct.inv = NoInvoice
  BY BillingAssumption DEF NoAct
<1>1. ASSUME act' = act PROVE G
  BY <1>1
<1>2. ASSUME act' = NoAct \/ act'.inv = NoInvoice PROVE G
  BY <1>2, <1>n
<1>3. ASSUME NEW s, Then(s) PROVE G
  BY <1>3, ThenIs
<1>4. ASSUME NEW i \in Invoices, NEW u, act' = Activate(i, u), inv'[i].user = u PROVE G
  BY <1>4 DEF Activate, NoAct
<1>5. ASSUME NEW i \in Invoices, Begin(i), inv' = inv PROVE G
  BY <1>1, <1>4, <1>5 DEF Begin
<1> HIDE DEF G
<1>6. CASE Activation
  <2>1. CASE GrantPlan \/ ApplyUse \/ PromoDays \/ MarkPaid \/ SpendCredit
    BY <1>3, <2>1 DEF GrantPlan, ApplyUse, PromoDays, MarkPaid, SpendCredit
  <2>2. CASE Reward
    <3>1. CASE act' = NoAct \/ Then("bonus")
      BY <1>2, <1>3, <3>1
    <3>2. CASE ~(act' = NoAct \/ Then("bonus"))
      <4>1. act'.inv = act.inv /\ act'.first = act.first
        BY <2>2, <3>2 DEF Reward, TypeOK
      <4> QED
        BY <4>1 DEF G
    <3> QED
      BY <3>1, <3>2
  <2>3. CASE LedgerEntry
    BY <1>2, <1>3, <2>3 DEF LedgerEntry
  <2>4. CASE FirstBonus
    BY <1>2, <2>4 DEF FirstBonus
  <2> QED
    BY <1>6, <2>1, <2>2, <2>3, <2>4 DEF Activation
<1>7. ASSUME NEW q \in Requests, NEW u \in Users, NEW p \in BOOLEAN, NEW wanted \in BOOLEAN,
             CreateCall(q, u, p, wanted)
      PROVE  G
  BY <1>1, <1>7 DEF CreateCall
<1>8. ASSUME NEW q \in Requests, CreateFail(q) \/ \E i \in Invoices : CreateDone(q, i) PROVE G
  BY <1>1, <1>8 DEF CreateFail, CreateDone
<1>9. ASSUME NEW i \in Invoices, NEW u \in Users, NEW p \in BOOLEAN, CreateByCredit(i, u, p)
      PROVE  G
  <2>1. act' = Activate(i, u) /\ inv'[i].user = u
    BY <1>9 DEF CreateByCredit, Add, TypeOK, Order
  <2> QED
    BY <1>4, <2>1
<1>10. ASSUME NEW i \in Invoices, Pay(i) \/ Expire(i) \/ Webhook(i) PROVE G
  BY <1>1, <1>5, <1>10 DEF Pay, Expire, Webhook
<1>11. ASSUME NEW k \in Pollers,
              CheckAnswer(k) \/ CheckFail(k) \/ \E i \in Invoices : CheckCall(k, i)
       PROVE  G
  BY <1>1, <1>11 DEF CheckAnswer, CheckFail, CheckCall
<1>12. ASSUME NEW k \in Pollers, CheckDone(k) PROVE G
  <2>1. check[k] \in Invoices /\ inv' = inv /\ (Begin(check[k]) \/ act' = act)
    BY <1>12 DEF CheckDone, InvoicesInv
  <2> QED
    BY <1>1, <1>5, <2>1
<1>13. ASSUME NEW u \in Users, DeleteUser(u) \/ \E sum \in Gifts : Gift(u, sum) PROVE G
  <2>1. act' = act \/ act'.inv = NoInvoice
    BY <1>13 DEF DeleteUser, Gift, NoAct
  <2> QED
    BY <1>1, <1>2, <2>1
<1>14. CASE Crash
  BY <1>2, <1>14 DEF Crash
<1>15. CASE BuyerNext
  BY <1>15, <1>7, <1>8, <1>9, <1>10, <1>11, <1>12 DEF BuyerNext
<1>16. CASE AdminNext
  BY <1>16, <1>13 DEF AdminNext
<1> QED
  BY <1>6, <1>14, <1>15, <1>16 DEF Next

LEMMA BonusStep ==
  ASSUME TypeOK, InvoicesInv, ActInv, BonusInv, Next
  PROVE  BonusInv'
<1> SUFFICES ASSUME NEW u \in Users, NotReopened(u)'
             PROVE  /\ bonuses'[u] <= 1
                    /\ PaidFor(u)' = {} => bonuses'[u] = 0
                    /\ act'.inv \in Invoices /\ Buyer' = u /\ act'.first => bonuses'[u] = 0
  BY DEF BonusInv
<1>1. /\ NotReopened(u)
      /\ PaidFor(u)' = {} => PaidFor(u) = {}
  BY LastingStep, StillKept
<1>2. /\ bonuses[u] <= 1
      /\ PaidFor(u) = {} => bonuses[u] = 0
      /\ act.inv \in Invoices /\ Buyer = u /\ act.first => bonuses[u] = 0
  BY <1>1 DEF BonusInv
<1>3. ASSUME bonuses' = bonuses PROVE
        /\ bonuses'[u] <= 1
        /\ PaidFor(u)' = {} => bonuses'[u] = 0
        /\ act'.inv \in Invoices /\ Buyer' = u /\ act'.first => bonuses'[u] = 0
  <2>1. ASSUME act'.inv \in Invoices, Buyer' = u, act'.first PROVE bonuses[u] = 0
    <3>1. CASE PaidFor(inv'[act'.inv].user) = {}
      BY <1>2, <2>1, <3>1 DEF Buyer
    <3>2. CASE act'.inv = act.inv /\ act.first
      <4>1. act.inv \in Invoices /\ status[act.inv] # "none"
        BY <2>1, <3>2, BillingAssumption DEF ActInv, Before, After, TypeOK, NoAct
      <4>2. inv[act.inv] # NoOrder
        BY <4>1, OrderTypes DEF InvoicesInv
      <4>3. inv'[act.inv] = inv[act.inv]
        BY <4>1, <4>2, LastingStep DEF Lasting
      <4> QED
        BY <1>2, <2>1, <3>2, <4>1, <4>3 DEF Buyer
    <3> QED
      BY <2>1, <3>1, <3>2, FirstIs
  <2> QED
    BY <1>1, <1>2, <1>3, <2>1
<1>4. CASE FirstBonus
  <2>1. /\ act.step = "bonus" /\ act.inv \in Invoices /\ status[act.inv] = "paid"
        /\ bonuses' = [bonuses EXCEPT ![Buyer] = IF act.first THEN @ + 1 ELSE @]
        /\ act' = NoAct /\ UNCHANGED <<inv, status>>
    BY <1>4 DEF FirstBonus, ActInv, After
  <2>2. act'.inv \notin Invoices
    BY <2>1, BillingAssumption DEF NoAct
  <2>3. CASE Buyer = u
    <3>1. PaidFor(u)' # {}
      BY <2>1, <2>3 DEF PaidFor, Buyer
    <3>2. bonuses'[u] = IF act.first THEN bonuses[u] + 1 ELSE bonuses[u]
      BY <2>1, <2>3 DEF TypeOK
    <3>3. bonuses'[u] <= 1
      BY <3>2, <1>2, <2>1, <2>3
    <3> QED
      BY <2>2, <3>1, <3>3
  <2>4. CASE Buyer # u
    <3>1. bonuses'[u] = bonuses[u]
      BY <2>1, <2>4 DEF TypeOK
    <3> QED
      BY <1>1, <1>2, <2>2, <3>1
  <2> QED
    BY <2>3, <2>4
<1>5. FirstBonus \/ bonuses' = bonuses
  BY DEF Next, Activation, BuyerNext, AdminNext, CreateCall, CreateDone, CreateFail, CreateByCredit,
     Pay, Expire, Webhook, CheckCall, CheckAnswer, CheckDone, CheckFail, DeleteUser, Gift, GrantPlan,
     ApplyUse, PromoDays, MarkPaid, SpendCredit, Reward, LedgerEntry, Crash, planVars
<1> QED
  BY <1>3, <1>4, <1>5

LEMMA LedgerStep ==
  ASSUME TypeOK, InvoicesInv, ActInv, LedgerInv, Next
  PROVE  LedgerInv'
<1>t. /\ earned \in [Users -> Nat] /\ ledger \in [Users -> Nat] /\ crashes \in Nat
      /\ act \in Activations /\ NoUser \notin Users
  BY BillingAssumption DEF TypeOK, Activations
<1>n. NoAct.step = "idle"
  BY DEF NoAct
<1>1. ASSUME UNCHANGED <<earned, ledger, crashes>>, act.step # "entry", act'.step # "entry"
      PROVE  LedgerInv'
  BY <1>1, <1>t DEF LedgerInv, Owed
<1>2. ASSUME UNCHANGED <<earned, ledger, crashes, act>> PROVE LedgerInv'
  BY <1>2 DEF LedgerInv, Owed
\* A credit, and the entry that is owed for it.
<1>3. ASSUME NEW u \in Users, NEW n \in Nat, UNCHANGED <<ledger, crashes>>,
             earned' = [earned EXCEPT ![u] = @ + n], act.step # "entry",
             act'.step = "entry", act'.payee = u, act'.sum = n
      PROVE  LedgerInv'
  <2> SUFFICES ASSUME NEW v \in Users
               PROVE  /\ ledger'[v] + Owed(v)' <= earned'[v]
                      /\ crashes' = 0 => ledger'[v] + Owed(v)' = earned'[v]
    BY DEF LedgerInv
  <2>1. ledger[v] <= earned[v] /\ (crashes = 0 => ledger[v] = earned[v])
    BY <1>3, <1>t DEF LedgerInv, Owed
  <2>2. CASE v = u
    BY <1>3, <1>t, <2>1, <2>2 DEF Owed
  <2>3. CASE v # u
    BY <1>3, <1>t, <2>1, <2>3 DEF Owed
  <2> QED
    BY <2>2, <2>3
<1>b. ASSUME NEW i \in Invoices, Quiet, Begin(i) PROVE act'.step \in {"idle", "plan"}
  BY <1>b DEF Begin, Activate, NoAct, Quiet
<1>4. ASSUME NEW q \in Requests, NEW u \in Users, NEW p \in BOOLEAN, NEW wanted \in BOOLEAN,
             CreateCall(q, u, p, wanted)
      PROVE  LedgerInv'
  BY <1>2, <1>4 DEF CreateCall, userVars
<1>5. ASSUME NEW q \in Requests, CreateFail(q) \/ \E i \in Invoices : CreateDone(q, i)
      PROVE  LedgerInv'
  BY <1>2, <1>5 DEF CreateFail, CreateDone, userVars
<1>6. ASSUME NEW i \in Invoices, NEW u \in Users, NEW p \in BOOLEAN, CreateByCredit(i, u, p)
      PROVE  LedgerInv'
  <2>1. act.step = "idle" /\ act'.step = "plan"
    BY <1>6 DEF CreateByCredit, Quiet, Activate, NoAct
  <2> QED
    BY <1>1, <1>6, <2>1 DEF CreateByCredit, userVars
<1>7. ASSUME NEW i \in Invoices, Pay(i) \/ Expire(i) PROVE LedgerInv'
  BY <1>2, <1>7 DEF Pay, Expire, userVars
<1>8. ASSUME NEW i \in Invoices, Webhook(i) PROVE LedgerInv'
  BY <1>1, <1>b, <1>8 DEF Webhook, Quiet, userVars
<1>9. ASSUME NEW k \in Pollers,
             CheckAnswer(k) \/ CheckFail(k) \/ \E i \in Invoices : CheckCall(k, i)
      PROVE  LedgerInv'
  BY <1>2, <1>9 DEF CheckAnswer, CheckFail, CheckCall, userVars
<1>10. ASSUME NEW k \in Pollers, CheckDone(k) PROVE LedgerInv'
  <2>1. Quiet /\ UNCHANGED <<earned, ledger, crashes>> /\ check[k] \in Invoices
    BY <1>10 DEF CheckDone, InvoicesInv, userVars
  <2>2. Begin(check[k]) \/ act' = act
    BY <1>10 DEF CheckDone
  <2> QED
    BY <1>1, <1>2, <1>b, <2>1, <2>2 DEF Quiet
<1>11. ASSUME NEW u \in Users, DeleteUser(u) PROVE LedgerInv'
  BY <1>2, <1>11 DEF DeleteUser
<1>12. ASSUME NEW u \in Users, NEW sum \in Gifts, Gift(u, sum) PROVE LedgerInv'
  <2>1. sum \in Nat
    BY BillingAssumption
  <2>2. act'.step = "entry" /\ act'.payee = u /\ act'.sum = sum
    BY <1>12 DEF Gift, NoAct
  <2> QED
    BY <1>3, <1>12, <2>1, <2>2 DEF Gift, Credit, Quiet
<1>13. ASSUME GrantPlan \/ ApplyUse \/ PromoDays \/ MarkPaid \/ SpendCredit \/ FirstBonus
       PROVE  LedgerInv'
  <2>1. act.step # "entry" /\ act'.step # "entry"
    BY <1>13, <1>n, ThenIs
    DEF GrantPlan, ApplyUse, PromoDays, MarkPaid, SpendCredit, FirstBonus
  <2> QED
    BY <1>1, <1>13, <2>1
    DEF GrantPlan, ApplyUse, PromoDays, MarkPaid, SpendCredit, FirstBonus, userVars
<1>14. ASSUME Reward PROVE LedgerInv'
  <2> DEFINE sum == Commission(inv[act.inv].amount)
             payee == IF Buyer \in exists THEN referrer[Buyer] ELSE NoUser
  <2>1. sum \in Nat /\ payee \in Users \cup {NoUser}
    <3>1. act.inv \in Invoices
      BY <1>14 DEF Reward, ActInv
    <3>2. inv[act.inv].amount \in Nat
      BY <3>1, InvTypes
    <3> QED
      BY <3>2, Commissions DEF TypeOK
  <2>2. /\ act.step = "reward" /\ UNCHANGED <<ledger, crashes>>
        /\ \/ act' = NoAct /\ UNCHANGED earned
           \/ Then("bonus") /\ UNCHANGED earned
           \/ /\ act' = [act EXCEPT !.step = "entry", !.payee = payee, !.sum = sum]
              /\ payee # NoUser
              /\ Credit(payee, sum)
    BY <1>14 DEF Reward
  <2> HIDE DEF sum, payee
  <2>3. CASE act' = NoAct /\ UNCHANGED earned
    BY <1>1, <1>n, <2>2, <2>3
  <2>4. CASE Then("bonus") /\ UNCHANGED earned
    BY <1>1, <2>2, <2>4, ThenIs
  <2>5. CASE /\ act' = [act EXCEPT !.step = "entry", !.payee = payee, !.sum = sum]
             /\ payee # NoUser
             /\ Credit(payee, sum)
    <3>1. act'.step = "entry" /\ act'.payee = payee /\ act'.sum = sum
      BY <2>5, <1>t DEF Activations
    <3> QED
      BY <1>3, <2>1, <2>2, <2>5, <3>1 DEF Credit
  <2> QED
    BY <2>2, <2>3, <2>4, <2>5
<1>15. ASSUME LedgerEntry PROVE LedgerInv'
  <2>1. /\ act.step = "entry" /\ UNCHANGED <<earned, crashes>>
        /\ ledger' = [ledger EXCEPT ![act.payee] = @ + act.sum]
    BY <1>15 DEF LedgerEntry, userVars
  <2>2. act'.step # "entry"
    BY <1>15, <1>n, ThenIs DEF LedgerEntry
  <2>3. act.sum \in Nat
    BY <1>t DEF Activations
  <2> QED
    BY <2>1, <2>2, <2>3, <1>t DEF LedgerInv, Owed
\* What was owed when the process died is never entered.
<1>16. ASSUME Crash PROVE LedgerInv'
  <2>1. /\ UNCHANGED <<earned, ledger>> /\ crashes' = crashes + 1 /\ act'.step = "idle"
    BY <1>16, <1>n DEF Crash, userVars
  <2>2. \A u \in Users : ledger[u] <= earned[u]
    <3> SUFFICES ASSUME NEW u \in Users PROVE ledger[u] <= earned[u]
      OBVIOUS
    <3>1. Owed(u) \in Nat
      BY <1>t DEF Owed, Activations
    <3> QED
      BY <3>1, <1>t DEF LedgerInv
  <2> QED
    BY <2>1, <2>2, <1>t DEF LedgerInv, Owed
<1>17. CASE Activation
  BY <1>17, <1>13, <1>14, <1>15 DEF Activation
<1>18. CASE BuyerNext
  BY <1>18, <1>4, <1>5, <1>6, <1>7, <1>8, <1>9, <1>10 DEF BuyerNext
<1>19. CASE AdminNext
  BY <1>19, <1>11, <1>12 DEF AdminNext
<1> QED
  BY <1>16, <1>17, <1>18, <1>19 DEF Next

LEMMA SingleWas ==
  ASSUME TypeOK, InvoicesInv, Lasting, NEW u \in Users, Single(u)'
  PROVE  /\ Single(u)
         /\ u \notin doubled' /\ crashes' = 0 /\ NotReopened(u)'
<1>1. u \notin doubled' /\ crashes' = 0 /\ NotReopened(u)'
  BY DEF Single
<1>2. NotReopened(u)
  BY <1>1, StillKept
<1> QED
  BY <1>1, <1>2 DEF Single, Lasting, TypeOK

\* Promises that are not made anew stay single, and covered by a balance that does
\* not shrink.
LEMMA KeepCredit ==
  ASSUME TypeOK, TypeOK', NEW u \in Users, OnePromise(u), Covered(u),
         \A q \in Requests : Ordering(u, q)' =>
            Ordering(u, q) /\ creating'[q].credit = creating[q].credit,
         \A i \in Invoices : Open(u, i)' => Open(u, i) /\ inv'[i].credit = inv[i].credit,
         balance'[u] >= balance[u]
  PROVE  OnePromise(u)' /\ Covered(u)'
<1>1. OnePromise(u)'
  BY DEF OnePromise
<1>2. balance[u] \in Nat /\ balance'[u] \in Nat
  BY DEF TypeOK
<1>3. ASSUME NEW q \in Requests, Ordering(u, q)' PROVE creating'[q].credit <= balance'[u]
  <2>1. creating[q].credit <= balance[u] /\ creating'[q].credit = creating[q].credit
    BY <1>3 DEF Covered
  <2>2. creating[q].credit \in Nat
    <3>1. creating[q] \in Orders \cup {NoOrder} /\ Price \in Nat
      BY BillingAssumption DEF TypeOK
    <3> QED
      BY <3>1, OrderTypes
  <2> QED
    BY <1>2, <2>1, <2>2
<1>4. ASSUME NEW i \in Invoices, Open(u, i)' PROVE inv'[i].credit <= balance'[u]
  <2>1. inv[i].credit <= balance[u] /\ inv'[i].credit = inv[i].credit
    BY <1>4 DEF Covered
  <2>2. inv[i].credit \in Nat
    BY InvTypes
  <2> QED
    BY <1>2, <2>1, <2>2
<1> QED
  BY <1>1, <1>3, <1>4 DEF Covered

Settled(i) == status[i] = "paid" /\ ~Pending(i)

LEMMA KeepCharged ==
  ASSUME NEW u \in Users, Charged(u), exists' \subseteq exists,
         \A i \in Invoices : inv'[i].user = u =>
            /\ inv'[i] = inv[i] /\ charged'[i] = charged[i]
            /\ Settled(i)' <=> Settled(i)
  PROVE  Charged(u)'
<1> SUFFICES ASSUME NEW i \in Invoices, inv'[i].user = u
             PROVE  IF Settled(i)' THEN u \in exists' => charged'[i] = inv'[i].credit
                                   ELSE charged'[i] = 0
  BY DEF Charged, Settled
<1>1. IF Settled(i) THEN u \in exists => charged[i] = inv[i].credit ELSE charged[i] = 0
  BY DEF Charged, Settled
<1> QED
  BY <1>1

\* A single promise of u, to the request q or to the invoice q, when there was none.
LEMMA FirstPromise ==
  ASSUME NEW u \in Users, NEW q,
         \A r \in Requests : Ordering(u, r)' => r = q /\ creating'[r].credit <= balance'[u],
         \A i \in Invoices : Open(u, i)' => i = q /\ inv'[i].credit <= balance'[u],
         \A r \in Requests, i \in Invoices : ~(Ordering(u, r)' /\ Open(u, i)')
  PROVE  OnePromise(u)' /\ Covered(u)'
BY DEF OnePromise, Covered

LEMMA NotPromised ==
  ASSUME NEW u \in Users, Quiet, ~Promised(u)
  PROVE  /\ \A q \in Requests : ~Ordering(u, q)
         /\ \A i \in Invoices : ~Open(u, i)
BY DEF Promised, Ordering, Open, Pending, Quiet

LEMMA PromiseIs ==
  ASSUME NEW u \in Users, NEW credit, Promise(u, credit), u \notin doubled', credit > 0
  PROVE  ~Promised(u)
BY DEF Promise

LEMMA CreditStep ==
  ASSUME TypeOK, TypeOK', InvoicesInv, ActInv, CreditInv, Next
  PROVE  CreditInv'
<1>l. Lasting
  BY LastingStep
<1> SUFFICES ASSUME NEW u \in Users, Single(u)'
             PROVE  (OnePromise(u) /\ Covered(u) /\ Charged(u))'
  BY DEF CreditInv
<1> DEFINE G == (OnePromise(u) /\ Covered(u) /\ Charged(u))'
<1> SUFFICES G
  OBVIOUS
<1>s. Single(u) /\ u \notin doubled' /\ crashes' = 0 /\ NotReopened(u)'
  BY <1>l, SingleWas
<1>p. OnePromise(u) /\ Covered(u) /\ Charged(u)
  BY <1>s DEF CreditInv
<1>k. /\ \A i \in Invoices : inv[i].user = u => inv'[i] = inv[i] /\ reopened'[i] = reopened[i]
      /\ exists' \subseteq exists
  BY <1>l, <1>s, StillKept DEF Lasting
<1>t. /\ inv \in [Invoices -> Orders \cup {NoOrder}]
      /\ status \in [Invoices -> {"none", "active", "expired", "paid"}]
      /\ provider \in [Invoices -> {"none", "active", "expired", "paid"}]
      /\ creating \in [Requests -> Orders \cup {NoOrder}]
      /\ balance \in [Users -> Nat] /\ charged \in [Invoices -> Nat]
      /\ act \in Activations
      /\ NoOrder.user # u /\ NoOrder.credit = 0
  BY BillingAssumption DEF TypeOK, Activations, NoOrder, Order
<1>1. ASSUME UNCHANGED <<inv, status, provider, creating, charged>>, balance'[u] >= balance[u],
             \A i \in Invoices : Pending(i)' <=> Pending(i)
      PROVE  G
  <2>1. \A i \in Invoices : Pending(i)' <=> Pending(i)
    BY <1>1
  <2>2. OnePromise(u)' /\ Covered(u)'
    <3>1. \A q \in Requests : Ordering(u, q)' =>
            Ordering(u, q) /\ creating'[q].credit = creating[q].credit
      BY <1>1 DEF Ordering
    <3>2. \A i \in Invoices : Open(u, i)' => Open(u, i) /\ inv'[i].credit = inv[i].credit
      BY <1>1, <2>1 DEF Open
    <3> QED
      BY <1>1, <1>p, <3>1, <3>2, KeepCredit
  <2>3. Charged(u)'
    BY <1>1, <1>p, <1>k, <2>1, KeepCharged DEF Settled
  <2> QED
    BY <2>2, <2>3
<1>d. ASSUME act' = act PROVE \A i \in Invoices : Pending(i)' <=> Pending(i)
  BY <1>d DEF Pending
<1>e. ASSUME act.step # "spend", act'.step # "spend"
      PROVE  \A i \in Invoices : Pending(i)' <=> Pending(i)
  BY <1>e DEF Pending
<1>b. ASSUME NEW i \in Invoices, Quiet, Begin(i)
      PROVE  act.step # "spend" /\ act'.step # "spend"
  BY <1>b DEF Begin, Activate, NoAct, Quiet
<1>2. ASSUME NEW q \in Requests, NEW v \in Users, NEW p \in BOOLEAN, NEW wanted \in BOOLEAN,
             CreateCall(q, v, p, wanted)
      PROVE  G
  <2> DEFINE credit == CreditFor(v, p, wanted)
             rest == Discounted(p) - credit
             order == Order(v, IF rest = 0 THEN 1 ELSE rest, credit, p)
  <2>1. /\ Quiet /\ creating' = [creating EXCEPT ![q] = order] /\ Promise(v, credit)
        /\ UNCHANGED <<inv, status, provider, charged, balance, act>>
    BY <1>2 DEF CreateCall, userVars
  <2>2. order.user = v /\ order.credit = credit
    BY DEF Order
  <2>3. credit \in Nat /\ credit <= balance[v]
    <3>1. credit \in 0..Price
      BY Credits
    <3> QED
      BY <3>1, Credits, BillingAssumption
  <2> HIDE DEF order, credit
  <2>4. \A i \in Invoices : /\ Pending(i)' <=> Pending(i)
                            /\ Open(u, i)' <=> Open(u, i)
    BY <2>1 DEF Pending, Open
  <2>5. Charged(u)'
    BY <2>1, <2>4, <1>p, <1>k, KeepCharged DEF Settled
  <2>6. \A r \in Requests : r # q => creating'[r] = creating[r]
    BY <2>1, <1>t
  <2>7. creating'[q] = order
    BY <2>1, <1>t
  <2>8. CASE v = u /\ credit > 0
    <3>1. ~Promised(u)
      BY <2>1, <2>8, <1>s, PromiseIs
    <3>2. /\ \A r \in Requests : ~Ordering(u, r)
          /\ \A i \in Invoices : ~Open(u, i)
      BY <3>1, <2>1, NotPromised
    <3>3. \A r \in Requests : Ordering(u, r)' => r = q
      BY <3>2, <2>6 DEF Ordering
    <3>4. creating'[q].credit <= balance'[u]
      BY <2>1, <2>2, <2>3, <2>7, <2>8
    <3>5. \A i \in Invoices : ~Open(u, i)'
      BY <2>4, <3>2
    <3>6. OnePromise(u)' /\ Covered(u)'
      BY <3>3, <3>4, <3>5, FirstPromise
    <3> QED
      BY <2>5, <3>6
  <2>9. CASE ~(v = u /\ credit > 0)
    <3>1. ~Ordering(u, q)'
      BY <2>2, <2>7, <2>9 DEF Ordering
    <3>2. \A r \in Requests : Ordering(u, r)' =>
            Ordering(u, r) /\ creating'[r].credit = creating[r].credit
      BY <2>6, <3>1 DEF Ordering
    <3>3. \A i \in Invoices : Open(u, i)' => Open(u, i) /\ inv'[i].credit = inv[i].credit
      BY <2>1, <2>4
    <3>4. balance'[u] >= balance[u]
      BY <2>1, <1>t
    <3>5. OnePromise(u)' /\ Covered(u)'
      BY <1>p, <3>2, <3>3, <3>4, KeepCredit
    <3> QED
      BY <2>5, <3>5
  <2> QED
    BY <2>8, <2>9
<1>3. ASSUME NEW q \in Requests, CreateFail(q) PROVE G
  <2>1. /\ creating' = [creating EXCEPT ![q] = NoOrder]
        /\ UNCHANGED <<inv, status, provider, charged, balance, act>>
    BY <1>3 DEF CreateFail, userVars, history
  <2>2. \A r \in Requests : Ordering(u, r)' =>
          Ordering(u, r) /\ creating'[r].credit = creating[r].credit
    BY <2>1, <1>t DEF Ordering
  <2>3. \A i \in Invoices : /\ Pending(i)' <=> Pending(i)
                            /\ Open(u, i)' => Open(u, i) /\ inv'[i].credit = inv[i].credit
    BY <2>1 DEF Pending, Open
  <2>4. balance'[u] >= balance[u]
    BY <2>1, <1>t
  <2>5. OnePromise(u)' /\ Covered(u)'
    BY <1>p, <2>2, <2>3, <2>4, KeepCredit
  <2>6. Charged(u)'
    BY <2>1, <2>3, <1>p, <1>k, KeepCharged DEF Settled
  <2> QED
    BY <2>5, <2>6
\* A new invoice is not charged yet.
<1>a. ASSUME NEW i \in Invoices, NEW order, Add(i, order), Quiet, act'.step # "spend",
             UNCHANGED charged
      PROVE  Charged(u)'
  <2>1. status[i] = "none" /\ charged[i] = 0
    BY <1>a DEF Add, Created, InvoicesInv
  <2>2. \A j \in Invoices : /\ Settled(j)' <=> status'[j] = "paid"
                            /\ Settled(j) <=> status[j] = "paid"
    BY <1>a DEF Settled, Pending, Quiet
  <2> SUFFICES ASSUME NEW j \in Invoices, inv'[j].user = u
               PROVE  IF Settled(j)' THEN u \in exists' => charged'[j] = inv'[j].credit
                                     ELSE charged'[j] = 0
    BY DEF Charged, Settled
  <2>3. CASE j = i
    BY <1>a, <1>t, <2>1, <2>2, <2>3 DEF Add
  <2>4. CASE j # i
    <3>1. inv'[j] = inv[j] /\ status'[j] = status[j] /\ charged'[j] = charged[j]
      BY <1>a, <1>t, <2>4 DEF Add
    <3>2. IF Settled(j) THEN u \in exists => charged[j] = inv[j].credit ELSE charged[j] = 0
      BY <1>p, <3>1 DEF Charged, Settled
    <3> QED
      BY <2>2, <3>1, <3>2, <1>k
  <2> QED
    BY <2>3, <2>4
<1>4. ASSUME NEW q \in Requests, NEW i \in Invoices, CreateDone(q, i) PROVE G
  <2> DEFINE order == creating[q]
  <2>1. /\ Quiet /\ Add(i, order) /\ creating' = [creating EXCEPT ![q] = NoOrder]
        /\ UNCHANGED <<charged, balance, act>>
        /\ provider' = [provider EXCEPT ![i] = "active"]
    BY <1>4 DEF CreateDone, userVars, history
  <2>2. Charged(u)'
    BY <2>1, <1>a DEF Quiet
  <2>3. \A r \in Requests : creating'[r] = IF r = q THEN NoOrder ELSE creating[r]
    BY <2>1, <1>t
  <2>4. \A j \in Invoices : j # i =>
          /\ inv'[j] = inv[j] /\ status'[j] = status[j] /\ provider'[j] = provider[j]
          /\ Pending(j)' <=> Pending(j)
    BY <2>1, <1>t DEF Add, Pending
  <2>5. inv'[i] = order
    BY <2>1, <1>t DEF Add
  <2>6. \A j \in Invoices : j # i /\ Open(u, j)' => Open(u, j)
    BY <2>4 DEF Open
  <2>7. \A r \in Requests : Ordering(u, r)' => r # q /\ Ordering(u, r)
    BY <2>3, <1>t DEF Ordering
  <2>8. CASE Ordering(u, q)
    <3>1. /\ \A r \in Requests : Ordering(u, r) => r = q
          /\ \A j \in Invoices : ~Open(u, j)
          /\ creating[q].credit <= balance[u]
      BY <1>p, <2>8 DEF OnePromise, Covered
    <3>2. /\ \A r \in Requests : ~Ordering(u, r)'
          /\ \A j \in Invoices : Open(u, j)' => j = i
          /\ inv'[i].credit <= balance'[u]
      BY <2>1, <2>5, <2>6, <2>7, <3>1
    <3>3. OnePromise(u)' /\ Covered(u)'
      BY <3>2, FirstPromise
    <3> QED
      BY <2>2, <3>3
  <2>9. CASE ~Ordering(u, q)
    <3>1. ~Open(u, i)'
      BY <2>5, <2>9 DEF Open, Ordering
    <3>2. \A j \in Invoices : Open(u, j)' => Open(u, j) /\ inv'[j].credit = inv[j].credit
      BY <2>4, <2>6, <3>1
    <3>3. \A r \in Requests : Ordering(u, r)' =>
            Ordering(u, r) /\ creating'[r].credit = creating[r].credit
      BY <2>3, <2>7
    <3>4. balance'[u] >= balance[u]
      BY <2>1, <1>t
    <3>5. OnePromise(u)' /\ Covered(u)'
      BY <1>p, <3>2, <3>3, <3>4, KeepCredit
    <3> QED
      BY <2>2, <3>5
  <2> QED
    BY <2>8, <2>9
<1>5. ASSUME NEW i \in Invoices, NEW v \in Users, NEW p \in BOOLEAN, CreateByCredit(i, v, p)
      PROVE  G
  <2> DEFINE credit == CreditFor(v, p, TRUE)
             order == Order(v, 0, credit, p)
  <2>1. /\ Quiet /\ Add(i, order) /\ act' = Activate(i, v) /\ Promise(v, credit) /\ credit > 0
        /\ UNCHANGED <<charged, balance, creating, provider>>
    BY <1>5 DEF CreateByCredit, userVars
  <2>2. act'.step = "plan"
    BY <2>1 DEF Activate, NoAct
  <2>3. Charged(u)'
    BY <2>1, <2>2, <1>a
  <2>4. order.user = v /\ order.credit = credit
    BY DEF Order
  <2>5. credit <= balance[v]
    BY Credits
  <2> HIDE DEF order, credit
  <2>6. \A j \in Invoices : j # i =>
          /\ inv'[j] = inv[j] /\ status'[j] = status[j] /\ provider'[j] = provider[j]
          /\ ~Pending(j)' /\ ~Pending(j)
    BY <2>1, <2>2, <1>t DEF Add, Pending, Quiet
  <2>7. inv'[i] = order
    BY <2>1, <1>t DEF Add
  <2>8. \A j \in Invoices : j # i /\ Open(u, j)' => Open(u, j)
    BY <2>6 DEF Open
  <2>9. \A r \in Requests : Ordering(u, r)' <=> Ordering(u, r)
    BY <2>1 DEF Ordering
  <2>10. CASE v = u
    <3>1. ~Promised(u)
      BY <2>1, <2>10, <1>s, PromiseIs
    <3>2. /\ \A r \in Requests : ~Ordering(u, r)
          /\ \A j \in Invoices : ~Open(u, j)
      BY <3>1, <2>1, NotPromised
    <3>3. /\ \A r \in Requests : ~Ordering(u, r)'
          /\ \A j \in Invoices : Open(u, j)' => j = i
          /\ inv'[i].credit <= balance'[u]
      BY <2>1, <2>4, <2>5, <2>7, <2>8, <2>9, <2>10, <3>2
    <3>4. OnePromise(u)' /\ Covered(u)'
      BY <3>3, FirstPromise
    <3> QED
      BY <2>3, <3>4
  <2>11. CASE v # u
    <3>1. ~Open(u, i)'
      BY <2>4, <2>7, <2>11 DEF Open
    <3>2. \A j \in Invoices : Open(u, j)' => Open(u, j) /\ inv'[j].credit = inv[j].credit
      BY <2>6, <2>8, <3>1
    <3>3. \A r \in Requests : Ordering(u, r)' =>
            Ordering(u, r) /\ creating'[r].credit = creating[r].credit
      BY <2>1, <2>9
    <3>4. balance'[u] >= balance[u]
      BY <2>1, <1>t
    <3>5. OnePromise(u)' /\ Covered(u)'
      BY <1>p, <3>2, <3>3, <3>4, KeepCredit
    <3> QED
      BY <2>3, <3>5
  <2> QED
    BY <2>10, <2>11
<1>6. ASSUME UNCHANGED <<inv, creating, charged, balance>>,
             \A i \in Invoices : inv[i].user = u => (Settled(i)' <=> Settled(i)),
             \A i \in Invoices : Open(u, i)' => Open(u, i)
      PROVE  G
  <2>1. \A r \in Requests : Ordering(u, r)' =>
          Ordering(u, r) /\ creating'[r].credit = creating[r].credit
    BY <1>6 DEF Ordering
  <2>2. balance'[u] >= balance[u]
    BY <1>6, <1>t
  <2>3. \A i \in Invoices : Open(u, i)' => Open(u, i) /\ inv'[i].credit = inv[i].credit
    BY <1>6
  <2>4. OnePromise(u)' /\ Covered(u)'
    BY <1>p, <2>1, <2>2, <2>3, KeepCredit
  <2>5. Charged(u)'
    BY <1>6, <1>p, <1>k, KeepCharged
  <2> QED
    BY <2>4, <2>5
<1>7. ASSUME NEW i \in Invoices, Pay(i) \/ Expire(i) PROVE G
  <2>1. /\ UNCHANGED <<inv, creating, charged, balance, status, act>>
        /\ \A j \in Invoices : provider'[j] # "expired" => provider[j] # "expired"
    BY <1>7, <1>t DEF Pay, Expire, userVars, history
  <2>2. \A j \in Invoices : /\ Settled(j)' <=> Settled(j)
                            /\ Open(u, j)' => Open(u, j)
    BY <2>1 DEF Settled, Open, Pending
  <2> QED
    BY <1>6, <2>1, <2>2
<1>8. ASSUME NEW i \in Invoices, Webhook(i) PROVE G
  <2>1. balance'[u] >= balance[u]
    BY <1>8, <1>t DEF Webhook, userVars
  <2> QED
    BY <1>1, <1>b, <1>e, <1>8, <2>1 DEF Webhook, userVars, history
<1>9. ASSUME NEW k \in Pollers,
             CheckAnswer(k) \/ CheckFail(k) \/ \E i \in Invoices : CheckCall(k, i)
      PROVE  G
  <2>1. UNCHANGED <<inv, status, provider, creating, charged, balance, act>>
    BY <1>9 DEF CheckAnswer, CheckFail, CheckCall, userVars, history
  <2>2. balance'[u] >= balance[u]
    BY <2>1, <1>t
  <2>3. \A i \in Invoices : Pending(i)' <=> Pending(i)
    BY <2>1, <1>d
  <2> QED
    BY <1>1, <2>1, <2>2, <2>3
\* A late answer takes no "paid" from u, or reopened would count it.
<1>10. ASSUME NEW k \in Pollers, CheckDone(k) PROVE G
  <2>1. /\ UNCHANGED <<inv, provider, creating, charged, balance>>
        /\ Quiet /\ check[k] \in Invoices /\ answer[k] # "none"
    BY <1>10 DEF CheckDone, InvoicesInv, userVars
  <2>2. CASE answer[k] = "paid"
    <3>1. status' = status /\ Begin(check[k])
      BY <1>10, <2>2 DEF CheckDone
    <3>2. balance'[u] >= balance[u]
      BY <2>1, <1>t
    <3> QED
      BY <1>1, <1>b, <1>e, <2>1, <3>1, <3>2
  <2>3. CASE answer[k] # "paid"
    <3>1. /\ status' = [status EXCEPT ![check[k]] = answer[k]]
          /\ reopened' = [reopened EXCEPT ![check[k]] =
               IF status[check[k]] = "paid" THEN @ + 1 ELSE @]
          /\ act' = act
      BY <1>10, <2>3 DEF CheckDone
    <3>2. \A i \in Invoices : inv[i].user = u => (status'[i] = "paid" <=> status[i] = "paid")
      <4> SUFFICES ASSUME NEW i \in Invoices, inv[i].user = u
                   PROVE  status'[i] = "paid" <=> status[i] = "paid"
        OBVIOUS
      <4>1. reopened'[i] = reopened[i] /\ reopened[i] \in Nat
        BY <1>k DEF TypeOK
      <4>2. CASE i = check[k]
        <5>1. status[i] # "paid"
          BY <3>1, <4>1, <4>2 DEF TypeOK
        <5> QED
          BY <2>3, <3>1, <4>2, <5>1, <1>t
      <4>3. CASE i # check[k]
        BY <3>1, <4>3, <1>t
      <4> QED
        BY <4>2, <4>3
    <3>3. \A i \in Invoices : ~Pending(i) /\ ~Pending(i)'
      BY <2>1, <3>1 DEF Pending, Quiet
    <3>4. \A i \in Invoices : inv[i].user = u => (Settled(i)' <=> Settled(i))
      BY <3>2, <3>3 DEF Settled
    <3>5. \A i \in Invoices : Open(u, i)' => Open(u, i)
      BY <2>1, <3>2, <3>3 DEF Open
    <3> QED
      BY <1>6, <2>1, <3>4, <3>5
  <2> QED
    BY <2>2, <2>3
<1>11. ASSUME NEW v \in Users, DeleteUser(v) PROVE G
  <2>1. UNCHANGED <<inv, status, provider, creating, charged, balance, act>>
    BY <1>11 DEF DeleteUser, history
  <2>2. balance'[u] >= balance[u]
    BY <2>1, <1>t
  <2>3. \A i \in Invoices : Pending(i)' <=> Pending(i)
    BY <2>1, <1>d
  <2> QED
    BY <1>1, <2>1, <2>2, <2>3
\* Credit only adds.
<1>c. ASSUME NEW v \in Users, NEW n \in Nat, Credit(v, n) PROVE balance'[u] >= balance[u]
  BY <1>c, <1>t DEF Credit
<1>12. ASSUME NEW v \in Users, NEW sum \in Gifts, Gift(v, sum) PROVE G
  <2>1. balance'[u] >= balance[u]
    BY <1>12, <1>c, BillingAssumption DEF Gift
  <2>2. act.step # "spend" /\ act'.step # "spend"
    BY <1>12 DEF Gift, NoAct, Quiet
  <2> QED
    BY <1>1, <1>e, <1>12, <2>1, <2>2 DEF Gift, history
<1>13. ASSUME GrantPlan \/ ApplyUse \/ PromoDays \/ LedgerEntry \/ FirstBonus PROVE G
  <2>1. act.step # "spend" /\ act'.step # "spend"
    BY <1>13, ThenIs DEF GrantPlan, ApplyUse, PromoDays, LedgerEntry, FirstBonus, NoAct
  <2>2. UNCHANGED <<inv, status, provider, creating, charged, balance>>
    BY <1>13 DEF GrantPlan, ApplyUse, PromoDays, LedgerEntry, FirstBonus, userVars, history
  <2>3. balance'[u] >= balance[u]
    BY <2>2, <1>t
  <2> QED
    BY <1>1, <1>e, <2>1, <2>2, <2>3
<1>14. ASSUME MarkPaid PROVE G
  <2>1. /\ UNCHANGED <<inv, creating, charged, balance, provider>>
        /\ status' = [status EXCEPT ![act.inv] = "paid"]
        /\ act.step = "mark" /\ act.inv \in Invoices /\ status[act.inv] # "paid"
    BY <1>14 DEF MarkPaid, ActInv, Before, userVars, history
  <2>2. act'.step = "spend" /\ act'.inv = act.inv
    BY <1>14, ThenIs DEF MarkPaid
  <2>3. \A i \in Invoices : /\ Settled(i)' <=> Settled(i)
                            /\ Open(u, i)' => Open(u, i)
    BY <2>1, <2>2, <1>t DEF Settled, Open, Pending
  <2> QED
    BY <1>6, <2>1, <2>3
\* The balance covers the credit of the invoice that is settled.
<1>15. ASSUME SpendCredit PROVE G
  <2> DEFINE b == act.inv
             sum == inv[b].credit
             paying == Buyer \in exists /\ Affordable(Buyer, sum)
  <2>1. /\ act.step = "spend" /\ b \in Invoices /\ status[b] = "paid" /\ provider[b] # "expired"
        /\ UNCHANGED <<inv, status, provider, creating, exists>>
        /\ IF paying
           THEN /\ balance' = [balance EXCEPT ![Buyer] = @ - sum]
                /\ charged' = [charged EXCEPT ![b] = @ + sum]
           ELSE UNCHANGED <<balance, charged>>
    BY <1>15 DEF SpendCredit, ActInv, After
  <2>2. act'.step = "reward"
    BY <1>15, ThenIs DEF SpendCredit
  <2>3. sum \in Nat
    BY <2>1, InvTypes
  <2>4. \A i \in Invoices : ~Pending(i)' /\ (Pending(i) <=> i = b)
    BY <2>1, <2>2 DEF Pending
  <2>5. \A i \in Invoices : Open(u, i)' => i # b /\ Open(u, i)
    BY <2>1, <2>4 DEF Open
  <2>6. \A r \in Requests : Ordering(u, r)' <=> Ordering(u, r)
    BY <2>1 DEF Ordering
  <2> HIDE DEF b
  <2>7. CASE Buyer # u
    <3>1. inv[b].user # u
      BY <2>7 DEF Buyer, b
    <3>2. balance'[u] >= balance[u]
      BY <2>1, <2>7, <1>t
    <3>3. \A i \in Invoices : inv'[i].user = u =>
            /\ inv'[i] = inv[i] /\ charged'[i] = charged[i]
            /\ Settled(i)' <=> Settled(i)
      BY <2>1, <2>4, <3>1, <1>t DEF Settled
    <3>4. OnePromise(u)' /\ Covered(u)'
      BY <2>1, <2>5, <2>6, <3>2, <1>p, KeepCredit
    <3>5. Charged(u)'
      BY <3>3, <1>p, <1>k, KeepCharged
    <3> QED
      BY <3>4, <3>5
  <2>8. CASE Buyer = u
    <3>1. inv[b].user = u
      BY <2>8 DEF Buyer, b
    <3>2. charged[b] = 0
      BY <1>p, <2>1, <2>4, <3>1 DEF Charged
    <3>3. sum > 0 => Open(u, b)
      BY <2>1, <2>4, <3>1 DEF Open
    <3>4. sum <= balance[u]
      <4>1. CASE sum = 0
        BY <4>1, <1>t
      <4>2. CASE sum > 0
        BY <4>2, <3>3, <2>1, <1>p DEF Covered
      <4> QED
        BY <4>1, <4>2, <2>3
    <3>5. u \in exists => charged'[b] = sum
      BY <2>1, <2>3, <2>8, <3>2, <3>4, <1>t DEF Affordable
    <3>6. \A i \in Invoices : i # b => charged'[i] = charged[i]
      BY <2>1, <1>t
    <3>7. Charged(u)'
      <4> SUFFICES ASSUME NEW i \in Invoices, inv'[i].user = u
                   PROVE  IF Settled(i)' THEN u \in exists' => charged'[i] = inv'[i].credit
                                         ELSE charged'[i] = 0
        BY DEF Charged, Settled
      <4>1. CASE i = b
        BY <2>1, <2>4, <3>5, <4>1 DEF Settled
      <4>2. CASE i # b
        <5>1. Settled(i)' <=> Settled(i)
          BY <2>1, <2>4, <4>2 DEF Settled
        <5>2. IF Settled(i) THEN u \in exists => charged[i] = inv[i].credit ELSE charged[i] = 0
          BY <1>p, <2>1 DEF Charged, Settled
        <5> QED
          BY <2>1, <3>6, <4>2, <5>1, <5>2
      <4> QED
        BY <4>1, <4>2
    <3>8. OnePromise(u)' /\ Covered(u)'
      <4>1. CASE sum > 0
        <5>1. /\ \A i \in Invoices : Open(u, i) => i = b
              /\ \A r \in Requests : ~Ordering(u, r)
          BY <4>1, <3>3, <2>1, <1>p DEF OnePromise
        <5>2. /\ \A i \in Invoices : ~Open(u, i)'
              /\ \A r \in Requests : ~Ordering(u, r)'
          BY <5>1, <2>5, <2>6
        <5> QED
          BY <5>2, FirstPromise
      <4>2. CASE sum = 0
        <5>1. balance'[u] >= balance[u]
          BY <2>1, <4>2, <1>t
        <5> QED
          BY <2>1, <2>5, <2>6, <5>1, <1>p, KeepCredit
      <4> QED
        BY <4>1, <4>2, <2>3
    <3> QED
      BY <3>7, <3>8
  <2> QED
    BY <2>7, <2>8
<1>16. ASSUME Reward PROVE G
  <2>1. act.step # "spend" /\ act'.step # "spend"
    <3>1. NoAct.step # "spend" /\ act.step = "reward"
      BY <1>16 DEF NoAct, Reward
    <3>2. act' = NoAct \/ Then("bonus") \/ act'.step = "entry"
      BY <1>16, <1>t DEF Reward, Activations
    <3> QED
      BY <3>1, <3>2, ThenIs
  <2>2. UNCHANGED <<inv, status, provider, creating, charged>>
    BY <1>16 DEF Reward, history
  <2>3. balance'[u] >= balance[u]
    <3>1. act.inv \in Invoices
      BY <1>16 DEF Reward, ActInv
    <3>2. Commission(inv[act.inv].amount) \in Nat
      <4>1. inv[act.inv].amount \in Nat
        BY <3>1, InvTypes
      <4> QED
        BY <4>1, Commissions
    <3>3. \/ UNCHANGED balance
          \/ \E v \in Users : Credit(v, Commission(inv[act.inv].amount))
      BY <1>16 DEF Reward, TypeOK
    <3> QED
      BY <3>2, <3>3, <1>c, <1>t
  <2> QED
    BY <1>1, <1>e, <2>1, <2>2, <2>3
<1>17. ASSUME Crash PROVE G
  BY <1>17, <1>s DEF Crash, TypeOK
<1> HIDE DEF G
<1>18. CASE Activation
  BY <1>18, <1>13, <1>14, <1>15, <1>16 DEF Activation
<1>19. CASE BuyerNext
  BY <1>19, <1>2, <1>3, <1>4, <1>5, <1>7, <1>8, <1>9, <1>10 DEF BuyerNext
<1>20. CASE AdminNext
  BY <1>20, <1>11, <1>12 DEF AdminNext
<1> QED
  BY <1>17, <1>18, <1>19, <1>20 DEF Next

-----------------------------------------------------------------------------
(* Theorems.                                                               *)

LEMMA Unchanged ==
  ASSUME IInv, UNCHANGED vars
  PROVE  IInv'
<1> USE DEF vars, userVars, planVars, pollVars, history
<1>1. TypeOK' /\ InvoicesInv' /\ ActInv'
  BY DEF IInv, TypeOK, InvoicesInv, ActInv, Created
<1>2. DeliveredInv' /\ GrantsInv'
  BY DEF IInv, DeliveredInv, Delivered, Buyer, GrantsInv
<1>3. BonusInv' /\ LedgerInv'
  BY DEF IInv, BonusInv, NotReopened, PaidFor, Buyer, LedgerInv, Owed
<1>4. CreditInv'
  BY DEF IInv, CreditInv, Single, NotReopened, OnePromise, Covered, Charged, Ordering, Open, Pending
<1> QED
  BY <1>1, <1>2, <1>3, <1>4 DEF IInv

LEMMA Inductive == Spec => []IInv
<1>1. IInv /\ [Next]_vars => IInv'
  <2> SUFFICES ASSUME IInv, [Next]_vars PROVE IInv'
    OBVIOUS
  <2>1. CASE Next
    <3>1. TypeOK /\ InvoicesInv /\ ActInv /\ DeliveredInv /\ GrantsInv /\ BonusInv
          /\ LedgerInv /\ CreditInv
      BY DEF IInv
    <3>2. TypeOK' /\ InvoicesInv' /\ ActInv'
      BY <2>1, <3>1, TypeStep, InvoicesStep, ActStep
    <3>3. DeliveredInv' /\ GrantsInv' /\ BonusInv' /\ LedgerInv'
      BY <2>1, <3>1, DeliveredStep, GrantsStep, BonusStep, LedgerStep
    <3>4. CreditInv'
      BY <2>1, <3>1, <3>2, CreditStep
    <3> QED
      BY <3>2, <3>3, <3>4 DEF IInv
  <2>2. CASE UNCHANGED vars
    BY <2>2, Unchanged
  <2> QED
    BY <2>1, <2>2
<1> QED
  BY <1>1, InitIs, PTL DEF Spec

\* An invoice that counts as paid has had its plan and promo days added, and no
\* promo days are given that were not counted as a use of the code: the steps of
\* _activate_paid_invoice come in an order that no crash and no late answer upsets.
THEOREM BillingDelivers == Spec => []PaidIsDelivered
<1>1. IInv => PaidIsDelivered
  <2> SUFFICES ASSUME IInv PROVE PaidIsDelivered
    OBVIOUS
  <2>1. extra \in [Invoices -> Nat] /\ uses \in Nat /\ DeliveredInv
    BY DEF IInv, TypeOK
  <2>2. Total(extra) \in Nat
    <3>1. IsFiniteSet(Invoices)
      BY BillingAssumption
    <3>2. PICK it : Adds(it, extra, Invoices)
      BY <2>1, <3>1, SumsOf
    <3> QED
      BY <3>2 DEF Adds
  <2>3. Total(extra) <= uses
    BY <2>1, <2>2 DEF DeliveredInv
  <2>4. FoldFunction(LAMBDA a, b : a + b, 0, extra) <= uses
    BY <2>3 DEF Total
  <2> QED
    BY <2>1, <2>4 DEF PaidIsDelivered, DeliveredInv, Delivered
<1> QED
  BY <1>1, Inductive, PTL

\* A plan is added again, or the bonus given again, only after a "paid" was lost,
\* however many webhooks and polls bring the same payment.
THEOREM BillingGrantsOnce == Spec => []GrantsExplained
<1>1. IInv => GrantsExplained
  <2> SUFFICES ASSUME IInv PROVE GrantsExplained
    OBVIOUS
  <2>1. /\ granted \in [Invoices -> Nat] /\ reopened \in [Invoices -> Nat]
        /\ bonuses \in [Users -> Nat]
    BY DEF IInv, TypeOK
  <2>2. \A i \in Invoices : granted[i] <= 1 + reopened[i]
    BY <2>1 DEF IInv, GrantsInv
  <2>3. ASSUME NEW u \in Users, bonuses[u] > 1
        PROVE  \E i \in Invoices : inv[i].user = u /\ reopened[i] > 0
    <3>1. ~NotReopened(u)
      BY <2>1, <2>3 DEF IInv, BonusInv
    <3>2. PICK i \in Invoices : inv[i].user = u /\ reopened[i] # 0
      BY <3>1 DEF NotReopened
    <3> QED
      BY <2>1, <3>2
  <2> QED
    BY <2>2, <2>3 DEF GrantsExplained
<1> QED
  BY <1>1, Inductive, PTL

\* The ledger never shows a commission or a gift that was not credited, and without
\* a crash it shows them all once the handler is done; no balance is negative.
THEOREM BillingLedger == Spec => []LedgerFollowsCredit
<1>1. IInv => LedgerFollowsCredit
  <2> SUFFICES ASSUME IInv PROVE LedgerFollowsCredit
    OBVIOUS
  <2>1. TypeOK /\ LedgerInv
    BY DEF IInv
  <2>2. ASSUME NEW u \in Users
        PROVE  ledger[u] <= earned[u] /\ (crashes = 0 /\ Quiet => ledger[u] = earned[u])
    <3>1. /\ ledger[u] \in Nat /\ earned[u] \in Nat /\ Owed(u) \in Nat
          /\ Quiet => Owed(u) = 0
      BY <2>1 DEF TypeOK, Owed, Quiet
    <3> QED
      BY <2>1, <3>1 DEF LedgerInv
  <2> QED
    BY <2>1, <2>2 DEF LedgerFollowsCredit
<1> QED
  BY <1>1, Inductive, PTL

\* Nothing is reserved while an invoice is open, and still its credit is taken from
\* the balance when it is paid, unless the same credit was promised twice or a
\* "paid" was lost.
THEOREM BillingCredit == Spec => []CreditPaidFor
<1>1. IInv => CreditPaidFor
  <2> SUFFICES ASSUME IInv, NEW i \in Invoices,
                      status[i] = "paid", ~(act.step = "spend" /\ act.inv = i),
                      inv[i].user \in exists \ doubled,
                      ~(crashes > 0 \/ \E j \in Invoices : inv[j].user = inv[i].user /\ reopened[j] > 0)
               PROVE  charged[i] = inv[i].credit
    BY DEF CreditPaidFor
  <2> DEFINE u == inv[i].user
  <2>1. u \in Users /\ crashes \in Nat /\ reopened \in [Invoices -> Nat]
    BY DEF IInv, TypeOK
  <2>2. Single(u)
    BY <2>1 DEF Single, NotReopened
  <2>3. Charged(u)
    BY <2>1, <2>2 DEF IInv, CreditInv
  <2> QED
    BY <2>3 DEF Charged, Pending
<1> QED
  BY <1>1, Inductive, PTL

=============================================================================
