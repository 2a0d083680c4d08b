------------------------------- MODULE Replay --------------------------------
(***************************************************************************)
(* What a queue of calls will make of what a page shows.  After(c, v) is   *)
(* what the continuation of call c, answered, makes of v.                  *)
(***************************************************************************)
EXTENDS Integers, Sequences, WellFoundedInduction, TLAPS

CONSTANTS Pending, After(_, _)

Step(c, v) == IF c.ans = Pending THEN v ELSE After(c, v)

\* The answered calls of q, one after the other, make b of a.
Walk(q, n, a, w) == w[0] = a /\ \A k \in 1..n : w[k] = Step(q[k], w[k - 1])

Leads(q, a, b) == \E w : Walk(q, Len(q), a, w) /\ w[Len(q)] = b
------------------------------------------------------------------------------
(***************************************************************************)
(* Induction, from the well-foundedness of the natural numbers.            *)
(***************************************************************************)
Less == {p \in Nat \X Nat : p[1] < p[2]}

\* A set of numbers that is not empty has a least one.
LEMMA Least ==
  ASSUME NEW T, T \subseteq Nat, T # {} PROVE \E m \in T : \A k \in T : m <= k
<1>1. IsWellFoundedOn(Less, Nat)
  BY NatLessThanWellFounded DEF OpToRel, Less
<1>2. \E m \in T : \A y \in T : ~(<<y, m>> \in Less)
  BY <1>1, WFMin
<1>3. \A x, y \in Nat : <<y, x>> \in Less <=> y < x
  BY DEF Less
<1>4. PICK m \in T : \A y \in T : ~(<<y, m>> \in Less)
  BY <1>2
<1>5. \A k \in T : m <= k
  <2>1. TAKE k \in T
  <2>2. m \in Nat /\ k \in Nat /\ ~(<<k, m>> \in Less)
    BY <1>4
  <2>3. ~(k < m)
    BY <2>2, <1>3
  <2>. QED BY <2>2, <2>3
<1>. QED BY <1>5

\* What holds of 0 and of every number up to n whose predecessor it holds of,
\* holds of all of them.
LEMMA Reaches ==
  ASSUME NEW n \in Nat, NEW T, 0 \in T, \A k \in 1..n : k - 1 \in T => k \in T
  PROVE  \A k \in 0..n : k \in T
<1>. DEFINE Bad == {k \in 0..n : k \notin T}
<1>1. SUFFICES ASSUME Bad # {} PROVE FALSE
  OBVIOUS
<1>2. PICK m \in Bad : \A k \in Bad : m <= k
  <2>1. Bad \subseteq Nat
    OBVIOUS
  <2>2. \E m \in Bad : \A k \in Bad : m <= k
    <3>. HIDE DEF Bad
    <3>. QED BY <1>1, <2>1, Least
  <2>. QED BY <2>2
<1>3. m \in 1..n /\ m - 1 \in 0..n /\ m - 1 \notin Bad
  BY <1>2
<1>. QED BY <1>3
------------------------------------------------------------------------------
(***************************************************************************)
(* The queue and what it leads to.                                         *)
(***************************************************************************)
\* An empty queue leads nowhere else.
LEMMA LeadsNowhere ==
  ASSUME NEW q, Len(q) = 0, NEW a, NEW b
  PROVE  Leads(q, a, b) <=> a = b
<1>1. Leads(q, a, b) => a = b
  BY DEF Leads, Walk
<1>2. ASSUME a = b PROVE Leads(q, a, b)
  <2>. DEFINE w == [k \in {0} |-> a]
  <2>1. w[0] = a /\ w[Len(q)] = b /\ \A k \in 1..Len(q) : FALSE
    BY <1>2
  <2>. HIDE DEF w
  <2>. QED BY <2>1 DEF Leads, Walk
<1>. QED BY <1>1, <1>2

\* A queue of pending calls leads nowhere else either.
LEMMA LeadsWaiting ==
  ASSUME NEW q, Len(q) \in Nat, \A k \in 1..Len(q) : q[k].ans = Pending, NEW a
  PROVE  Leads(q, a, a)
<1>. DEFINE w == [k \in 0..Len(q) |-> a]
<1>1. w[0] = a /\ w[Len(q)] = a /\ \A k \in 1..Len(q) : w[k] = a /\ w[k - 1] = a
  OBVIOUS
<1>. HIDE DEF w
<1>. QED BY <1>1 DEF Leads, Walk, Step

\* Every queue leads somewhere.
LEMMA LeadsOn ==
  ASSUME NEW q, Len(q) \in Nat, NEW a
  PROVE  \E b : Leads(q, a, b)
<1>. DEFINE T == {n \in 0..Len(q) : \E w : Walk(q, n, a, w)}
<1>1. 0 \in T
  <2>. DEFINE w == [k \in {0} |-> a]
  <2>1. w[0] = a /\ \A k \in 1..0 : FALSE
    OBVIOUS
  <2>2. Walk(q, 0, a, w)
    <3>. HIDE DEF w
    <3>. QED BY <2>1 DEF Walk
  <2>. QED BY <2>2
<1>2. ASSUME NEW n \in 1..Len(q), n - 1 \in T PROVE n \in T
  <2>1. PICK w : Walk(q, n - 1, a, w)
    BY <1>2
  <2>. DEFINE r == [k \in 0..n |-> IF k < n THEN w[k] ELSE Step(q[n], w[n - 1])]
  <2>2. /\ r[0] = w[0]
        /\ \A k \in 1..n : r[k] = (IF k < n THEN w[k] ELSE Step(q[n], w[n - 1])) /\ r[k - 1] = w[k - 1]
    OBVIOUS
  <2>. HIDE DEF r
  <2>3. ASSUME NEW k \in 1..n PROVE r[k] = Step(q[k], r[k - 1])
    <3>1. CASE k < n
      <4>1. k \in 1..(n - 1)
        BY <3>1
      <4>. QED BY <4>1, <3>1, <2>1, <2>2 DEF Walk
    <3>2. CASE k = n
      BY <3>2, <2>2
    <3>. QED BY <3>1, <3>2
  <2>4. Walk(q, n, a, r)
    BY <2>1, <2>2, <2>3 DEF Walk
  <2>. QED BY <2>4
<1>3. Len(q) \in T
  <2>. HIDE DEF T
  <2>1. \A k \in 0..Len(q) : k \in T
    BY <1>1, <1>2, Reaches
  <2>. QED BY <2>1
<1>. QED BY <1>3 DEF Leads

\* What the queue leads to has whatever a has and its calls keep.
LEMMA LeadsKeeps ==
  ASSUME NEW q, Len(q) \in Nat, NEW a, NEW b, Leads(q, a, b), NEW T, a \in T,
         \A k \in 1..Len(q) : q[k].ans # Pending => \A v \in T : After(q[k], v) \in T
  PROVE  b \in T
<1>1. PICK w : Walk(q, Len(q), a, w) /\ w[Len(q)] = b
  BY DEF Leads
<1>. DEFINE S == {k \in 0..Len(q) : w[k] \in T}
<1>2. 0 \in S
  BY <1>1 DEF Walk
<1>3. ASSUME NEW k \in 1..Len(q), k - 1 \in S PROVE k \in S
  BY <1>1, <1>3 DEF Walk, Step
<1>4. Len(q) \in S
  <2>. HIDE DEF S
  <2>1. \A k \in 0..Len(q) : k \in S
    BY <1>2, <1>3, Reaches
  <2>. QED BY <2>1
<1>. QED BY <1>1, <1>4

\* New calls lead to the same.
LEMMA LeadsGrow ==
  ASSUME NEW q, Len(q) \in Nat, NEW t, Len(t) \in Nat, Len(t) >= Len(q),
         \A k \in 1..Len(q) : t[k] = q[k],
         \A k \in (Len(q) + 1)..Len(t) : t[k].ans = Pending,
         NEW a, NEW b, Leads(q, a, b)
  PROVE  Leads(t, a, b)
<1>1. PICK w : Walk(q, Len(q), a, w) /\ w[Len(q)] = b
  BY DEF Leads
<1>. DEFINE r == [k \in 0..Len(t) |-> IF k <= Len(q) THEN w[k] ELSE b]
<1>2. r[0] = a /\ r[Len(t)] = b
  BY <1>1 DEF Walk
<1>3. ASSUME NEW k \in 1..Len(t) PROVE r[k] = Step(t[k], r[k - 1])
  <2>1. CASE k <= Len(q)
    <3>1. r[k] = w[k] /\ r[k - 1] = w[k - 1] /\ t[k] = q[k] /\ k \in 1..Len(q)
      BY <2>1
    <3>. QED BY <3>1, <1>1 DEF Walk
  <2>2. CASE k > Len(q)
    <3>1. r[k] = b /\ r[k - 1] = b
      BY <2>2, <1>1
    <3>2. k \in (Len(q) + 1)..Len(t)
      BY <2>2
    <3>. QED BY <3>1, <3>2 DEF Step
  <2>. QED BY <2>1, <2>2
<1>. HIDE DEF r
<1>. QED BY <1>2, <1>3 DEF Leads, Walk

\* An answer to the oldest pending call leads one step further.
LEMMA LeadsAnswered ==
  ASSUME NEW q, NEW t, Len(q) \in Nat, Len(t) = Len(q), NEW i \in 1..Len(q),
         \A k \in 1..Len(q) : k # i => t[k] = q[k],
         \A k \in i..Len(q) : q[k].ans = Pending, t[i].ans # Pending,
         NEW a, NEW b, Leads(q, a, b)
  PROVE  Leads(t, a, After(t[i], b))
<1>1. PICK w : Walk(q, Len(q), a, w) /\ w[Len(q)] = b
  BY DEF Leads
<1>2. w[i - 1] = b
  <2>. DEFINE S == {d \in 0..(Len(q) - i + 1) : w[d + i - 1] = w[i - 1]}
  <2>1. 0 \in S
    OBVIOUS
  <2>2. ASSUME NEW d \in 1..(Len(q) - i + 1), d - 1 \in S PROVE d \in S
    <3>1. d + i - 1 \in i..Len(q) /\ (d + i - 1) - 1 = (d - 1) + i - 1
      OBVIOUS
    <3>2. w[d + i - 1] = w[(d + i - 1) - 1]
      BY <3>1, <1>1 DEF Walk, Step
    <3>. QED BY <2>2, <3>1, <3>2
  <2>3. Len(q) - i + 1 \in S
    <3>. HIDE DEF S
    <3>1. Len(q) - i + 1 \in Nat
      OBVIOUS
    <3>2. \A k \in 0..(Len(q) - i + 1) : k \in S
      BY <2>1, <2>2, <3>1, Reaches
    <3>. QED BY <3>1, <3>2
  <2>. QED BY <2>3, <1>1
<1>. DEFINE r == [k \in 0..Len(t) |-> IF k < i THEN w[k] ELSE After(t[i], b)]
<1>3. r[0] = a /\ r[Len(t)] = After(t[i], b)
  BY <1>1 DEF Walk
<1>4. ASSUME NEW k \in 1..Len(t) PROVE r[k] = Step(t[k], r[k - 1])
  <2>1. CASE k < i
    <3>1. r[k] = w[k] /\ r[k - 1] = w[k - 1] /\ t[k] = q[k] /\ k \in 1..Len(q)
      BY <2>1
    <3>. QED BY <3>1, <1>1 DEF Walk
  <2>2. CASE k = i
    <3>1. r[k] = After(t[i], b) /\ r[k - 1] = b
      BY <2>2, <1>2
    <3>. QED BY <2>2, <3>1 DEF Step
  <2>3. CASE k > i
    <3>1. r[k] = After(t[i], b) /\ r[k - 1] = After(t[i], b) /\ t[k] = q[k] /\ k \in i..Len(q)
      BY <2>3
    <3>. QED BY <3>1 DEF Step
  <2>. QED BY <2>1, <2>2, <2>3
<1>. HIDE DEF r
<1>. QED BY <1>3, <1>4 DEF Leads, Walk

\* The oldest call settled: what it makes leads to the same, with new calls or
\* without.
LEMMA LeadsSettled ==
  ASSUME NEW q, Len(q) \in Nat, Len(q) > 0, NEW t, Len(t) \in Nat, Len(t) >= Len(q) - 1,
         \A k \in 1..(Len(q) - 1) : t[k] = q[k + 1],
         \A k \in Len(q)..Len(t) : t[k].ans = Pending,
         NEW a, NEW b, Leads(q, a, b)
  PROVE  Leads(t, Step(q[1], a), b)
<1>1. PICK w : Walk(q, Len(q), a, w) /\ w[Len(q)] = b
  BY DEF Leads
<1>. DEFINE r == [k \in 0..Len(t) |-> IF k <= Len(q) - 1 THEN w[k + 1] ELSE b]
<1>2. r[0] = Step(q[1], a)
  <2>1. r[0] = w[1] /\ w[1] = Step(q[1], w[1 - 1]) /\ w[0] = a
    BY <1>1 DEF Walk
  <2>. QED BY <2>1
<1>3. r[Len(t)] = b
  BY <1>1
<1>4. ASSUME NEW k \in 1..Len(t) PROVE r[k] = Step(t[k], r[k - 1])
  <2>1. CASE k <= Len(q) - 1
    <3>1. r[k] = w[k + 1] /\ r[k - 1] = w[k] /\ t[k] = q[k + 1] /\ k + 1 \in 1..Len(q) /\ (k + 1) - 1 = k
      BY <2>1
    <3>2. w[k + 1] = Step(q[k + 1], w[(k + 1) - 1])
      BY <3>1, <1>1 DEF Walk
    <3>. QED BY <3>1, <3>2
  <2>2. CASE k > Len(q) - 1
    <3>1. r[k] = b /\ r[k - 1] = b
      BY <2>2, <1>1
    <3>2. k \in Len(q)..Len(t)
      BY <2>2
    <3>. QED BY <3>1, <3>2 DEF Step
  <2>. QED BY <2>1, <2>2
<1>. HIDE DEF r
<1>. QED BY <1>2, <1>3, <1>4 DEF Leads, Walk
==============================================================================
