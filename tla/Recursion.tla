----------------------------- MODULE Recursion -----------------------------
(***************************************************************************)
(* Induction over an interval of numbers, and the existence of a function  *)
(* that is defined by recursion on it.  The models define what a loop      *)
(* computes as f[n \in a..b] == IF n = a THEN base ELSE ... f[n - 1] ...,   *)
(* which means: some f that satisfies this equation.  The proofs show with *)
(* Recursive that one exists, and with UpTo what its values are.           *)
(***************************************************************************)
EXTENDS Integers, WellFoundedInduction, TLAPS

\* A nonempty set of natural numbers has a least element.
LEMMA LeastNumber ==
    ASSUME NEW T \in SUBSET Nat, T # {}
    PROVE  \E x \in T : \A y \in T : x <= y
<1>1. IsWellFoundedOn(OpToRel(<, Nat), Nat)
  BY NatLessThanWellFounded, Zenon
<1> DEFINE R == OpToRel(<, Nat)
<1>2. \A a \in Nat, b \in Nat : a < b => <<a, b>> \in R
  BY DEF OpToRel
<1> HIDE DEF R
<1>3. PICK x \in T : \A y \in T : ~(<<y, x>> \in R)
  BY <1>1, WFMin, Zenon DEF R
<1>4. x \in Nat /\ \A y \in T : y \in Nat
  OBVIOUS
<1>5. ASSUME NEW y \in T
      PROVE  x <= y
  <2>1. ~(y < x)
    BY <1>2, <1>3, <1>4
  <2>2. QED
    BY <1>4, <2>1
<1>6. QED
  BY <1>5

\* Induction from a to b: what holds at a, and is handed on from each number
\* to the next, holds up to b.
LEMMA UpTo ==
    ASSUME NEW a \in Int, NEW b \in Int, NEW T, a \in T,
           \A k \in a + 1..b : k - 1 \in T => k \in T
    PROVE  \A k \in a..b : k \in T
<1> DEFINE B == {n \in Nat : a + n \in a..b /\ a + n \notin T}
<1> SUFFICES ASSUME NEW k \in a..b, k \notin T PROVE FALSE
  OBVIOUS
<1>1. k - a \in B
  <2>1. k - a \in Nat /\ a + (k - a) = k
    OBVIOUS
  <2>2. QED
    BY <2>1
<1>2. B \in SUBSET Nat /\ B # {}
  BY <1>1
<1>3. PICK n \in B : \A m \in B : n <= m
  BY <1>2, LeastNumber
<1>4. n \in Nat /\ a + n \in a..b /\ a + n \notin T
  BY <1>3
<1> HIDE DEF B
<1>5. n # 0
  BY <1>4
<1>6. n - 1 \in Nat /\ n - 1 \notin B
  BY <1>3, <1>4, <1>5, <1>2
<1>7. a + (n - 1) \in a..b /\ a + n \in a + 1..b /\ (a + n) - 1 = a + (n - 1)
  BY <1>4, <1>5
<1>8. a + (n - 1) \in T
  BY <1>6, <1>7 DEF B
<1>9. QED
  BY <1>4, <1>7, <1>8

Agree(f, g, k) == f[k] = g[k]

\* Two functions with the same start and the same way on are the same.
LEMMA SameUpTo ==
    ASSUME NEW a \in Int, NEW b \in Int, NEW f, NEW g, Agree(f, g, a),
           \A k \in a + 1..b : Agree(f, g, k - 1) => Agree(f, g, k)
    PROVE  \A k \in a..b : Agree(f, g, k)
<1> DEFINE T == {k \in Int : Agree(f, g, k)}
<1>1. a \in T
  OBVIOUS
<1>2. \A k \in a + 1..b : k - 1 \in T => k \in T
  OBVIOUS
<1>3. \A k \in T : Agree(f, g, k)
  OBVIOUS
<1> HIDE DEF T
<1>4. QED
  BY <1>1, <1>2, <1>3, UpTo

\* f[k] is computed from f[k - 1] by the k-th step.
Follows(f, a, b, base, step) ==
    f[a] = base /\ \A k \in a + 1..b : f[k] = step[k][f[k - 1]]

\* A function defined by recursion from a to b exists.
LEMMA Recursive ==
    ASSUME NEW S, NEW a \in Int, NEW b \in Int, a <= b, NEW base \in S,
           NEW step, \A k \in a + 1..b : \A s \in S : step[k][s] \in S
    PROVE  \E f \in [a..b -> S] : Follows(f, a, b, base, step)
<1> DEFINE Is(n, f) == f[a] = base /\ \A k \in a + 1..n : f[k] = step[k][f[k - 1]]
           Has(n) == \E f \in [a..n -> S] : Is(n, f)
           T == {n \in a..b : Has(n)}
<1>1. Has(a)
  <2>1. [k \in a..a |-> base] \in [a..a -> S] /\ Is(a, [k \in a..a |-> base])
    OBVIOUS
  <2>2. QED
    BY <2>1
<1>2. ASSUME NEW n \in a + 1..b, Has(n - 1)
      PROVE  Has(n)
  <2>1. PICK g \in [a..n - 1 -> S] : Is(n - 1, g)
    BY <1>2
  <2>2. n - 1 \in a..n - 1 /\ n \in a + 1..b /\ a \in a..n - 1 /\ n \notin a..n - 1
    BY <1>2
  <2> DEFINE last == step[n][g[n - 1]]
             f == [k \in a..n |-> IF k = n THEN last ELSE g[k]]
  <2>3. last \in S
    BY <2>1, <2>2
  <2> HIDE DEF last
  <2>4. \A k \in a..n : k # n => k \in a..n - 1
    BY <1>2
  <2>5. f \in [a..n -> S]
    BY <2>1, <2>3, <2>4
  <2>6. \A k \in a..n - 1 : f[k] = g[k]
    BY <1>2
  <2>7. f[n] = last
    BY <1>2
  <2> HIDE DEF f
  <2>8. f[a] = base
    BY <2>1, <2>2, <2>6
  <2>9. ASSUME NEW k \in a + 1..n
        PROVE  f[k] = step[k][f[k - 1]]
    <3>1. CASE k = n
      BY <2>2, <2>6, <2>7, <3>1 DEF last
    <3>2. CASE k # n
      <4>1. k \in a + 1..n - 1 /\ k \in a..n - 1 /\ k - 1 \in a..n - 1
        BY <1>2, <3>2
      <4>2. QED
        BY <2>1, <2>6, <4>1
    <3>3. QED
      BY <3>1, <3>2
  <2>10. QED
    BY <2>5, <2>8, <2>9
<1> HIDE DEF Has
<1>3. a \in T /\ \A n \in a + 1..b : n - 1 \in T => n \in T
  BY <1>1, <1>2
<1> HIDE DEF T
<1>4. \A n \in a..b : n \in T
  BY <1>3, UpTo
<1>5. Has(b)
  BY <1>4 DEF T
<1>6. QED
  BY <1>5 DEF Has, Follows

\* The same from 0 on without an end.
FollowsOn(f, base, step) ==
    f[0] = base /\ \A k \in Nat \ {0} : f[k] = step[k][f[k - 1]]

\* A function defined by recursion on the natural numbers exists.
LEMMA RecursiveOnNat ==
    ASSUME NEW S, NEW base \in S, NEW step,
           \A k \in Nat \ {0} : \A s \in S : step[k][s] \in S
    PROVE  \E f \in [Nat -> S] : FollowsOn(f, base, step)
<1>1. PICK z \in Int : z = 0
  OBVIOUS
<1> DEFINE G(n) == CHOOSE g \in [z..n -> S] : Follows(g, z, n, base, step)
           f == [n \in Nat |-> G(n)[n]]
<1>2. ASSUME NEW n \in Nat
      PROVE  G(n) \in [z..n -> S] /\ Follows(G(n), z, n, base, step)
  <2>1. n \in Int /\ z <= n
    BY <1>1
  <2>2. \A k \in z + 1..n : \A s \in S : step[k][s] \in S
    BY <1>1
  <2>3. \E g \in [z..n -> S] : Follows(g, z, n, base, step)
    BY <2>1, <2>2, Recursive
  <2>4. QED
    BY <2>3
<1> HIDE DEF G
<1>3. \A n \in Nat : f[n] = G(n)[n]
  OBVIOUS
<1>4. f \in [Nat -> S]
  <2>1. ASSUME NEW n \in Nat
        PROVE  G(n)[n] \in S
    <3>1. n \in z..n
      BY <1>1
    <3>2. QED
      BY <1>2, <3>1
  <2>2. QED
    BY <2>1
<1> HIDE DEF f
<1>5. f[0] = base
  BY <1>1, <1>2, <1>3 DEF Follows
<1>6. ASSUME NEW n \in Nat \ {0}
      PROVE  f[n] = step[n][f[n - 1]]
  <2> DEFINE g == G(n)
             h == G(n - 1)
  <2>1. n \in Nat /\ n - 1 \in Nat
    OBVIOUS
  <2>2. Follows(g, z, n, base, step) /\ Follows(h, z, n - 1, base, step)
    BY <1>2, <2>1
  <2> HIDE DEF g, h
  <2>3. Agree(g, h, z)
    BY <2>2 DEF Follows, Agree
  <2>4. ASSUME NEW k \in z + 1..n - 1, Agree(g, h, k - 1)
        PROVE  Agree(g, h, k)
    <3>1. k \in z + 1..n
      BY <1>1
    <3>2. QED
      BY <2>2, <2>4, <3>1 DEF Follows, Agree
  <2>5. n - 1 \in Int /\ n - 1 \in z..n - 1 /\ n \in z + 1..n
    BY <1>1
  <2>6. Agree(g, h, n - 1)
    BY <2>3, <2>4, <2>5, SameUpTo
  <2>7. g[n] = step[n][g[n - 1]]
    BY <2>2, <2>5 DEF Follows
  <2>8. f[n] = g[n] /\ f[n - 1] = h[n - 1]
    BY <1>3, <2>1 DEF g, h
  <2>9. QED
    BY <2>6, <2>7, <2>8 DEF Agree
<1>7. QED
  BY <1>4, <1>5, <1>6 DEF FollowsOn
=============================================================================
