-------------------------- MODULE RnPolicy_proofs --------------------------
(***************************************************************************)
(* Machine-checked proofs about RnPolicy, for any width of numbers, any    *)
(* number of replays, any durations, numbers and API keys.                 *)
(***************************************************************************)
EXTENDS RnPolicy, Recursion, TLAPS

(***************************************************************************)
(* The inductive invariant                                                 *)
(***************************************************************************)

\* A schedule rn_parse_policy_schedule and the directive let through.
ScheduleHolds(gap) == gap.initial # 0 /\ Sound(gap)

\* A policy the horizon can be computed of.
PolicyHolds(p) ==
    p.unit # 0 /\ p.replays <= MaxReplays /\ ScheduleHolds(p.gap)

\* A policy has the shape its name says.
Named(name, p) ==
    /\ name = "standard" => p.replays = 1 /\ p.gap = Fixed(1) /\ p.final = 1
    /\ name = "single_round" => p.replays = 0 /\ p.gap = Fixed(1) /\ p.final = 0

Looping == step \in {"gap", "grow", "add"}

\* The running function has a policy to work on.
Working == step = "check" \/ Looping

\* While a directive is read, what it has set so far is valid.
OptionsHold ==
    /\ step = "options" =>
          /\ kind \in Names
          /\ policy.replays <= MaxReplays
          /\ kind # "custom" \/ "unit" \in seen => policy.unit # 0
          /\ kind # "custom" \/ "replay_gap" \in seen => ScheduleHolds(policy.gap)
    /\ Working \/ verdict # "none" => PolicyHolds(policy)
    /\ PolicyHolds(request_policy)

\* The directive is read once; loading checks what it stored.
NamesHold ==
    /\ Named(request_policy_kind, request_policy)
    /\ request_policy_kind # "standard" => request_policy_set
    /\ request_policy_kind = "custom" => seen = Options
    /\ kind \in Names /\ (step = "options" \/ Working) =>
          Named(kind, policy) /\ ~request_policy_set
    /\ kind = "custom" /\ Working => seen = Options
    /\ kind = "init" => policy = request_policy
    /\ Working => kind # "none"
    /\ step = "loaded" => kind = "init" /\ verdict = "ok"

\* The loops have added up the first gaps, without a wrap.
LoopHolds ==
    /\ step \in {"options", "check"} \/ Looping => verdict = "none"
    /\ Looping => /\ policy.unit <= limit
                  /\ round <= policy.replays + 1
                  /\ total = UnitsOf(policy.gap, round) /\ total <= MaxUnits
    /\ step \in {"grow", "add"} => round <= policy.replays
    /\ step = "grow" =>
          /\ policy.gap.kind = "exponential" /\ left <= round
          /\ value = Least(policy.gap.max,
                           policy.gap.initial
                             * Power(policy.gap.growth, round - left))
    /\ step = "add" => value = GapOf(policy.gap, round)

Inv == TypeOK /\ OptionsHold /\ NamesHold /\ LoopHolds /\ HorizonExact

(***************************************************************************)
(* Powers and sums                                                         *)
(***************************************************************************)

\* The recursive definition of Power, unfolded.
LEMMA PowerSteps ==
    ASSUME NEW b \in Nat
    PROVE  /\ Power(b, 0) = 1
           /\ \A k \in Nat : Power(b, k) \in Nat
           /\ \A k \in Nat \ {0} : Power(b, k) = Power(b, k - 1) * b
<1> DEFINE Step(f) == [k \in Nat |-> IF k = 0 THEN 1 ELSE f[k - 1] * b]
           c == CHOOSE f : f = Step(f)
           next == [k \in Nat \ {0} |-> [s \in Nat |-> s * b]]
<1>1. \A k \in Nat \ {0} : \A s \in Nat : next[k][s] \in Nat
  OBVIOUS
<1>2. PICK f \in [Nat -> Nat] : FollowsOn(f, 1, next)
  <2> HIDE DEF next
  <2>1. 1 \in Nat
    OBVIOUS
  <2>2. QED
    BY <1>1, <2>1, RecursiveOnNat, Zenon
<1>3. f[0] = 1
  BY <1>2, Zenon DEF FollowsOn
<1>4. ASSUME NEW k \in Nat \ {0}
      PROVE  f[k] = f[k - 1] * b
  <2>1. k - 1 \in Nat /\ f[k - 1] \in Nat
    OBVIOUS
  <2>2. next[k][f[k - 1]] = f[k - 1] * b
    BY <2>1
  <2>3. QED
    BY <1>2, <2>2, Zenon DEF FollowsOn
<1> HIDE DEF next
<1>5. \A k : Power(b, k) = c[k]
  BY DEF Power
<1>6. f = Step(f)
  BY <1>3, <1>4
<1>7. c = Step(c)
  BY <1>6
<1> HIDE DEF c
<1>8. ASSUME NEW k \in Nat
      PROVE  c[k] = IF k = 0 THEN 1 ELSE c[k - 1] * b
  <2>1. Step(c)[k] = IF k = 0 THEN 1 ELSE c[k - 1] * b
    OBVIOUS
  <2>2. QED
    BY <1>7, <2>1
<1>9. ASSUME NEW n \in Nat
      PROVE  c[n] = f[n]
  <2>1. PICK z \in Int : z = 0
    OBVIOUS
  <2>2. Agree(c, f, z)
    BY <1>3, <1>8, <2>1 DEF Agree
  <2>3. ASSUME NEW k \in z + 1..n, Agree(c, f, k - 1)
        PROVE  Agree(c, f, k)
    <3>1. k \in Nat \ {0}
      BY <2>1
    <3>2. QED
      BY <1>4, <1>8, <2>3, <3>1 DEF Agree
  <2>4. n \in Int /\ n \in z..n
    BY <2>1
  <2>5. Agree(c, f, n)
    BY <2>2, <2>3, <2>4, SameUpTo
  <2>6. QED
    BY <2>5 DEF Agree
<1>10. \A k \in Nat : Power(b, k) = f[k]
  BY <1>5, <1>9
<1>11. ASSUME NEW k \in Nat \ {0}
       PROVE  Power(b, k) = Power(b, k - 1) * b
  <2>1. k - 1 \in Nat
    OBVIOUS
  <2>2. QED
    BY <1>4, <1>10, <2>1
<1>12. QED
  BY <1>3, <1>10, <1>11

\* A sequence that never steps down is nondecreasing.
LEMMA Nondecreasing ==
    ASSUME NEW f \in [Nat -> Nat], \A k \in Nat \ {0} : f[k - 1] <= f[k],
           NEW j \in Nat, NEW n \in Nat, j <= n
    PROVE  f[j] <= f[n]
<1> DEFINE T == {k \in Nat : f[j] <= f[k]}
<1>1. j \in T
  OBVIOUS
<1>2. ASSUME NEW k \in j + 1..n, k - 1 \in T
      PROVE  k \in T
  <2>1. k \in Nat \ {0} /\ k - 1 \in Nat
    OBVIOUS
  <2>2. f[j] <= f[k - 1] /\ f[k - 1] <= f[k]
    BY <1>2, <2>1
  <2>3. f[j] \in Nat /\ f[k - 1] \in Nat /\ f[k] \in Nat
    BY <2>1
  <2>4. f[j] <= f[k]
    BY <2>2, <2>3
  <2>5. QED
    BY <2>1, <2>4
<1>3. \A k \in T : f[j] <= f[k]
  OBVIOUS
<1> HIDE DEF T
<1>4. j \in Int /\ n \in Int /\ n \in j..n
  OBVIOUS
<1>5. n \in T
  BY <1>1, <1>2, <1>4, UpTo
<1>6. QED
  BY <1>3, <1>5

\* Powers of a factor that is not 0 do not fall.
LEMMA PowerGrows ==
    ASSUME NEW b \in Nat \ {0}, NEW j \in Nat, NEW n \in Nat, j <= n
    PROVE  Power(b, j) <= Power(b, n)
<1> DEFINE f == [k \in Nat |-> Power(b, k)]
<1>1. f \in [Nat -> Nat] /\ f[j] = Power(b, j) /\ f[n] = Power(b, n)
  BY PowerSteps
<1>2. ASSUME NEW k \in Nat \ {0}
      PROVE  f[k - 1] <= f[k]
  <2>1. k - 1 \in Nat /\ f[k - 1] = Power(b, k - 1) /\ f[k] = Power(b, k)
    OBVIOUS
  <2>2. Power(b, k) = Power(b, k - 1) * b /\ Power(b, k - 1) \in Nat
    BY <2>1, PowerSteps
  <2>3. \A x \in Nat : x <= x * b
    OBVIOUS
  <2>4. QED
    BY <2>1, <2>2, <2>3
<1> HIDE DEF f
<1>3. f[j] <= f[n]
  BY <1>1, <1>2, Nondecreasing
<1>4. QED
  BY <1>1, <1>3

\* A gap is a number of units; a schedule that holds starts with at least one.
LEMMA GapType ==
    ASSUME PolicyConstants, NEW gap \in Schedules, NEW k \in Nat
    PROVE  /\ GapOf(gap, k) \in Nat
           /\ ScheduleHolds(gap) => GapOf(gap, 0) >= 1
<1>1. /\ gap.kind \in {"fixed", "linear", "exponential"}
      /\ gap.initial \in Nat /\ gap.growth \in Nat /\ gap.max \in Nat
  BY DEF Schedules, U32, PolicyConstants, NumericConstants
<1>2. CASE gap.kind = "fixed"
  BY <1>1, <1>2 DEF GapOf, ScheduleHolds
<1>3. CASE gap.kind = "linear"
  <2>1. \A j : GapOf(gap, j) = Least(gap.max, gap.initial + j * gap.growth)
    BY <1>3 DEF GapOf
  <2>2. k * gap.growth \in Nat /\ 0 * gap.growth = 0
    BY <1>1
  <2>3. GapOf(gap, k) \in Nat
    BY <1>1, <2>1, <2>2 DEF Least
  <2>4. ASSUME ScheduleHolds(gap)
        PROVE  GapOf(gap, 0) >= 1
    BY <1>1, <2>1, <2>2, <2>4 DEF Least, ScheduleHolds, Sound
  <2>5. QED
    BY <2>3, <2>4
<1>4. CASE gap.kind = "exponential"
  <2>1. \A j : GapOf(gap, j) = Least(gap.max, gap.initial * Power(gap.growth, j))
    BY <1>4 DEF GapOf
  <2>2. Power(gap.growth, k) \in Nat /\ Power(gap.growth, 0) = 1
    BY <1>1, PowerSteps
  <2>3. gap.initial * Power(gap.growth, k) \in Nat
    BY <1>1, <2>2
  <2>4. gap.initial * Power(gap.growth, 0) = gap.initial
    BY <1>1, <2>2
  <2>5. GapOf(gap, k) \in Nat
    BY <1>1, <2>1, <2>3 DEF Least
  <2>6. ASSUME ScheduleHolds(gap)
        PROVE  GapOf(gap, 0) >= 1
    BY <1>1, <2>1, <2>4, <2>6 DEF Least, ScheduleHolds, Sound
  <2>7. QED
    BY <2>5, <2>6
<1>5. QED
  BY <1>1, <1>2, <1>3, <1>4

\* The recursive definition of UnitsOf, unfolded.
LEMMA UnitsSteps ==
    ASSUME PolicyConstants, NEW gap \in Schedules
    PROVE  /\ UnitsOf(gap, 0) = 0
           /\ \A k \in Nat : UnitsOf(gap, k) \in Nat
           /\ \A k \in Nat \ {0} :
                 UnitsOf(gap, k) = UnitsOf(gap, k - 1) + GapOf(gap, k - 1)
<1> DEFINE Step(f) == [k \in Nat |-> IF k = 0 THEN 0
                                     ELSE f[k - 1] + GapOf(gap, k - 1)]
           c == CHOOSE f : f = Step(f)
           next == [k \in Nat \ {0} |-> [s \in Nat |-> s + GapOf(gap, k - 1)]]
<1>1. \A k \in Nat \ {0} : \A s \in Nat : next[k][s] \in Nat
  <2>1. ASSUME NEW k \in Nat \ {0}, NEW s \in Nat
        PROVE  next[k][s] \in Nat
    <3>1. k - 1 \in Nat
      OBVIOUS
    <3>2. GapOf(gap, k - 1) \in Nat
      BY <3>1, GapType
    <3>3. QED
      BY <3>2
  <2>2. QED
    BY <2>1
<1>2. PICK f \in [Nat -> Nat] : FollowsOn(f, 0, next)
  <2> HIDE DEF next
  <2>1. 0 \in Nat
    OBVIOUS
  <2>2. QED
    BY <1>1, <2>1, RecursiveOnNat, Zenon
<1>3. f[0] = 0
  BY <1>2, Zenon DEF FollowsOn
<1>4. ASSUME NEW k \in Nat \ {0}
      PROVE  f[k] = f[k - 1] + GapOf(gap, k - 1)
  <2>1. k - 1 \in Nat /\ f[k - 1] \in Nat
    OBVIOUS
  <2>2. next[k][f[k - 1]] = f[k - 1] + GapOf(gap, k - 1)
    BY <2>1
  <2>3. QED
    BY <1>2, <2>2, Zenon DEF FollowsOn
<1> HIDE DEF next
<1>5. \A k : UnitsOf(gap, k) = c[k]
  BY DEF UnitsOf
<1>6. f = Step(f)
  BY <1>3, <1>4
<1>7. c = Step(c)
  BY <1>6
<1> HIDE DEF c
<1>8. ASSUME NEW k \in Nat
      PROVE  c[k] = IF k = 0 THEN 0 ELSE c[k - 1] + GapOf(gap, k - 1)
  <2>1. Step(c)[k] = IF k = 0 THEN 0 ELSE c[k - 1] + GapOf(gap, k - 1)
    OBVIOUS
  <2>2. QED
    BY <1>7, <2>1
<1>9. ASSUME NEW n \in Nat
      PROVE  c[n] = f[n]
  <2>1. PICK z \in Int : z = 0
    OBVIOUS
  <2>2. Agree(c, f, z)
    BY <1>3, <1>8, <2>1 DEF Agree
  <2>3. ASSUME NEW k \in z + 1..n, Agree(c, f, k - 1)
        PROVE  Agree(c, f, k)
    <3>1. k \in Nat \ {0}
      BY <2>1
    <3>2. QED
      BY <1>4, <1>8, <2>3, <3>1 DEF Agree
  <2>4. n \in Int /\ n \in z..n
    BY <2>1
  <2>5. Agree(c, f, n)
    BY <2>2, <2>3, <2>4, SameUpTo
  <2>6. QED
    BY <2>5 DEF Agree
<1>10. \A k \in Nat : UnitsOf(gap, k) = f[k]
  BY <1>5, <1>9
<1>11. ASSUME NEW k \in Nat \ {0}
       PROVE  UnitsOf(gap, k) = UnitsOf(gap, k - 1) + GapOf(gap, k - 1)
  <2>1. k - 1 \in Nat
    OBVIOUS
  <2>2. QED
    BY <1>4, <1>10, <2>1
<1>12. QED
  BY <1>3, <1>10, <1>11

\* More rounds take no less time, and the first gap at least a unit.
LEMMA UnitsGrow ==
    ASSUME PolicyConstants, NEW gap \in Schedules,
           NEW j \in Nat, NEW n \in Nat, j <= n
    PROVE  /\ UnitsOf(gap, j) <= UnitsOf(gap, n)
           /\ ScheduleHolds(gap) /\ n # 0 => UnitsOf(gap, n) >= 1
<1> DEFINE f == [k \in Nat |-> UnitsOf(gap, k)]
<1>1. f \in [Nat -> Nat] /\ \A k \in Nat : f[k] = UnitsOf(gap, k)
  BY UnitsSteps
<1> HIDE DEF f
<1>2. ASSUME NEW k \in Nat \ {0}
      PROVE  f[k - 1] <= f[k]
  <2>1. k - 1 \in Nat
    OBVIOUS
  <2>2. f[k] = f[k - 1] + GapOf(gap, k - 1)
    BY <1>1, <2>1, UnitsSteps
  <2>3. f[k - 1] \in Nat /\ GapOf(gap, k - 1) \in Nat
    BY <1>1, <2>1, GapType
  <2>4. QED
    BY <2>2, <2>3
<1>3. f[j] <= f[n]
  BY <1>1, <1>2, Nondecreasing
<1>4. ASSUME ScheduleHolds(gap), n # 0
      PROVE  UnitsOf(gap, n) >= 1
  <2>1. PICK one \in Nat : one = 1
    OBVIOUS
  <2>2. one \in Nat \ {0} /\ one - 1 = 0 /\ one <= n
    BY <1>4, <2>1
  <2>3. f[one] = f[0] + GapOf(gap, 0)
    BY <1>1, <2>2, UnitsSteps
  <2>4. f[0] = 0 /\ GapOf(gap, 0) >= 1 /\ GapOf(gap, 0) \in Nat
    BY <1>1, <1>4, UnitsSteps, GapType
  <2>5. f[one] <= f[n]
    BY <1>1, <1>2, <2>2, Nondecreasing
  <2>6. f[n] \in Nat /\ f[n] = UnitsOf(gap, n)
    BY <1>1
  <2>7. QED
    BY <2>3, <2>4, <2>5, <2>6
<1>5. QED
  BY <1>1, <1>3, <1>4

(***************************************************************************)
(* The guards of the 32-bit arithmetic                                     *)
(***************************************************************************)

\* What the guards compute: a product fits exactly if the factor is at most
\* the quotient.
LEMMA Quotient ==
    ASSUME NEW n \in Nat, NEW d \in Nat \ {0}
    PROVE  /\ n \div d \in Nat
           /\ \A x \in Nat : x <= n \div d <=> x * d <= n
<1> DEFINE q == n \div d
<1>1. q \in Nat /\ q * d <= n /\ n < (q + 1) * d
  OBVIOUS
<1> HIDE DEF q
<1>2. ASSUME NEW x \in Nat, x <= q
      PROVE  x * d <= n
  <2>1. x * d <= q * d
    BY <1>1, <1>2
  <2>2. x * d \in Nat /\ q * d \in Nat
    BY <1>1
  <2>3. QED
    BY <1>1, <2>1, <2>2
<1>3. ASSUME NEW x \in Nat, ~(x <= q)
      PROVE  ~(x * d <= n)
  <2>1. q + 1 \in Nat /\ q + 1 <= x
    BY <1>1, <1>3
  <2>2. (q + 1) * d <= x * d
    BY <2>1
  <2>3. x * d \in Nat /\ (q + 1) * d \in Nat
    BY <2>1
  <2>4. QED
    BY <1>1, <2>2, <2>3
<1>4. QED
  BY <1>1, <1>2, <1>3 DEF q

\* A value that fits is kept.
LEMMA TruncKeeps ==
    ASSUME PolicyConstants, NEW n \in 0..U32Max
    PROVE  Trunc(n) = n
BY DEF PolicyConstants, NumericConstants, Trunc

\* The linear schedule of rn_policy_schedule_units computes the documented gap.
LEMMA LinearExact ==
    ASSUME PolicyConstants, NEW gap \in Schedules, ScheduleHolds(gap),
           gap.kind = "linear", round \in Nat
    PROVE  LinearGap(gap) = GapOf(gap, round) /\ LinearGap(gap) \in U32
<1>1. /\ gap.initial \in Nat /\ gap.max \in Nat /\ gap.growth \in Nat \ {0}
      /\ gap.initial <= gap.max /\ gap.max <= U32Max /\ U32Max \in Nat
  BY DEF Schedules, U32, PolicyConstants, NumericConstants, ScheduleHolds, Sound
<1> DEFINE d == gap.max - gap.initial
           p == round * gap.growth
<1>2. d \in Nat /\ p \in Nat
  BY <1>1
<1>3. round <= d \div gap.growth <=> p <= d
  BY <1>1, <1>2, Quotient
<1>4. d \div gap.growth \in Nat
  BY <1>1, <1>2, Quotient
<1>5. GapOf(gap, round) = Least(gap.max, gap.initial + p)
  BY DEF GapOf
<1>6. CASE round > d \div gap.growth
  <2>1. ~(p <= d)
    BY <1>3, <1>4, <1>6
  <2>2. LinearGap(gap) = gap.max
    BY <1>6 DEF LinearGap
  <2> HIDE DEF p
  <2>3. Least(gap.max, gap.initial + p) = gap.max
    BY <1>1, <1>2, <2>1 DEF Least
  <2>4. QED
    BY <1>1, <1>5, <2>2, <2>3 DEF U32
<1>7. CASE ~(round > d \div gap.growth)
  <2>1. p <= d
    BY <1>3, <1>4, <1>7
  <2>2. LinearGap(gap) = Trunc(gap.initial + Trunc(p))
    BY <1>7 DEF LinearGap
  <2> HIDE DEF p
  <2>3. p \in 0..U32Max /\ gap.initial + p \in 0..U32Max
    BY <1>1, <1>2, <2>1
  <2>4. LinearGap(gap) = gap.initial + p
    BY <2>2, <2>3, TruncKeeps
  <2>5. Least(gap.max, gap.initial + p) = gap.initial + p
    BY <1>1, <1>2, <2>1 DEF Least
  <2>6. QED
    BY <1>5, <2>3, <2>4, <2>5 DEF U32
<1>8. QED
  BY <1>6, <1>7

\* One round of the inner loop: one more factor, up to the maximum.
LEMMA GrowExact ==
    ASSUME PolicyConstants, NEW gap \in Schedules, ScheduleHolds(gap),
           gap.kind = "exponential", NEW j \in Nat, NEW x,
           x = Least(gap.max, gap.initial * Power(gap.growth, j)), x < gap.max
    PROVE  LET y == IF x > gap.max \div gap.growth THEN gap.max
                    ELSE Trunc(x * gap.growth)
           IN  /\ y = Least(gap.max, gap.initial * Power(gap.growth, j + 1))
               /\ y \in U32
<1>1. /\ gap.initial \in Nat /\ gap.max \in Nat /\ gap.growth \in Nat \ {0}
      /\ gap.max <= U32Max /\ U32Max \in Nat
  BY DEF Schedules, U32, PolicyConstants, NumericConstants, ScheduleHolds, Sound
<1> DEFINE P == Power(gap.growth, j)
           Q == Power(gap.growth, j + 1)
<1>2. P \in Nat /\ Q \in Nat /\ Q = P * gap.growth
  <2>1. j + 1 \in Nat \ {0} /\ (j + 1) - 1 = j
    OBVIOUS
  <2>2. QED
    BY <1>1, <2>1, PowerSteps
<1> HIDE DEF P, Q
<1>3. gap.initial * P \in Nat
  BY <1>1, <1>2
<1>4. x = gap.initial * P /\ x \in Nat
  BY <1>1, <1>3 DEF Least, P
<1>5. gap.initial * Q = x * gap.growth
  <2>1. \A a, b, c \in Nat : a * (b * c) = (a * b) * c
    OBVIOUS
  <2>2. QED
    BY <1>1, <1>2, <1>4, <2>1
<1> DEFINE p == x * gap.growth
<1>6. p \in Nat
  BY <1>1, <1>4
<1>7. x <= gap.max \div gap.growth <=> p <= gap.max
  BY <1>1, <1>4, Quotient
<1>8. gap.max \div gap.growth \in Nat
  BY <1>1, Quotient
<1>9. CASE x > gap.max \div gap.growth
  <2>1. ~(p <= gap.max)
    BY <1>4, <1>7, <1>8, <1>9
  <2> HIDE DEF p
  <2>2. Least(gap.max, p) = gap.max
    BY <1>1, <1>6, <2>1 DEF Least
  <2>3. QED
    BY <1>1, <1>5, <1>9, <2>2 DEF U32, p, Q
<1>10. CASE ~(x > gap.max \div gap.growth)
  <2>1. p <= gap.max
    BY <1>4, <1>7, <1>8, <1>10
  <2> HIDE DEF p
  <2>2. Least(gap.max, p) = p /\ p \in 0..U32Max
    BY <1>1, <1>6, <2>1 DEF Least
  <2>3. Trunc(p) = p
    BY <2>2, TruncKeeps
  <2>4. QED
    BY <1>5, <1>10, <2>2, <2>3 DEF U32, p, Q
<1>11. QED
  BY <1>9, <1>10

\* The inner loop may end early: a gap that reached the maximum stays there.
LEMMA GrowEnds ==
    ASSUME PolicyConstants, NEW gap \in Schedules, ScheduleHolds(gap),
           gap.kind = "exponential", NEW j \in Nat, NEW k \in Nat, j <= k,
           NEW x, x = Least(gap.max, gap.initial * Power(gap.growth, j)),
           j = k \/ ~(x < gap.max)
    PROVE  x = GapOf(gap, k)
<1>1. /\ gap.initial \in Nat /\ gap.max \in Nat /\ gap.growth \in Nat \ {0}
  BY DEF Schedules, U32, PolicyConstants, NumericConstants, ScheduleHolds, Sound
<1> DEFINE P == Power(gap.growth, j)
           Q == Power(gap.growth, k)
<1>2. GapOf(gap, k) = Least(gap.max, gap.initial * Q)
  BY DEF GapOf
<1>3. CASE j = k
  BY <1>2, <1>3
<1>4. CASE ~(x < gap.max)
  <2>1. P \in Nat /\ Q \in Nat /\ P <= Q
    BY <1>1, PowerSteps, PowerGrows
  <2> HIDE DEF P, Q
  <2>2. \A a, b, c \in Nat : b <= c => a * b <= a * c
    OBVIOUS
  <2>3. gap.initial * P <= gap.initial * Q
    BY <1>1, <2>1, <2>2
  <2>4. gap.initial * P \in Nat /\ gap.initial * Q \in Nat
    BY <1>1, <2>1
  <2>5. x = Least(gap.max, gap.initial * P)
    BY DEF P
  <2>6. QED
    BY <1>1, <1>2, <1>4, <2>3, <2>4, <2>5 DEF Least
<1>5. QED
  BY <1>3, <1>4

(***************************************************************************)
(* Policies                                                                *)
(***************************************************************************)

\* The operators that have no variables of their own, in the next state.
LEMMA NextValues ==
    /\ UnitsOf(policy.gap, round)' = UnitsOf(policy'.gap, round')
    /\ GapOf(policy.gap, round)' = GapOf(policy'.gap, round')
    /\ Power(policy.gap.growth, round - left)'
         = Power(policy'.gap.growth, round' - left')
    /\ ExactHorizon(policy)' = ExactHorizon(policy')
    /\ \A a, b : Least(a, b)' = Least(a, b)
BY DEF UnitsOf, GapOf, Power, ExactHorizon, Least

\* What the parameters are.
LEMMA Limits ==
    ASSUME PolicyConstants
    PROVE  /\ U32Max \in Nat /\ U32Max >= 9 /\ 0 \in U32 /\ 1 \in U32
           /\ MaxReplays \in Nat /\ MaxReplays >= 1 /\ U32Max \in U32
           /\ DefaultUnit \in U32 /\ DefaultUnit # 0
BY DEF PolicyConstants, NumericConstants, U32

\* The fields of a policy are numbers.
LEMMA PolicyFields ==
    ASSUME PolicyConstants, NEW p \in Policies
    PROVE  /\ p.unit \in Nat /\ p.replays \in Nat /\ p.final \in Nat
           /\ p.gap \in Schedules
           /\ p.gap.kind \in {"fixed", "linear", "exponential"}
           /\ p.gap.initial \in U32 /\ p.gap.max \in U32 /\ p.gap.growth \in U32
BY Limits DEF Policies, Schedules, U32

\* A fixed schedule.
LEMMA FixedSchedule ==
    ASSUME PolicyConstants, NEW n \in U32
    PROVE  /\ Fixed(n) \in Schedules /\ Sound(Fixed(n)) /\ Fixed(n).initial = n
           /\ Fixed(n).kind = "fixed"
<1>1. n \in Nat /\ 0 \in U32
  BY Limits DEF U32
<1>2. /\ Fixed(n).kind = "fixed" /\ Fixed(n).initial = n /\ Fixed(n).max = n
      /\ Fixed(n) \in Schedules
  BY <1>1 DEF Fixed, Schedules
<1>3. QED
  BY <1>1, <1>2 DEF Sound

\* The policy a directive starts from is the one it names; standard and
\* single_round can be used as they are.
LEMMA NamedPolicies ==
    ASSUME PolicyConstants, NEW k \in Names
    PROVE  /\ NamedPolicy(k) \in Policies /\ Named(k, NamedPolicy(k))
           /\ NamedPolicy(k).replays <= MaxReplays
           /\ k # "custom" => PolicyHolds(NamedPolicy(k))
<1>1. /\ Fixed(0) \in Schedules /\ Fixed(1) \in Schedules /\ Sound(Fixed(1))
      /\ Fixed(1).initial = 1
  BY Limits, FixedSchedule
<1>2. /\ StandardPolicy \in Policies /\ StandardPolicy.unit # 0
      /\ StandardPolicy.replays = 1 /\ StandardPolicy.gap = Fixed(1)
      /\ StandardPolicy.final = 1
  BY <1>1, Limits DEF StandardPolicy, Policies
<1>3. CASE k = "standard"
  <2>1. NamedPolicy(k) = StandardPolicy
    BY <1>3 DEF NamedPolicy
  <2>2. QED
    BY <1>1, <1>2, <1>3, <2>1, Limits DEF Named, PolicyHolds, ScheduleHolds
<1>4. CASE k = "single_round"
  <2> DEFINE p == NamedPolicy(k)
  <2>1. p = [StandardPolicy EXCEPT !.replays = 0, !.final = 0]
    BY <1>4 DEF NamedPolicy
  <2>2. /\ p \in Policies /\ p.unit # 0 /\ p.replays = 0 /\ p.gap = Fixed(1)
        /\ p.final = 0
    BY <1>2, <2>1, Limits DEF Policies
  <2> HIDE DEF p
  <2>3. p.replays <= MaxReplays
    BY <2>2, Limits
  <2>4. PolicyHolds(p) /\ Named(k, p)
    BY <1>1, <1>4, <2>2, <2>3 DEF Named, PolicyHolds, ScheduleHolds
  <2>5. QED
    BY <2>2, <2>3, <2>4 DEF p
<1>5. CASE k = "custom"
  <2> DEFINE p == NamedPolicy(k)
  <2>1. p = [unit |-> 0, replays |-> 0, gap |-> Fixed(0), final |-> 0]
    BY <1>5 DEF NamedPolicy
  <2>2. p \in Policies /\ p.replays = 0
    BY <1>1, <2>1, Limits DEF Policies
  <2> HIDE DEF p
  <2>3. Named(k, p) /\ p.replays <= MaxReplays
    BY <1>5, <2>2, Limits DEF Named
  <2>4. QED
    BY <1>5, <2>2, <2>3 DEF p
<1>6. QED
  BY <1>3, <1>4, <1>5 DEF Names

\* The schedule a valid text denotes can be evaluated.
LEMMA ScheduleParsed ==
    ASSUME PolicyConstants, NEW t \in ScheduleTexts, ScheduleParses(t)
    PROVE  /\ Schedule(t) \in Schedules /\ Sound(Schedule(t))
           /\ Schedule(t).initial = t.nums[1]
<1>1. PICK n \in 1..3 : t.nums \in [1..n -> Numbers]
  BY DEF ScheduleTexts
<1> DEFINE nums == t.nums
<1>2. nums \in [1..n -> Numbers] /\ n \in Nat /\ Numbers \subseteq Nat
  <2>1. Numbers \subseteq Nat
    BY DEF PolicyConstants
  <2>2. QED
    BY <1>1, <2>1
<1> HIDE DEF nums
<1>3. /\ Len(nums) = n /\ DOMAIN nums = 1..n /\ t.nums = nums
      /\ \A j \in 1..n : nums[j] \in U32
  <2>1. Len(nums) = n /\ DOMAIN nums = 1..n
    BY <1>2
  <2>2. ASSUME NEW j \in 1..n
        PROVE  nums[j] \in U32
    <3>1. nums[j] \in Nat
      BY <1>2
    <3>2. nums[j] <= U32Max
      BY <2>1 DEF ScheduleParses, FitsU32, nums
    <3>3. QED
      BY <3>1, <3>2, Limits DEF U32
  <2>3. QED
    BY <2>1, <2>2 DEF nums
<1>4. CASE t.kind = "fixed"
  <2>1. 1 \in 1..n
    BY <1>1
  <2>2. Schedule(t) = Fixed(t.nums[1])
    BY <1>4 DEF Schedule
  <2>3. QED
    BY <1>3, <2>1, <2>2, FixedSchedule
<1>5. CASE t.kind # "fixed"
  <2>1. /\ n = 3 /\ t.nums[1] <= t.nums[3]
        /\ t.kind = "linear" => t.nums[2] # 0
        /\ t.kind = "exponential" => t.nums[2] >= 2
        /\ t.kind \in {"linear", "exponential"}
    BY <1>3, <1>5 DEF ScheduleParses
  <2>2. t.nums[1] \in U32 /\ t.nums[2] \in U32 /\ t.nums[3] \in U32
    BY <1>3, <2>1
  <2>3. Schedule(t) = [kind |-> t.kind, initial |-> t.nums[1],
                       growth |-> t.nums[2], max |-> t.nums[3]]
    BY <1>5 DEF Schedule
  <2>4. Schedule(t) \in Schedules /\ Schedule(t).initial = t.nums[1]
        /\ Schedule(t).kind = t.kind
        /\ Schedule(t).growth = t.nums[2] /\ Schedule(t).max = t.nums[3]
    BY <2>1, <2>2, <2>3 DEF Schedules
  <2>5. QED
    BY <2>1, <2>4 DEF Sound
<1>6. QED
  BY <1>4, <1>5

\* A valid option leaves a policy that is as valid.
LEMMA OptionKept ==
    ASSUME PolicyConstants, NEW p \in Policies, NEW option \in Options,
           NEW v \in ValuesOf(option), OptionValid(option, v)
    PROVE  LET q == WithOption(p, option, v)
           IN  /\ q \in Policies
               /\ p.replays <= MaxReplays => q.replays <= MaxReplays
               /\ option = "unit" => q.unit # 0
               /\ option # "unit" => q.unit = p.unit
               /\ option = "replay_gap" => ScheduleHolds(q.gap)
               /\ option # "replay_gap" => q.gap = p.gap
               /\ option = "unit" => q.replays = p.replays /\ q.final = p.final
<1> DEFINE q == WithOption(p, option, v)
<1>1. CASE option = "unit"
  <2>1. v \in U32 /\ v # 0
    BY <1>1, Limits DEF ValuesOf, OptionValid, FitsU32, PolicyConstants, U32
  <2>2. q = [p EXCEPT !.unit = v]
    BY <1>1 DEF WithOption
  <2>3. QED
    BY <1>1, <2>1, <2>2 DEF Policies
<1>2. CASE option = "replays"
  <2>1. v \in Nat /\ v <= MaxReplays
    BY <1>2 DEF ValuesOf, OptionValid, PolicyConstants
  <2>2. v \in U32
    BY <2>1 DEF PolicyConstants, NumericConstants, U32
  <2>3. q = [p EXCEPT !.replays = v]
    BY <1>2 DEF WithOption
  <2>4. QED
    BY <1>2, <2>1, <2>2, <2>3 DEF Policies
<1>3. CASE option = "replay_gap"
  <2>1. v \in ScheduleTexts /\ ScheduleParses(v) /\ v.nums[1] # 0
    BY <1>3 DEF ValuesOf, OptionValid
  <2>2. Schedule(v) \in Schedules /\ ScheduleHolds(Schedule(v))
    BY <2>1, ScheduleParsed DEF ScheduleHolds
  <2>3. q = [p EXCEPT !.gap = Schedule(v)]
    BY <1>3 DEF WithOption
  <2>4. q.gap = Schedule(v) /\ q.unit = p.unit /\ q.replays = p.replays
    BY <2>3 DEF Policies
  <2>5. q \in Policies
    BY <2>2, <2>3 DEF Policies
  <2>6. QED
    BY <1>3, <2>2, <2>4, <2>5
<1>4. CASE option = "final_wait_units"
  <2>1. v \in U32
    BY <1>4, Limits DEF ValuesOf, OptionValid, FitsU32, PolicyConstants, U32
  <2>2. q = [p EXCEPT !.final = v]
    BY <1>4 DEF WithOption
  <2>3. QED
    BY <1>4, <2>1, <2>2 DEF Policies
<1>5. CASE option = "completion_delivery"
  <2>1. q = p
    BY <1>5 DEF WithOption
  <2>2. QED
    BY <1>5, <2>1
<1>6. QED
  BY <1>1, <1>2, <1>3, <1>4, <1>5 DEF Options

(***************************************************************************)
(* The directive                                                           *)
(***************************************************************************)

\* The predicates about policies, in the next state.
LEMMA NextPredicates ==
    /\ PolicyHolds(policy)' <=> PolicyHolds(policy')
    /\ PolicyHolds(request_policy)' <=> PolicyHolds(request_policy')
    /\ ScheduleHolds(policy.gap)' <=> ScheduleHolds(policy'.gap)
    /\ Named(kind, policy)' <=> Named(kind', policy')
    /\ Named(request_policy_kind, request_policy)'
         <=> Named(request_policy_kind', request_policy')
<1>1. ScheduleHolds(policy.gap)' <=> ScheduleHolds(policy'.gap)
  BY DEF ScheduleHolds, Sound
<1>2. PolicyHolds(policy)' <=> PolicyHolds(policy')
  BY DEF PolicyHolds, ScheduleHolds, Sound
<1>3. PolicyHolds(request_policy)' <=> PolicyHolds(request_policy')
  BY DEF PolicyHolds, ScheduleHolds, Sound
<1>4. Named(kind, policy)' <=> Named(kind', policy')
  BY DEF Named, Fixed
<1>5. Named(request_policy_kind, request_policy)'
        <=> Named(request_policy_kind', request_policy')
  BY DEF Named, Fixed
<1>6. QED
  BY <1>1, <1>2, <1>3, <1>4, <1>5

\* A directive begins with the policy it names.
LEMMA DirectiveBeginsInv ==
    ASSUME PolicyConstants, Inv, NEW k \in Names, DirectiveBegins(k)
    PROVE  Inv'
<1>1. /\ step = "idle" /\ ~request_policy_set
      /\ kind' = k /\ policy' = NamedPolicy(k) /\ seen' = {}
      /\ step' = "options" /\ verdict' = "none"
      /\ request_policy' = request_policy /\ request_policy_set' = request_policy_set
      /\ request_policy_kind' = request_policy_kind
      /\ UNCHANGED <<limit, round, left, value, total, horizon>>
  BY DEF DirectiveBegins, mcf, loop
<1>2. policy' \in Policies /\ Named(k, policy') /\ policy'.replays <= MaxReplays
      /\ (k # "custom" => PolicyHolds(policy'))
  BY <1>1, NamedPolicies
<1>3. TypeOK'
  BY <1>1, <1>2 DEF Inv, TypeOK
<1>4. OptionsHold'
  <2>1. kind' # "custom" \/ "unit" \in seen' => policy'.unit # 0
    BY <1>1, <1>2 DEF PolicyHolds
  <2>2. kind' # "custom" \/ "replay_gap" \in seen' => ScheduleHolds(policy'.gap)
    BY <1>1, <1>2 DEF PolicyHolds
  <2>3. PolicyHolds(request_policy')
    BY <1>1 DEF Inv, OptionsHold
  <2>4. QED
    BY <1>1, <1>2, <2>1, <2>2, <2>3, NextPredicates
    DEF OptionsHold, Working, Looping
<1>5. NamesHold'
  <2>1. Named(request_policy_kind', request_policy')
        /\ request_policy_kind' = "standard"
    BY <1>1 DEF Inv, NamesHold, TypeOK
  <2>2. Named(kind', policy')
    BY <1>1, <1>2
  <2>3. kind' \in Names /\ kind' # "init"
    BY <1>1 DEF Names
  <2>4. QED
    BY <1>1, <2>1, <2>2, <2>3, NextPredicates DEF NamesHold, Working, Looping
<1>6. LoopHolds'
  BY <1>1 DEF LoopHolds, Looping
<1>7. HorizonExact'
  BY <1>1 DEF HorizonExact
<1>8. QED
  BY <1>3, <1>4, <1>5, <1>6, <1>7 DEF Inv

\* Reading stops; what was computed stays.
LEMMA GivesUp ==
    ASSUME PolicyConstants, Inv, step' = "failed",
           UNCHANGED <<directive, limit, loop, horizon, verdict>>
    PROVE  Inv'
<1>1. /\ UNCHANGED <<request_policy, request_policy_kind, request_policy_set,
                     kind, policy, seen, limit, round, left, value, total,
                     horizon, verdict>>
  BY DEF directive, mcf, loop
<1>2. TypeOK'
  BY <1>1 DEF Inv, TypeOK
<1>3. OptionsHold'
  BY <1>1, NextPredicates DEF Inv, OptionsHold, Working, Looping
<1>4. NamesHold'
  BY <1>1, NextPredicates DEF Inv, NamesHold, Working, Looping
<1>5. LoopHolds'
  BY <1>1 DEF LoopHolds, Looping
<1>6. HorizonExact'
  BY <1>1, NextValues DEF Inv, HorizonExact
<1>7. QED
  BY <1>2, <1>3, <1>4, <1>5, <1>6 DEF Inv

\* An option that is new, allowed and valid is set; any other ends the reading.
LEMMA OptionReadInv ==
    ASSUME PolicyConstants, Inv, NEW option \in Options,
           NEW v \in ValuesOf(option), OptionRead(option, v)
    PROVE  Inv'
<1>1. /\ step = "options"
      /\ UNCHANGED <<request_policy, request_policy_kind, request_policy_set,
                     kind, limit, round, left, value, total, horizon, verdict>>
  BY DEF OptionRead, mcf, loop
<1>2. CASE ~(/\ option \notin seen
             /\ option = "unit" \/ kind = "custom"
             /\ OptionValid(option, v))
  <2>1. step' = "failed" /\ UNCHANGED <<policy, seen>>
    BY <1>2 DEF OptionRead
  <2>2. UNCHANGED <<directive, limit, loop, horizon, verdict>>
    BY <1>1, <2>1 DEF directive, mcf, loop
  <2>3. QED
    BY <2>1, <2>2, GivesUp
<1>3. CASE /\ option \notin seen
           /\ option = "unit" \/ kind = "custom"
           /\ OptionValid(option, v)
  <2>1. policy' = WithOption(policy, option, v) /\ seen' = seen \cup {option}
        /\ step' = step
    BY <1>3 DEF OptionRead
  <2>2. /\ policy \in Policies /\ kind \in Names /\ verdict = "none"
        /\ policy.replays <= MaxReplays /\ ~request_policy_set
        /\ Named(kind, policy) /\ kind \notin {"init", "none"}
    BY <1>1 DEF Inv, TypeOK, OptionsHold, NamesHold, LoopHolds, Names
  <2>3. /\ policy' \in Policies /\ policy'.replays <= MaxReplays
        /\ option = "unit" => policy'.unit # 0
        /\ option # "unit" => policy'.unit = policy.unit
        /\ option = "replay_gap" => ScheduleHolds(policy'.gap)
        /\ option # "replay_gap" => policy'.gap = policy.gap
        /\ option = "unit" => /\ policy'.replays = policy.replays
                              /\ policy'.final = policy.final
    BY <1>3, <2>1, <2>2, OptionKept
  <2>4. TypeOK'
    BY <1>1, <2>1, <2>3 DEF Inv, TypeOK
  <2>5. OptionsHold'
    <3>1. kind # "custom" \/ "unit" \in seen' => policy'.unit # 0
      BY <1>1, <2>1, <2>3 DEF Inv, OptionsHold
    <3>2. kind # "custom" \/ "replay_gap" \in seen' => ScheduleHolds(policy'.gap)
      BY <1>1, <2>1, <2>3 DEF Inv, OptionsHold
    <3>3. PolicyHolds(request_policy')
      BY <1>1 DEF Inv, OptionsHold
    <3>4. QED
      BY <1>1, <2>1, <2>2, <2>3, <3>1, <3>2, <3>3, NextPredicates
      DEF OptionsHold, Working, Looping
  <2>6. NamesHold'
    <3>1. Named(kind, policy')
      <4>1. CASE kind = "custom"
        BY <4>1 DEF Named
      <4>2. CASE kind # "custom"
        <5>1. option = "unit" /\ policy'.gap = policy.gap
          BY <1>3, <2>3, <4>2
        <5>2. QED
          BY <2>2, <2>3, <5>1 DEF Named
      <4>3. QED
        BY <4>1, <4>2
    <3>2. Named(request_policy_kind', request_policy')
          /\ request_policy_kind = "standard"
      BY <1>1, <2>2 DEF Inv, NamesHold, TypeOK
    <3>3. QED
      BY <1>1, <2>1, <2>2, <3>1, <3>2, NextPredicates DEF NamesHold, Working, Looping
  <2>7. LoopHolds'
    BY <1>1, <2>1, <2>2 DEF LoopHolds, Looping
  <2>8. HorizonExact'
    BY <1>1, <2>2 DEF HorizonExact
  <2>9. QED
    BY <2>4, <2>5, <2>6, <2>7, <2>8 DEF Inv
<1>4. QED
  BY <1>2, <1>3

\* A custom policy got every option, so that it can be used.
LEMMA OptionsEndInv ==
    ASSUME PolicyConstants, Inv, OptionsEnd
    PROVE  Inv'
<1>1. /\ step = "options"
      /\ UNCHANGED <<request_policy, request_policy_kind, request_policy_set,
                     kind, policy, seen, round, left, value, total, horizon,
                     verdict>>
  BY DEF OptionsEnd, directive, mcf, loop
<1>2. CASE ~Complete
  <2>1. step' = "failed" /\ limit' = limit
    BY <1>2 DEF OptionsEnd
  <2>2. UNCHANGED <<directive, limit, loop, horizon, verdict>>
    BY <1>1, <2>1 DEF directive, mcf, loop
  <2>3. QED
    BY <2>1, <2>2, GivesUp
<1>3. CASE Complete
  <2>1. step' = "check" /\ limit' = U32Max
    BY <1>3 DEF OptionsEnd
  <2>2. /\ verdict = "none" /\ kind \in Names /\ kind \notin {"init", "none"}
        /\ PolicyHolds(request_policy)
    BY <1>1 DEF Inv, OptionsHold, LoopHolds, Names
  <2>3. kind = "custom" => seen = Options
    BY <1>3 DEF Complete
  <2>4. PolicyHolds(policy)
    BY <1>1, <2>3 DEF Inv, OptionsHold, PolicyHolds, Options
  <2>5. TypeOK'
    BY <1>1, <2>1, Limits DEF Inv, TypeOK
  <2>6. OptionsHold'
    BY <1>1, <2>1, <2>2, <2>4, NextPredicates DEF OptionsHold
  <2>7. NamesHold'
    BY <1>1, <2>1, <2>2, <2>3, NextPredicates DEF Inv, NamesHold, Working, Looping
  <2>8. LoopHolds'
    BY <1>1, <2>1, <2>2 DEF LoopHolds, Looping
  <2>9. HorizonExact'
    BY <1>1, <2>2 DEF HorizonExact
  <2>10. QED
    BY <2>5, <2>6, <2>7, <2>8, <2>9 DEF Inv
<1>4. QED
  BY <1>2, <1>3

\* ngx_http_rn_init checks the stored policy against the key.
LEMMA PostconfigurationInv ==
    ASSUME PolicyConstants, Inv, NEW ttl \in KeyTtls, Postconfiguration(ttl)
    PROVE  Inv'
<1>1. /\ policy' = request_policy /\ kind' = "init"
      /\ step' = "check" /\ verdict' = "none"
      /\ limit' = IF ttl = 0 THEN U32Max ELSE ttl
      /\ UNCHANGED <<request_policy, request_policy_kind, request_policy_set,
                     seen, round, left, value, total, horizon>>
  BY DEF Postconfiguration, mcf, loop
<1>2. limit' \in U32
  BY <1>1, Limits DEF PolicyConstants
<1>3. TypeOK'
  BY <1>1, <1>2 DEF Inv, TypeOK
<1>4. PolicyHolds(policy') /\ PolicyHolds(request_policy')
  BY <1>1 DEF Inv, OptionsHold
<1>5. OptionsHold'
  BY <1>1, <1>4, NextPredicates DEF OptionsHold
<1>6. "init" \notin Names
  BY DEF Names
<1>7. NamesHold'
  BY <1>1, <1>6, NextPredicates DEF Inv, NamesHold, Working, Looping
<1>8. LoopHolds'
  BY <1>1 DEF LoopHolds, Looping
<1>9. HorizonExact'
  BY <1>1 DEF HorizonExact
<1>10. QED
  BY <1>3, <1>5, <1>7, <1>8, <1>9 DEF Inv

(***************************************************************************)
(* The horizon                                                             *)
(***************************************************************************)

\* What the loops work on.
LEMMA Given ==
    ASSUME PolicyConstants, Inv
    PROVE  /\ policy \in Policies /\ policy.gap \in Schedules
           /\ policy.unit \in Nat /\ policy.replays \in Nat /\ policy.final \in Nat
           /\ limit \in Nat /\ limit <= U32Max /\ U32Max \in Nat
           /\ round \in Nat /\ left \in Nat /\ value \in Nat /\ total \in Nat
BY Limits, PolicyFields DEF Inv, TypeOK, U32

\* A sum of units fits exactly if its milliseconds do.
LEMMA UnitsFit ==
    ASSUME PolicyConstants, Inv, policy.unit # 0, NEW n \in Nat
    PROVE  /\ n <= MaxUnits <=> policy.unit * n <= limit
           /\ MaxUnits \in Nat /\ policy.unit * n \in Nat
<1>1. policy.unit \in Nat \ {0} /\ limit \in Nat
  BY Given
<1>2. n * policy.unit = policy.unit * n /\ policy.unit * n \in Nat
  BY <1>1
<1>3. QED
  BY <1>1, <1>2, Quotient DEF MaxUnits

\* A sum that does not fit is part of the horizon, so that the horizon does
\* not fit.
LEMMA DoesNotFit ==
    ASSUME PolicyConstants, Inv, policy.unit # 0, NEW n \in Nat,
           n <= UnitsOf(policy.gap, policy.replays + 1) + policy.final,
           ~(n <= MaxUnits)
    PROVE  ExactHorizon(policy) > limit
<1> DEFINE s == UnitsOf(policy.gap, policy.replays + 1) + policy.final
<1>1. s \in Nat
  <2>1. policy.replays + 1 \in Nat /\ policy.gap \in Schedules /\ policy.final \in Nat
    BY Given
  <2>2. UnitsOf(policy.gap, policy.replays + 1) \in Nat
    BY <2>1, UnitsSteps
  <2>3. QED
    BY <2>1, <2>2
<1>2. ExactHorizon(policy) = policy.unit * s
  BY DEF ExactHorizon
<1> HIDE DEF s
<1>3. n <= s
  BY DEF s
<1>4. MaxUnits \in Nat /\ policy.unit * s \in Nat
      /\ (s <= MaxUnits <=> policy.unit * s <= limit)
  BY <1>1, UnitsFit
<1>5. ~(s <= MaxUnits)
  BY <1>1, <1>3, <1>4
<1>6. limit \in Nat
  BY Given
<1>7. QED
  BY <1>2, <1>4, <1>5, <1>6

\* The horizon call fails, rightly.
LEMMA HorizonErrorInv ==
    ASSUME PolicyConstants, Inv, Working, HorizonError,
           ExactHorizon(policy) > limit
    PROVE  Inv'
<1>1. /\ verdict' = "error" /\ step' = "failed"
      /\ UNCHANGED <<request_policy, request_policy_kind, request_policy_set,
                     kind, policy, seen, limit, round, left, value, total,
                     horizon>>
  BY DEF HorizonError, directive, mcf, loop
<1>2. TypeOK'
  BY <1>1 DEF Inv, TypeOK
<1>3. OptionsHold'
  BY <1>1, NextPredicates DEF Inv, OptionsHold
<1>4. NamesHold'
  BY <1>1, NextPredicates DEF Inv, NamesHold, Working, Looping
<1>5. LoopHolds'
  BY <1>1 DEF LoopHolds, Looping
<1>6. HorizonExact'
  BY <1>1, NextValues DEF HorizonExact
<1>7. QED
  BY <1>2, <1>3, <1>4, <1>5, <1>6 DEF Inv

\* Only a unit that is longer than the limit fails the first check: the other
\* conditions were met when the directive was read.
LEMMA CheckFailsInv ==
    ASSUME PolicyConstants, Inv, CheckFails
    PROVE  Inv'
<1>1. Working /\ HorizonError
  BY DEF CheckFails, Working
<1>2. PolicyHolds(policy)
  BY <1>1 DEF Inv, OptionsHold
<1>3. policy.unit > limit
  <2>1. policy.unit # 0 /\ ~(policy.replays > MaxReplays)
        /\ policy.gap.initial # 0
    BY <1>2, Given, Limits DEF PolicyHolds, ScheduleHolds
  <2>2. QED
    BY <2>1 DEF CheckFails
<1>4. UnitsOf(policy.gap, policy.replays + 1) \in Nat
      /\ UnitsOf(policy.gap, policy.replays + 1) >= 1
  <2>1. policy.replays + 1 \in Nat /\ policy.replays + 1 # 0
        /\ policy.gap \in Schedules
    BY Given
  <2>2. PICK n \in Nat : n = policy.replays + 1
    BY <2>1
  <2>3. n <= n /\ n # 0
    BY <2>1, <2>2
  <2>4. UnitsOf(policy.gap, n) \in Nat /\ UnitsOf(policy.gap, n) >= 1
    BY <1>2, <2>1, <2>3, UnitsSteps, UnitsGrow DEF PolicyHolds
  <2>5. QED
    BY <2>2, <2>4
<1>5. PICK one \in Nat : one = 1
  OBVIOUS
<1>6. one <= UnitsOf(policy.gap, policy.replays + 1) + policy.final
  BY <1>4, <1>5, Given
<1>7. policy.unit * one = policy.unit /\ policy.unit \in Nat /\ limit \in Nat
  BY <1>5, Given
<1>8. policy.unit # 0
  BY <1>2 DEF PolicyHolds
<1>9. ~(one <= MaxUnits)
  BY <1>3, <1>7, <1>8, UnitsFit
<1>10. ExactHorizon(policy) > limit
  BY <1>6, <1>8, <1>9, DoesNotFit
<1>11. QED
  BY <1>1, <1>10, HorizonErrorInv

\* A step of the loops leaves the policy and its limit alone.
LEMMA LoopStep ==
    ASSUME PolicyConstants, Inv, Working, Looping',
           UNCHANGED <<directive, limit, horizon, verdict>>,
           round' \in Nat, left' \in Nat, value' \in U32, total' \in Nat
    PROVE  TypeOK' /\ OptionsHold' /\ NamesHold' /\ HorizonExact'
<1>1. UNCHANGED <<request_policy, request_policy_kind, request_policy_set,
                  kind, policy, seen, limit, horizon, verdict>>
  BY DEF directive, mcf
<1>2. step' \in {"gap", "grow", "add"}
  BY DEF Looping
<1>3. verdict = "none"
  BY DEF Inv, LoopHolds, Working
<1>4. TypeOK'
  BY <1>1, <1>2 DEF Inv, TypeOK
<1>5. OptionsHold'
  BY <1>1, <1>2, NextPredicates DEF Inv, OptionsHold, Working
<1>6. NamesHold'
  BY <1>1, <1>2, NextPredicates DEF Inv, NamesHold, Working
<1>7. HorizonExact'
  BY <1>1, <1>3 DEF HorizonExact
<1>8. QED
  BY <1>4, <1>5, <1>6, <1>7

\* The loops begin with no gap added.
LEMMA CheckPassesInv ==
    ASSUME PolicyConstants, Inv, CheckPasses
    PROVE  Inv'
<1>1. /\ step = "check" /\ policy.unit # 0 /\ policy.unit <= limit
      /\ round' = 0 /\ total' = 0 /\ step' = "gap"
      /\ UNCHANGED <<directive, limit, left, value, horizon, verdict>>
  BY DEF CheckPasses
<1>2. policy' = policy /\ limit' = limit /\ verdict' = "none"
  BY <1>1 DEF directive, Inv, LoopHolds
<1>3. Working /\ Looping'
  BY <1>1 DEF Working, Looping
<1>4. TypeOK' /\ OptionsHold' /\ NamesHold' /\ HorizonExact'
  <2>1. round' \in Nat /\ left' \in Nat /\ value' \in U32 /\ total' \in Nat
    BY <1>1 DEF Inv, TypeOK
  <2>2. QED
    BY <1>1, <1>3, <2>1, LoopStep
<1>5. UnitsOf(policy.gap, round)' = 0
  BY <1>1, <1>2, Given, UnitsSteps, NextValues
<1>6. MaxUnits' = MaxUnits /\ MaxUnits \in Nat
  <2>1. MaxUnits' = MaxUnits
    BY <1>2 DEF MaxUnits
  <2>2. MaxUnits \in Nat
    <3>1. PICK n \in Nat : n = 0
      OBVIOUS
    <3>2. QED
      BY <1>1, <3>1, UnitsFit
  <2>3. QED
    BY <2>1, <2>2
<1>7. LoopHolds'
  <2>1. policy'.unit <= limit' /\ round' <= policy'.replays + 1
    BY <1>1, <1>2, Given
  <2>2. total' = UnitsOf(policy.gap, round)' /\ total' <= MaxUnits'
    BY <1>1, <1>5, <1>6
  <2>3. QED
    BY <1>1, <1>2, <2>1, <2>2 DEF LoopHolds, Looping
<1>8. QED
  BY <1>4, <1>7 DEF Inv

\* What holds in the loops.
LEMMA InLoop ==
    ASSUME PolicyConstants, Inv, Looping
    PROVE  /\ PolicyHolds(policy) /\ ScheduleHolds(policy.gap) /\ policy.unit # 0
           /\ policy.unit <= limit /\ round <= policy.replays + 1
           /\ total = UnitsOf(policy.gap, round) /\ total <= MaxUnits
           /\ MaxUnits \in Nat /\ verdict = "none" /\ Working
<1>1. Working
  BY DEF Working
<1>2. PolicyHolds(policy)
  BY <1>1 DEF Inv, OptionsHold
<1>3. policy.unit # 0 /\ ScheduleHolds(policy.gap)
  BY <1>2 DEF PolicyHolds
<1>4. MaxUnits \in Nat
  <2>1. PICK n \in Nat : n = 0
    OBVIOUS
  <2>2. QED
    BY <1>3, <2>1, UnitsFit
<1>5. QED
  BY <1>1, <1>2, <1>3, <1>4 DEF Inv, LoopHolds

\* The first value of a round: the gap itself, or what it grows from.
LEMMA GapInv ==
    ASSUME PolicyConstants, Inv, Gap
    PROVE  Inv'
<1> DEFINE gap == policy.gap
<1>1. /\ step = "gap" /\ round <= policy.replays
      /\ value' = (IF gap.kind = "linear" THEN LinearGap(gap) ELSE gap.initial)
      /\ left' = round
      /\ step' = (IF gap.kind = "exponential" THEN "grow" ELSE "add")
      /\ UNCHANGED <<directive, limit, round, total, horizon, verdict>>
  BY DEF Gap
<1>2. Looping /\ Looping' /\ policy' = policy
  BY <1>1 DEF Looping, directive
<1>3. /\ ScheduleHolds(gap) /\ policy.unit <= limit /\ round <= policy.replays + 1
      /\ total = UnitsOf(gap, round) /\ total <= MaxUnits /\ verdict = "none"
      /\ Working
  BY <1>2, InLoop
<1>4. /\ gap \in Schedules /\ round \in Nat /\ total \in Nat
      /\ gap.kind \in {"fixed", "linear", "exponential"}
      /\ gap.initial \in U32 /\ gap.max \in U32 /\ gap.growth \in U32
      /\ gap.initial \in Nat /\ gap.max \in Nat /\ gap.growth \in Nat
  BY Given, PolicyFields, Limits DEF U32
<1>5. value' \in U32
  BY <1>1, <1>3, <1>4, LinearExact
<1>6. TypeOK' /\ OptionsHold' /\ NamesHold' /\ HorizonExact'
  BY <1>1, <1>2, <1>3, <1>4, <1>5, LoopStep
<1>7. /\ UnitsOf(policy.gap, round)' = UnitsOf(gap, round)
      /\ GapOf(policy.gap, round)' = GapOf(gap, round)
      /\ MaxUnits' = MaxUnits
  BY <1>1, <1>2, NextValues DEF MaxUnits
<1>8. CASE gap.kind = "exponential"
  <2>1. round' - left' = 0
    BY <1>1, <1>4
  <2>2. Power(policy.gap.growth, round - left)' = 1
    BY <1>2, <1>4, <2>1, PowerSteps, NextValues
  <2>3. gap.initial * 1 = gap.initial /\ gap.initial <= gap.max
    BY <1>3, <1>4 DEF ScheduleHolds, Sound
  <2>4. value' = Least(gap.max, gap.initial * 1)
    BY <1>1, <1>4, <1>8, <2>3 DEF Least
  <2>5. value' = Least(policy.gap.max, policy.gap.initial
                         * Power(policy.gap.growth, round - left))'
    BY <1>2, <2>2, <2>4 DEF Least
  <2>6. left' <= round' /\ policy'.gap.kind = "exponential"
    BY <1>1, <1>2, <1>4, <1>8
  <2>7. LoopHolds'
    BY <1>1, <1>2, <1>3, <1>7, <1>8, <2>5, <2>6 DEF LoopHolds
  <2>8. QED
    BY <1>6, <2>7 DEF Inv
<1>9. CASE gap.kind # "exponential"
  <2>1. value' = GapOf(gap, round)
    <3>1. CASE gap.kind = "linear"
      BY <1>1, <1>3, <1>4, <3>1, LinearExact
    <3>2. CASE gap.kind = "fixed"
      BY <1>1, <3>2 DEF GapOf
    <3>3. QED
      BY <1>4, <1>9, <3>1, <3>2
  <2>2. LoopHolds'
    BY <1>1, <1>2, <1>3, <1>7, <1>9, <2>1 DEF LoopHolds
  <2>3. QED
    BY <1>6, <2>2 DEF Inv
<1>10. QED
  BY <1>8, <1>9

\* The inner loop multiplies once more, or ends with the gap of the round.
LEMMA GrowInv ==
    ASSUME PolicyConstants, Inv, Grow
    PROVE  Inv'
<1> DEFINE gap == policy.gap
<1>1. /\ step = "grow"
      /\ UNCHANGED <<directive, limit, round, total, horizon, verdict>>
  BY DEF Grow
<1>2. Looping /\ policy' = policy
  BY <1>1 DEF Looping, directive
<1>3. /\ ScheduleHolds(gap) /\ policy.unit <= limit /\ round <= policy.replays + 1
      /\ total = UnitsOf(gap, round) /\ total <= MaxUnits /\ verdict = "none"
      /\ Working
  BY <1>2, InLoop
<1>4. /\ round <= policy.replays /\ gap.kind = "exponential" /\ left <= round
      /\ value = Least(gap.max, gap.initial * Power(gap.growth, round - left))
  BY <1>1 DEF Inv, LoopHolds
<1>5. /\ gap \in Schedules /\ round \in Nat /\ total \in Nat /\ left \in Nat
      /\ gap.max \in Nat /\ value \in U32
  BY Given, PolicyFields, Limits DEF Inv, TypeOK, U32
<1>6. /\ UnitsOf(policy.gap, round)' = UnitsOf(gap, round)
      /\ GapOf(policy.gap, round)' = GapOf(gap, round)
      /\ MaxUnits' = MaxUnits
  BY <1>1, <1>2, NextValues DEF MaxUnits
<1> DEFINE j == round - left
<1>7. j \in Nat /\ j <= round
  BY <1>4, <1>5
<1>8. CASE left > 0 /\ value < gap.max
  <2>1. /\ value' = (IF value > gap.max \div gap.growth THEN gap.max
                     ELSE Trunc(value * gap.growth))
        /\ left' = left - 1 /\ step' = step
    BY <1>8 DEF Grow
  <2>2. /\ value' = Least(gap.max, gap.initial * Power(gap.growth, j + 1))
        /\ value' \in U32
    <3> HIDE DEF j, gap
    <3>1. value = Least(gap.max, gap.initial * Power(gap.growth, j))
      BY <1>4 DEF j
    <3>2. QED
      BY <1>3, <1>4, <1>5, <1>7, <1>8, <2>1, <3>1, GrowExact
  <2>3. round' - left' = j + 1 /\ left' \in Nat /\ left' <= round'
    BY <1>1, <1>4, <1>5, <1>8, <2>1
  <2>4. Looping'
    BY <1>1, <2>1 DEF Looping
  <2>5. TypeOK' /\ OptionsHold' /\ NamesHold' /\ HorizonExact'
    BY <1>1, <1>3, <1>5, <2>2, <2>3, <2>4, LoopStep
  <2>6. Power(policy.gap.growth, round - left)' = Power(gap.growth, j + 1)
    BY <1>2, <2>3, NextValues
  <2>7. value' = Least(policy.gap.max, policy.gap.initial
                         * Power(policy.gap.growth, round - left))'
    BY <1>2, <2>2, <2>6 DEF Least
  <2>8. LoopHolds'
    BY <1>1, <1>2, <1>3, <1>4, <1>6, <2>1, <2>3, <2>4, <2>7 DEF LoopHolds
  <2>9. QED
    BY <2>5, <2>8 DEF Inv
<1>9. CASE ~(left > 0 /\ value < gap.max)
  <2>1. step' = "add" /\ value' = value /\ left' = left
    BY <1>9 DEF Grow
  <2>2. value = GapOf(gap, round)
    <3>1. j = round \/ ~(value < gap.max)
      BY <1>5, <1>9
    <3> HIDE DEF j, gap
    <3>2. value = Least(gap.max, gap.initial * Power(gap.growth, j))
      BY <1>4 DEF j
    <3>3. QED
      BY <1>3, <1>4, <1>5, <1>7, <3>1, <3>2, GrowEnds
  <2>3. Looping'
    BY <2>1 DEF Looping
  <2>4. TypeOK' /\ OptionsHold' /\ NamesHold' /\ HorizonExact'
    BY <1>1, <1>3, <1>5, <2>1, <2>3, LoopStep
  <2>5. LoopHolds'
    BY <1>1, <1>2, <1>3, <1>4, <1>6, <2>1, <2>2, <2>3 DEF LoopHolds
  <2>6. QED
    BY <2>4, <2>5 DEF Inv
<1>10. QED
  BY <1>8, <1>9

\* The gap of a round is the difference of two partial sums of the horizon.
LEMMA RoundSum ==
    ASSUME PolicyConstants, Inv, step = "add"
    PROVE  /\ total + value = UnitsOf(policy.gap, round + 1)
           /\ total + value <= UnitsOf(policy.gap, policy.replays + 1)
           /\ UnitsOf(policy.gap, policy.replays + 1) \in Nat
<1>1. Looping
  BY DEF Looping
<1>2. /\ total = UnitsOf(policy.gap, round) /\ value = GapOf(policy.gap, round)
      /\ round <= policy.replays
  BY <1>1, InLoop DEF Inv, LoopHolds
<1>3. policy.gap \in Schedules /\ round \in Nat /\ policy.replays \in Nat
  BY Given
<1>4. PICK n \in Nat \ {0} : n = round + 1 /\ n - 1 = round
  BY <1>3
<1>5. UnitsOf(policy.gap, n) = total + value
  BY <1>2, <1>3, <1>4, UnitsSteps
<1>6. PICK m \in Nat : m = policy.replays + 1
  BY <1>3
<1>7. n <= m
  BY <1>2, <1>3, <1>4, <1>6
<1>8. UnitsOf(policy.gap, n) <= UnitsOf(policy.gap, m)
      /\ UnitsOf(policy.gap, m) \in Nat
  BY <1>3, <1>7, UnitsGrow, UnitsSteps
<1>9. QED
  BY <1>4, <1>5, <1>6, <1>8

\* A gap is refused only because the sum does not fit.
LEMMA RoundFailsInv ==
    ASSUME PolicyConstants, Inv, RoundFails
    PROVE  Inv'
<1>1. HorizonError /\ Unfit
  BY DEF RoundFails
<1>2. step = "gap" \/ step = "add"
  BY <1>1 DEF Unfit
<1>3. Looping
  BY <1>2 DEF Looping
<1>4. /\ ScheduleHolds(policy.gap) /\ policy.unit # 0 /\ MaxUnits \in Nat
      /\ total <= MaxUnits /\ Working
  BY <1>3, InLoop
<1>5. step = "add" /\ Exceeds(value)
  BY <1>1, <1>2, <1>4 DEF Unfit, ScheduleHolds
<1>6. PICK n \in Nat : n = total + value
  BY Given
<1>7. ~(n <= MaxUnits)
  BY <1>4, <1>5, <1>6, Given DEF Exceeds
<1>8. n <= UnitsOf(policy.gap, policy.replays + 1) + policy.final
  BY <1>5, <1>6, RoundSum, Given
<1>9. ExactHorizon(policy) > limit
  BY <1>4, <1>7, <1>8, DoesNotFit
<1>10. QED
  BY <1>1, <1>4, <1>9, HorizonErrorInv

\* The gap is added and the next round begins.
LEMMA AddInv ==
    ASSUME PolicyConstants, Inv, Add
    PROVE  Inv'
<1>1. /\ step = "add" /\ ~Exceeds(value)
      /\ total' = total + value /\ round' = round + 1 /\ step' = "gap"
      /\ UNCHANGED <<directive, limit, left, value, horizon, verdict>>
  BY DEF Add
<1>2. Looping /\ Looping' /\ policy' = policy
  BY <1>1 DEF Looping, directive
<1>3. /\ policy.unit <= limit /\ MaxUnits \in Nat /\ verdict = "none" /\ Working
  BY <1>2, InLoop
<1>4. /\ round \in Nat /\ total \in Nat /\ value \in Nat /\ left \in Nat
      /\ policy.replays \in Nat /\ round <= policy.replays
  BY <1>1, Given DEF Inv, LoopHolds
<1>5. TypeOK' /\ OptionsHold' /\ NamesHold' /\ HorizonExact'
  <2>1. round' \in Nat /\ left' \in Nat /\ value' \in U32 /\ total' \in Nat
    BY <1>1, <1>4 DEF Inv, TypeOK
  <2>2. QED
    BY <1>1, <1>2, <1>3, <2>1, LoopStep
<1>6. total' = UnitsOf(policy.gap, round)'
  BY <1>1, <1>2, RoundSum, NextValues
<1>7. total' <= MaxUnits'
  <2>1. MaxUnits' = MaxUnits
    BY <1>1, <1>2 DEF MaxUnits
  <2>2. QED
    BY <1>1, <1>3, <1>4, <2>1 DEF Exceeds
<1>8. round' <= policy'.replays + 1
  BY <1>1, <1>2, <1>4
<1>9. LoopHolds'
  BY <1>1, <1>2, <1>3, <1>6, <1>7, <1>8 DEF LoopHolds
<1>10. QED
  BY <1>5, <1>9 DEF Inv

\* After the last round the sum is that of the horizon.
LEMMA LastRound ==
    ASSUME PolicyConstants, Inv, step = "gap", round > policy.replays
    PROVE  /\ total = UnitsOf(policy.gap, policy.replays + 1) /\ total >= 1
           /\ Working /\ policy.unit # 0 /\ MaxUnits \in Nat /\ total <= MaxUnits
           /\ total \in Nat /\ policy.final \in Nat
<1>1. Looping
  BY DEF Looping
<1>2. /\ ScheduleHolds(policy.gap) /\ policy.unit # 0 /\ MaxUnits \in Nat
      /\ total <= MaxUnits /\ Working /\ round <= policy.replays + 1
      /\ total = UnitsOf(policy.gap, round)
  BY <1>1, InLoop
<1>3. /\ policy.gap \in Schedules /\ round \in Nat /\ policy.replays \in Nat
      /\ total \in Nat /\ policy.final \in Nat
  BY Given
<1>4. round = policy.replays + 1 /\ round # 0 /\ round <= round
  BY <1>2, <1>3
<1>5. UnitsOf(policy.gap, round) >= 1
  BY <1>2, <1>3, <1>4, UnitsGrow
<1>6. QED
  BY <1>2, <1>3, <1>4, <1>5

\* The final wait is refused only because the horizon does not fit.
LEMMA FinalFailsInv ==
    ASSUME PolicyConstants, Inv, FinalFails
    PROVE  Inv'
<1>1. /\ step = "gap" /\ round > policy.replays /\ HorizonError
      /\ Exceeds(policy.final) \/ total + policy.final = 0
  BY DEF FinalFails
<1>2. /\ total = UnitsOf(policy.gap, policy.replays + 1) /\ total >= 1
      /\ Working /\ policy.unit # 0 /\ MaxUnits \in Nat /\ total <= MaxUnits
      /\ total \in Nat /\ policy.final \in Nat
  BY <1>1, LastRound
<1>3. Exceeds(policy.final)
  BY <1>1, <1>2
<1>4. PICK n \in Nat : n = total + policy.final
  BY <1>2
<1>5. ~(n <= MaxUnits)
  BY <1>2, <1>3, <1>4 DEF Exceeds
<1>6. n <= UnitsOf(policy.gap, policy.replays + 1) + policy.final
  BY <1>2, <1>4
<1>7. ExactHorizon(policy) > limit
  BY <1>2, <1>5, <1>6, DoesNotFit
<1>8. QED
  BY <1>1, <1>2, <1>7, HorizonErrorInv

\* The horizon fits, and is the documented one.
LEMMA FinalInv ==
    ASSUME PolicyConstants, Inv, Final
    PROVE  Inv'
<1>1. /\ step = "gap" /\ round > policy.replays /\ ~Exceeds(policy.final)
      /\ total' = total + policy.final
      /\ horizon' = Trunc((total + policy.final) * policy.unit)
      /\ verdict' = "ok"
      /\ UNCHANGED <<kind, policy, seen, limit, round, left, value>>
  BY DEF Final
<1>2. /\ total = UnitsOf(policy.gap, policy.replays + 1) /\ total >= 1
      /\ Working /\ policy.unit # 0 /\ MaxUnits \in Nat /\ total <= MaxUnits
      /\ total \in Nat /\ policy.final \in Nat
  BY <1>1, LastRound
<1>3. PICK n \in Nat : n = total + policy.final
  BY <1>2
<1>4. n <= MaxUnits /\ n >= 1
  BY <1>1, <1>2, <1>3 DEF Exceeds
<1>5. policy.unit * n <= limit /\ policy.unit * n \in Nat
  BY <1>2, <1>4, UnitsFit
<1>6. n * policy.unit = policy.unit * n /\ policy.unit * n >= 1
  <2>1. policy.unit \in Nat /\ policy.unit >= 1
    BY <1>2, Given
  <2>2. \A a, b \in Nat : a >= 1 /\ b >= 1 => a * b >= 1 /\ a * b = b * a
    OBVIOUS
  <2>3. QED
    BY <1>4, <2>1, <2>2
<1>7. policy.unit * n \in 0..U32Max
  BY <1>5, Given
<1>8. horizon' = policy.unit * n
  BY <1>1, <1>3, <1>6, <1>7, TruncKeeps
<1>9. ExactHorizon(policy) = policy.unit * n
  BY <1>2, <1>3 DEF ExactHorizon
<1>10. HorizonExact'
  <2>1. horizon' = ExactHorizon(policy)' /\ horizon' \in 1..limit'
    BY <1>1, <1>5, <1>6, <1>8, <1>9, Given, NextValues
  <2>2. QED
    BY <1>1, <2>1 DEF HorizonExact
<1>11. PolicyHolds(policy) /\ PolicyHolds(request_policy) /\ kind # "none"
  BY <1>2 DEF Inv, OptionsHold, NamesHold
<1>12. horizon' \in U32 /\ total' \in Nat
  BY <1>1, <1>2, <1>7, <1>8 DEF U32
<1>13. CASE kind = "init"
  <2>1. step' = "loaded" /\ UNCHANGED <<request_policy, request_policy_kind,
                                        request_policy_set>>
    BY <1>13 DEF Final, mcf
  <2>2. TypeOK'
    BY <1>1, <1>12, <2>1 DEF Inv, TypeOK
  <2>3. OptionsHold'
    BY <1>1, <1>11, <2>1, NextPredicates DEF OptionsHold
  <2>4. NamesHold'
    BY <1>1, <1>13, <2>1, NextPredicates DEF Inv, NamesHold, Working, Looping
  <2>5. LoopHolds'
    BY <2>1 DEF LoopHolds, Looping
  <2>6. QED
    BY <1>10, <2>2, <2>3, <2>4, <2>5 DEF Inv
<1>14. CASE kind # "init"
  <2>1. /\ request_policy' = policy /\ request_policy_kind' = kind
        /\ request_policy_set' = TRUE /\ step' = "idle"
    BY <1>14 DEF Final
  <2>2. kind \in Names
    BY <1>11, <1>14 DEF Inv, TypeOK
  <2>3. TypeOK'
    BY <1>1, <1>12, <2>1, <2>2 DEF Inv, TypeOK
  <2>4. OptionsHold'
    BY <1>1, <1>11, <2>1, NextPredicates DEF OptionsHold
  <2>5. Named(kind, policy) /\ (kind = "custom" => seen = Options)
    BY <1>2, <2>2 DEF Inv, NamesHold
  <2>6. NamesHold'
    BY <1>1, <1>14, <2>1, <2>5, NextPredicates DEF NamesHold, Working, Looping
  <2>7. LoopHolds'
    BY <2>1 DEF LoopHolds, Looping
  <2>8. QED
    BY <1>10, <2>3, <2>4, <2>6, <2>7 DEF Inv
<1>15. QED
  BY <1>13, <1>14

(***************************************************************************)
(* The theorems                                                            *)
(***************************************************************************)

\* Before a directive is read the standard policy is in force.
LEMMA InvInit ==
    ASSUME PolicyConstants, Init
    PROVE  Inv
<1>1. /\ request_policy = StandardPolicy
      /\ request_policy_kind = "standard" /\ request_policy_set = FALSE
      /\ kind = "none" /\ policy = StandardPolicy /\ seen = {}
      /\ step = "idle" /\ limit = 0
      /\ round = 0 /\ left = 0 /\ value = 0 /\ total = 0
      /\ horizon = 0 /\ verdict = "none"
  BY DEF Init
<1>2. /\ StandardPolicy \in Policies /\ PolicyHolds(StandardPolicy)
      /\ Named("standard", StandardPolicy)
  <2>1. "standard" \in Names /\ NamedPolicy("standard") = StandardPolicy
    BY DEF Names, NamedPolicy
  <2>2. PICK k \in Names : k = "standard"
    BY <2>1
  <2>3. NamedPolicy(k) \in Policies /\ PolicyHolds(NamedPolicy(k))
        /\ Named(k, NamedPolicy(k))
    BY <2>2, NamedPolicies
  <2>4. QED
    BY <2>1, <2>2, <2>3
<1>3. TypeOK
  BY <1>1, <1>2, Limits DEF TypeOK, Names
<1>4. OptionsHold
  BY <1>1, <1>2 DEF OptionsHold, Working, Looping
<1>5. NamesHold
  BY <1>1, <1>2 DEF NamesHold, Working, Looping
<1>6. LoopHolds
  BY <1>1 DEF LoopHolds, Looping
<1>7. HorizonExact
  BY <1>1 DEF HorizonExact
<1>8. QED
  BY <1>3, <1>4, <1>5, <1>6, <1>7 DEF Inv

\* Every step keeps the invariant.
LEMMA InvStep ==
    ASSUME PolicyConstants, Inv, [Next]_vars
    PROVE  Inv'
<1>1. CASE UNCHANGED vars
  <2>1. UNCHANGED <<request_policy, request_policy_kind, request_policy_set,
                    kind, policy, seen, step, limit, round, left, value, total,
                    horizon, verdict>>
    BY <1>1 DEF vars, directive, mcf, loop
  <2>2. TypeOK'
    BY <2>1 DEF Inv, TypeOK
  <2>3. OptionsHold'
    BY <2>1, NextPredicates DEF Inv, OptionsHold, Working, Looping
  <2>4. NamesHold'
    BY <2>1, NextPredicates DEF Inv, NamesHold, Working, Looping
  <2>5. LoopHolds'
    <3>1. Least(policy.gap.max, policy.gap.initial
                  * Power(policy.gap.growth, round - left))'
            = Least(policy.gap.max, policy.gap.initial
                      * Power(policy.gap.growth, round - left))
      BY <2>1, NextValues DEF Least
    <3>2. MaxUnits' = MaxUnits
      BY <2>1 DEF MaxUnits
    <3>3. QED
      BY <2>1, <3>1, <3>2, NextValues DEF Inv, LoopHolds, Looping
  <2>6. HorizonExact'
    BY <2>1, NextValues DEF Inv, HorizonExact
  <2>7. QED
    BY <2>2, <2>3, <2>4, <2>5, <2>6 DEF Inv
<1>2. CASE DirectiveRefused
  BY <1>2, GivesUp DEF DirectiveRefused
<1>3. CASE \E k \in Names : DirectiveBegins(k)
  BY <1>3, DirectiveBeginsInv
<1>4. CASE \E option \in Options : \E v \in ValuesOf(option) : OptionRead(option, v)
  BY <1>4, OptionReadInv
<1>5. CASE \E ttl \in KeyTtls : Postconfiguration(ttl)
  BY <1>5, PostconfigurationInv
<1>6. CASE OptionsEnd \/ CheckFails \/ CheckPasses
  BY <1>6, OptionsEndInv, CheckFailsInv, CheckPassesInv
<1>7. CASE Gap \/ Grow \/ RoundFails \/ Add \/ FinalFails \/ Final
  BY <1>7, GapInv, GrowInv, RoundFailsInv, AddInv, FinalFailsInv, FinalInv
<1>8. QED
  BY <1>1, <1>2, <1>3, <1>4, <1>5, <1>6, <1>7 DEF Next

\* So it always holds.
LEMMA Invariant == Spec => []Inv
<1> USE PolicyAssumption
<1>1. Init => Inv
  BY InvInit
<1>2. Inv /\ [Next]_vars => Inv'
  BY InvStep
<1>3. QED
  BY <1>1, <1>2, PTL DEF Spec

\* Every variable of the policy directive and of the horizon loops keeps its
\* type: gaps and horizons stay within 32 bits.
THEOREM TypeCorrect == Spec => []TypeOK
<1> USE PolicyAssumption
<1>1. Inv => TypeOK
  BY DEF Inv
<1>2. QED
  BY <1>1, Invariant, PTL

\* The horizon of the two named policies.
LEMMA NamedHorizon ==
    ASSUME PolicyConstants, NEW p \in Policies, NEW name, Named(name, p)
    PROVE  /\ name = "standard" => ExactHorizon(p) = 3 * p.unit
           /\ name = "single_round" => ExactHorizon(p) = p.unit
<1>1. Fixed(1) \in Schedules /\ \A k : GapOf(Fixed(1), k) = 1
  <2>1. /\ Fixed(1) \in Schedules /\ Fixed(1).kind = "fixed"
        /\ Fixed(1).initial = 1
    BY Limits, FixedSchedule
  <2>2. QED
    BY <2>1 DEF GapOf
<1> DEFINE s(k) == UnitsOf(Fixed(1), k)
<1>2. /\ s(0) = 0
      /\ \A k \in Nat \ {0} : s(k) = s(k - 1) + 1
  BY <1>1, UnitsSteps
<1> HIDE DEF s
<1>3. s(1) = 1
  <2>1. s(1) = s(1 - 1) + 1
    BY <1>2
  <2>2. 1 - 1 = 0
    OBVIOUS
  <2>3. QED
    BY <1>2, <2>1, <2>2
<1>4. s(2) = 2
  <2>1. s(2) = s(2 - 1) + 1
    BY <1>2
  <2>2. 2 - 1 = 1
    OBVIOUS
  <2>3. QED
    BY <1>3, <2>1, <2>2
<1>5. p.unit \in Nat
  BY PolicyFields
<1>6. ASSUME name = "standard"
      PROVE  ExactHorizon(p) = 3 * p.unit
  <2>1. p.replays + 1 = 2 /\ p.gap = Fixed(1) /\ p.final = 1
    BY <1>6 DEF Named
  <2>2. ExactHorizon(p) = p.unit * (s(2) + 1)
    BY <2>1 DEF ExactHorizon, s
  <2>3. QED
    BY <1>4, <1>5, <2>2
<1>7. ASSUME name = "single_round"
      PROVE  ExactHorizon(p) = p.unit
  <2>1. p.replays + 1 = 1 /\ p.gap = Fixed(1) /\ p.final = 0
    BY <1>7 DEF Named
  <2>2. ExactHorizon(p) = p.unit * (s(1) + 0)
    BY <2>1 DEF ExactHorizon, s
  <2>3. QED
    BY <1>3, <1>5, <2>2
<1>8. QED
  BY <1>6, <1>7

\* A policy is accepted exactly when the documented sum of its gaps and its
\* final wait, times its unit, is within the limit, and that is the horizon
\* rn_policy_horizon_ms computes: none of its 32-bit operations wraps, and the
\* early end of the exponential loop and the saturated linear gap change
\* nothing.  A configuration runs with the policy its directive names.
THEOREM PolicyStaysExact == Spec => []PolicyExact
<1> USE PolicyAssumption
<1>1. ASSUME Inv
      PROVE  LoadedAsNamed
  <2>1. SUFFICES ASSUME step = "loaded" PROVE
          /\ request_policy_kind = "standard" => horizon = 3 * policy.unit
          /\ request_policy_kind = "single_round" => horizon = policy.unit
          /\ request_policy_kind = "custom" => seen = Options
    BY DEF LoadedAsNamed
  <2>2. /\ kind = "init" /\ verdict = "ok" /\ policy = request_policy
        /\ Named(request_policy_kind, policy)
        /\ request_policy_kind = "custom" => seen = Options
    BY <1>1, <2>1 DEF Inv, NamesHold
  <2>3. horizon = ExactHorizon(policy) /\ policy \in Policies
    BY <1>1, <2>2 DEF Inv, HorizonExact, TypeOK
  <2>4. QED
    BY <2>2, <2>3, NamedHorizon
<1>2. Inv => PolicyExact
  BY <1>1 DEF Inv, PolicyExact
<1>3. QED
  BY <1>2, Invariant, PTL
=============================================================================
