-------------------------- MODULE RnRecords_proofs --------------------------
(***************************************************************************)
(* Machine-checked proofs about RnRecords, for any sources, any length of  *)
(* an answer, any width of numbers and every pattern of failed             *)
(* allocations.                                                            *)
(***************************************************************************)
EXTENDS RnRecords, Recursion, SequenceTheorems, TLAPS

(***************************************************************************)
(* The inductive invariant                                                 *)
(***************************************************************************)

Elements == Proper \cup Malformed

Entries == [source : Elements, ttl : U32]

Outs == [records : BOOLEAN, targets : BOOLEAN, count : Nat,
         target : SUBSET Nat, list : Seq(Entries)]

Types ==
    /\ TypeOK
    /\ answer \in Seq(Elements) /\ kept \in Seq(Proper) /\ out \in Outs

OwnSources == {Array("sources")}

\* What exists, and who points to it, at each step of the handlers.
Shape ==
    /\ pc \in {"done", "srv", "addr"} =>
          heap = {} /\ out = NoRecords /\ arrays = {}
    /\ pc \in {"records", "build_failed"} =>
          heap = OwnSources /\ out = NoRecords /\ arrays = OwnSources
    /\ pc = "targets" =>
          /\ heap = OwnSources \cup {Array("records")} /\ arrays = OwnSources
          /\ out = [NoRecords EXCEPT !.records = TRUE]
    /\ pc = "copy" =>
          /\ heap = OwnSources \cup Held(out) /\ arrays = OwnSources
          /\ out.records /\ out.targets /\ out.count = Len(answer)
          /\ out.target = 1..i - 1
    /\ pc = "srv_release" =>
          /\ heap = OwnSources \cup Held(out) /\ arrays = OwnSources
          /\ out.target \subseteq 1..out.count
    /\ pc \in {"compact", "addr_release"} => heap = arrays /\ out = NoRecords

\* An SRV record is a copy of its source, with the lifetime of the answer.
Copied(list, n) ==
    /\ Len(list) = n
    /\ \A k \in 1..n : /\ answer[k] \in Proper
                       /\ list[k] = [source |-> answer[k],
                                     ttl |-> TtlMsUntil(valid, now)]

\* An SRV answer may fail.
SrvMayFail == starved \/ \E k \in 1..Len(answer) : answer[k] \notin Proper

\* How far the copying has got, and what the client has been told.
Progress ==
    /\ pc = "done" => told = <<told[1]>>
    /\ pc \notin {"done", "srv_release", "addr_release"} => told = <<>>
    /\ pc \in {"srv", "records", "targets", "addr"} => i = 1 /\ kept = <<>>
    /\ pc \in {"targets", "records"} => out.list = <<>>
    /\ pc = "copy" => i \in 1..Len(answer) + 1 /\ Copied(out.list, i - 1)
    /\ pc = "build_failed" => SrvMayFail
    /\ pc = "srv_release" =>
          \/ told = <<Error>> /\ SrvMayFail
          \/ told = <<[rc |-> 0, list |-> out.list]>>
                /\ Copied(out.list, Len(answer))
    /\ pc = "compact" =>
          i \in 1..Len(answer) + 1 /\ kept = CopyableOf(answer, i - 1)
    /\ pc = "addr_release" =>
          \/ told = <<Error>> /\ (starved \/ Copyable = <<>>)
          \/ told = <<[rc |-> 0, list |-> Copyable]>> /\ Copyable # <<>>

Inv == Types /\ Shape /\ Progress

(***************************************************************************)
(* What can be copied                                                      *)
(***************************************************************************)

\* The recursive definition of CopyableOf, unfolded.
LEMMA CopyableSteps ==
    ASSUME NEW S, NEW a \in Seq(S)
    PROVE  /\ CopyableOf(a, 0) = <<>>
           /\ \A k \in 1..Len(a) :
                 CopyableOf(a, k) = IF a[k] \in Proper
                                    THEN Append(CopyableOf(a, k - 1), a[k])
                                    ELSE CopyableOf(a, k - 1)
<1> DEFINE n == Len(a)
           With(found, m) == IF a[m] \in Proper THEN Append(found, a[m]) ELSE found
           Step(f) == [m \in 0..n |-> IF m = 0 THEN <<>> ELSE With(f[m - 1], m)]
           c == CHOOSE f : f = Step(f)
           next == [k \in 0 + 1..n |-> [s \in Seq(Proper) |-> With(s, k)]]
<1>1. n \in Nat
  OBVIOUS
<1>2. \A k \in 0 + 1..n : \A s \in Seq(Proper) : next[k][s] \in Seq(Proper)
  BY <1>1
<1>3. PICK f \in [0..n -> Seq(Proper)] : Follows(f, 0, n, <<>>, next)
  <2> HIDE DEF next, n
  <2>1. <<>> \in Seq(Proper) /\ n \in Int /\ 0 \in Int /\ 0 <= n
    BY <1>1
  <2>2. QED
    BY <1>2, <2>1, Recursive, Zenon
<1>4. \A m \in 0..n : f[m] = IF m = 0 THEN <<>> ELSE With(f[m - 1], m)
  <2> HIDE DEF With
  <2>1. ASSUME NEW m \in 0 + 1..n
        PROVE  f[m] = With(f[m - 1], m)
    <3>1. m - 1 \in 0..n
      BY <1>1
    <3>2. f[m - 1] \in Seq(Proper)
      BY <3>1
    <3>3. next[m][f[m - 1]] = With(f[m - 1], m)
      BY <3>2
    <3>4. QED
      BY <1>3, <3>3, Zenon DEF Follows
  <2>2. \A m \in 0..n : m # 0 => m \in 0 + 1..n
    BY <1>1
  <2>3. f[0] = <<>>
    BY <1>3, Zenon DEF Follows
  <2>4. QED
    BY <2>1, <2>2, <2>3
<1> HIDE DEF next
<1>5. \A k : CopyableOf(a, k) = c[k]
  BY DEF CopyableOf
<1> HIDE DEF With
<1>6. f = Step(f)
  BY <1>4
<1>7. c = Step(c)
  BY <1>6
<1> HIDE DEF c
<1>8. ASSUME NEW m \in 0..n
      PROVE  c[m] = IF m = 0 THEN <<>> ELSE With(c[m - 1], m)
  <2>1. Step(c)[m] = IF m = 0 THEN <<>> ELSE With(c[m - 1], m)
    OBVIOUS
  <2>2. QED
    BY <1>7, <2>1
<1>9. CopyableOf(a, 0) = <<>>
  <2>1. 0 \in 0..n
    BY <1>1
  <2>2. QED
    BY <1>5, <1>8, <2>1
<1>10. ASSUME NEW k \in 1..n
       PROVE  CopyableOf(a, k) = IF a[k] \in Proper
                                 THEN Append(CopyableOf(a, k - 1), a[k])
                                 ELSE CopyableOf(a, k - 1)
  <2>1. k \in 0..n /\ k # 0
    BY <1>1
  <2>2. c[k] = With(c[k - 1], k)
    BY <1>8, <2>1
  <2>3. QED
    BY <1>5, <2>2 DEF With
<1>11. QED
  BY <1>9, <1>10

\* What can be copied of k elements is a list of proper ones; it is shorter
\* than k exactly if one of them is malformed, and else it is all of them.
CopyableIs(a, k) ==
    LET found == CopyableOf(a, k)
    IN  /\ found \in Seq(Proper) /\ Len(found) <= k
        /\ (\E j \in 1..k : a[j] \notin Proper) => Len(found) < k
        /\ (\A j \in 1..k : a[j] \in Proper) =>
              Len(found) = k /\ \A j \in 1..k : found[j] = a[j]

\* One more element keeps that.
LEMMA CopyableStep ==
    ASSUME NEW S, NEW a \in Seq(S), NEW k \in 1..Len(a), CopyableIs(a, k - 1)
    PROVE  CopyableIs(a, k)
<1> DEFINE before == CopyableOf(a, k - 1)
           found == CopyableOf(a, k)
<1>1. found = IF a[k] \in Proper THEN Append(before, a[k]) ELSE before
  BY CopyableSteps
<1>2. /\ before \in Seq(Proper) /\ Len(before) <= k - 1
      /\ (\E j \in 1..k - 1 : a[j] \notin Proper) => Len(before) < k - 1
      /\ (\A j \in 1..k - 1 : a[j] \in Proper) =>
            Len(before) = k - 1 /\ \A j \in 1..k - 1 : before[j] = a[j]
  BY DEF CopyableIs
<1>3. k \in Nat /\ k >= 1 /\ Len(before) \in Nat
  BY <1>2
<1>4. \A j \in 1..k : j = k \/ j \in 1..k - 1
  BY <1>3
<1>5. \A j \in 1..k - 1 : j \in 1..k
  BY <1>3
<1> HIDE DEF before, found
<1>6. CASE a[k] \in Proper
  <2>1. /\ found = Append(before, a[k]) /\ found \in Seq(Proper)
        /\ Len(found) = Len(before) + 1 /\ found[Len(before) + 1] = a[k]
        /\ \A j \in 1..Len(before) : found[j] = before[j]
    BY <1>1, <1>2, <1>6
  <2>2. (\E j \in 1..k : a[j] \notin Proper) => Len(found) < k
    BY <1>2, <1>3, <1>4, <1>6, <2>1
  <2>3. ASSUME \A j \in 1..k : a[j] \in Proper
        PROVE  Len(found) = k /\ \A j \in 1..k : found[j] = a[j]
    <3>1. Len(before) = k - 1 /\ \A j \in 1..k - 1 : before[j] = a[j]
      BY <1>2, <1>5, <2>3
    <3>2. QED
      BY <1>3, <1>4, <2>1, <3>1
  <2>4. Len(found) <= k
    BY <1>2, <1>3, <2>1
  <2>5. QED
    BY <2>1, <2>2, <2>3, <2>4 DEF CopyableIs, found
<1>7. CASE a[k] \notin Proper
  <2>1. k \in 1..k /\ found = before
    BY <1>1, <1>3, <1>7
  <2>2. Len(found) < k /\ found \in Seq(Proper)
    BY <1>2, <1>3, <2>1
  <2>3. ~ \A j \in 1..k : a[j] \in Proper
    BY <1>7, <2>1
  <2>4. Len(found) <= k
    BY <1>3, <2>1, <2>2
  <2>5. QED
    BY <2>2, <2>3, <2>4 DEF CopyableIs, found
<1>8. QED
  BY <1>6, <1>7

\* By induction it holds of every beginning of the answer.
LEMMA CopyableFacts ==
    ASSUME NEW S, NEW a \in Seq(S), NEW k \in 0..Len(a)
    PROVE  CopyableIs(a, k)
<1> DEFINE T == {j \in 0..Len(a) : CopyableIs(a, j)}
<1>1. Len(a) \in Nat
  OBVIOUS
<1>2. PICK z \in Int : z = 0
  OBVIOUS
<1>3. CopyableIs(a, 0)
  <2>1. CopyableOf(a, 0) = <<>>
    BY CopyableSteps
  <2> DEFINE found == CopyableOf(a, 0)
  <2> HIDE DEF found
  <2>2. found = <<>>
    BY <2>1 DEF found
  <2>3. found \in Seq(Proper)
    BY <2>2
  <2>4. Len(found) = 0
    BY <2>2
  <2>5. QED
    BY <2>3, <2>4 DEF CopyableIs, found
<1>4. z \in T
  BY <1>1, <1>2, <1>3
<1>5. ASSUME NEW j \in z + 1..Len(a), j - 1 \in T
      PROVE  j \in T
  <2>1. j \in 1..Len(a) /\ j \in 0..Len(a)
    BY <1>1, <1>2
  <2>2. CopyableIs(a, j - 1)
    BY <1>5
  <2>3. CopyableIs(a, j)
    BY <2>1, <2>2, CopyableStep
  <2>4. QED
    BY <2>1, <2>3
<1>6. \A j \in T : CopyableIs(a, j)
  OBVIOUS
<1>7. \A j \in z..Len(a) : j \in T
  <2> HIDE DEF T
  <2>1. Len(a) \in Int /\ \A j \in z + 1..Len(a) : j - 1 \in T => j \in T
    BY <1>1, <1>5
  <2>2. QED
    BY <1>4, <2>1, UpTo
<1> HIDE DEF T
<1>8. QED
  BY <1>2, <1>6, <1>7

(***************************************************************************)
(* Lifetimes                                                               *)
(***************************************************************************)

\* What the quotient of the limit and a second's milliseconds bounds.
LEMMA Division ==
    ASSUME NEW n \in Nat, NEW d \in Nat \ {0}
    PROVE  n \div d \in Nat /\ (n \div d) * d <= n /\ n < ((n \div d) + 1) * d
OBVIOUS

\* rn_numeric_ttl_ms_until saturates, and does not wrap.
LEMMA TtlSaturates ==
    ASSUME RecordsConstants, NEW v \in Nat, NEW t \in Nat
    PROVE  LET left == IF v > t THEN (v - t) * SecondMs ELSE 0
           IN  /\ TtlMsUntil(v, t) = IF left > U32Max THEN U32Max ELSE left
               /\ TtlMsUntil(v, t) \in U32
<1>1. U32Max \in Nat /\ SecondMs \in Nat \ {0}
  BY DEF RecordsConstants, NumericConstants
<1>2. CASE v <= t
  BY <1>1, <1>2 DEF TtlMsUntil, U32
<1>3. CASE ~(v <= t)
  <2> DEFINE d == v - t
             q == U32Max \div SecondMs
  <2>1. d \in Nat /\ q \in Nat /\ q * SecondMs <= U32Max
        /\ U32Max < (q + 1) * SecondMs
    BY <1>1, <1>3, Division
  <2>2. d * SecondMs \in Nat
    BY <1>1, <2>1
  <2> HIDE DEF d, q
  <2>3. CASE d > q
    <3>1. (q + 1) * SecondMs <= d * SecondMs
      BY <1>1, <2>1, <2>3
    <3>2. d * SecondMs > U32Max
      BY <1>1, <2>1, <2>2, <3>1
    <3>3. QED
      BY <1>1, <1>3, <2>3, <3>2 DEF TtlMsUntil, U32, d, q
  <2>4. CASE ~(d > q)
    <3>1. d * SecondMs <= q * SecondMs
      BY <1>1, <2>1, <2>4
    <3>2. d * SecondMs <= U32Max
      BY <1>1, <2>1, <2>2, <3>1
    <3>3. Trunc(d * SecondMs) = d * SecondMs
      BY <1>1, <2>2, <3>2 DEF Trunc
    <3>4. QED
      BY <1>1, <1>3, <2>2, <2>4, <3>2, <3>3 DEF TtlMsUntil, U32, d, q
  <2>5. QED
    BY <2>3, <2>4
<1>4. QED
  BY <1>2, <1>3

(***************************************************************************)
(* Blocks                                                                  *)
(***************************************************************************)

\* Blocks have different names.
LEMMA Distinct ==
    /\ Array("sources") # Array("records") /\ Array("sources") # Array("targets")
    /\ \A k : Target(k) # Array("sources")
BY DEF Array, Target

\* An rn_srv_records_t does not point to the handler's array; freeing it frees
\* all it points to, if its count covers its targets.
LEMMA HeldFacts ==
    ASSUME NEW o \in Outs
    PROVE  /\ Array("sources") \notin Held(o)
           /\ o.target \subseteq 1..o.count => Freed(o) = Held(o)
<1>1. Array("sources") \notin Held(o)
  BY Distinct DEF Held
<1>2. ASSUME o.target \subseteq 1..o.count
      PROVE  Freed(o) = Held(o)
  <2>1. {j \in o.target : j > o.count} = {}
    BY <1>2 DEF Outs
  <2>2. QED
    BY <2>1 DEF Freed
<1>3. QED
  BY <1>1, <1>2

\* A zeroed rn_srv_records_t points to nothing, so freeing it frees nothing.
LEMMA NoRecordsFacts ==
    /\ NoRecords \in Outs /\ Held(NoRecords) = {} /\ Freed(NoRecords) = {}
    /\ NoRecords.count = 0 /\ NoRecords.target = {} /\ NoRecords.list = <<>>
    /\ NoRecords.records = FALSE /\ NoRecords.targets = FALSE
<1>1. <<>> \in Seq(Entries)
  OBVIOUS
<1>2. QED
  BY <1>1 DEF NoRecords, Outs, Held, Freed

\* The blocks the handlers allocate.
LEMMA BlockTypes ==
    /\ \A name \in {"sources", "records", "targets", "addrs"} : Array(name) \in Blocks
    /\ \A k \in 1..MaxSources : Target(k) \in Blocks
BY DEF Blocks

(***************************************************************************)
(* The steps                                                               *)
(***************************************************************************)

\* The predicates of Progress depend on the answer and its lifetime only.
LEMMA SameAnswer ==
    ASSUME UNCHANGED <<answer, valid, now>>
    PROVE  /\ Copyable' = Copyable
           /\ \A list, n : Copied(list, n)' <=> Copied(list, n)
           /\ \A a, n : CopyableOf(a, n)' = CopyableOf(a, n)
<1>1. \A a, n : CopyableOf(a, n)' = CopyableOf(a, n)
  BY DEF CopyableOf
<1>2. Copyable' = Copyable
  BY <1>1 DEF Copyable, CopyableOf
<1>3. \A list, n : Copied(list, n)' <=> Copied(list, n)
  BY DEF Copied
<1>4. QED
  BY <1>1, <1>2, <1>3

\* nginx calls a handler when nothing is left of the last answer.
LEMMA CalledInv ==
    ASSUME RecordsConstants, Inv, NEW handler \in {"srv", "addr"},
           NEW a \in Answers, NEW v \in 0..MaxTime, NEW t \in 0..MaxTime,
           Called(handler, a, v, t)
    PROVE  Inv'
<1>1. /\ pc = "done" /\ answer' = a /\ valid' = v /\ now' = t
      /\ kept' = <<>> /\ i' = 1 /\ starved' = FALSE
      /\ told' = IF a = <<>> THEN <<Error>> ELSE <<>>
      /\ pc' = IF a = <<>> THEN "done" ELSE handler
      /\ heap' = heap /\ out' = out /\ arrays' = arrays
  BY DEF Called
<1>2. heap = {} /\ out = NoRecords /\ arrays = {}
  BY <1>1 DEF Inv, Shape
<1>3. MaxSources \in Nat /\ a \in Seq(Elements) /\ Len(a) <= MaxSources
  <2>1. MaxSources \in Nat
    BY DEF RecordsConstants
  <2>2. PICK n \in 0..MaxSources : a \in [1..n -> Elements]
    BY DEF Answers, Elements
  <2>3. n \in Nat
    BY <2>1
  <2>4. QED
    BY <2>1, <2>2, <2>3
<1>4. Types'
  <2>1. answer' \in Seq(Elements) /\ kept' \in Seq(Proper) /\ out' \in Outs
    BY <1>1, <1>2, <1>3, NoRecordsFacts
  <2>2. out'.count \in 0..Len(answer')
    BY <1>1, <1>2, <1>3, NoRecordsFacts
  <2>3. pc' \in {"done", "srv", "addr"}
    BY <1>1
  <2>4. i' \in 0..MaxSources + 1 /\ Len(kept') <= Len(answer')
    BY <1>1, <1>3
  <2>5. TypeOK'
    BY <1>1, <1>2, <1>3, <2>2, <2>3, <2>4, NoRecordsFacts DEF TypeOK
  <2>6. QED
    BY <2>1, <2>5 DEF Types
<1>5. Shape'
  BY <1>1, <1>2 DEF Shape
<1>6. Progress'
  BY <1>1 DEF Progress
<1>7. QED
  BY <1>4, <1>5, <1>6 DEF Inv

\* The handler's own array, or an error at once.
LEMMA SourcesInv ==
    ASSUME RecordsConstants, Inv, NEW ok \in BOOLEAN, Sources(ok)
    PROVE  Inv'
<1>1. /\ pc = "srv" /\ UNCHANGED <<answer, valid, now, out, kept, i>>
      /\ starved' = ~ok
      /\ ok => /\ heap' = heap \cup OwnSources /\ arrays' = OwnSources
               /\ pc' = "records" /\ told' = told
      /\ ~ok => /\ told' = Append(told, Error) /\ pc' = "done"
                /\ heap' = heap /\ arrays' = arrays
  BY DEF Sources, OwnSources
<1>2. /\ heap = {} /\ out = NoRecords /\ arrays = {} /\ told = <<>>
      /\ i = 1 /\ kept = <<>>
  BY <1>1 DEF Inv, Shape, Progress
<1>3. OwnSources \subseteq Blocks
  BY BlockTypes DEF OwnSources
<1>4. Types'
  BY <1>1, <1>2, <1>3 DEF Inv, Types, TypeOK
<1>5. Shape'
  BY <1>1, <1>2 DEF Shape
<1>6. Progress'
  BY <1>1, <1>2, NoRecordsFacts DEF Progress
<1>7. QED
  BY <1>4, <1>5, <1>6 DEF Inv

\* A build that fails gives back what it held.
LEMMA BuildFailsInv ==
    ASSUME RecordsConstants, Inv, BuildFails, pc \in {"records", "targets", "copy"},
           starved' \in BOOLEAN, starved' \/ \E k \in 1..Len(answer) : answer[k] \notin Proper
    PROVE  Inv'
<1>1. /\ heap' = heap \ Freed(out) /\ out' = NoRecords /\ pc' = "build_failed"
      /\ UNCHANGED <<answer, valid, now, arrays, kept, i, told>>
  BY DEF BuildFails, Cleared
<1>2. out \in Outs /\ told = <<>> /\ arrays = OwnSources
  BY DEF Inv, Types, Shape, Progress
<1>3. heap = OwnSources \cup Held(out) /\ out.target \subseteq 1..out.count
  <2>1. CASE pc = "records"
    BY <2>1, NoRecordsFacts DEF Inv, Shape
  <2>2. CASE pc = "targets"
    <3>1. /\ heap = OwnSources \cup {Array("records")}
          /\ out = [NoRecords EXCEPT !.records = TRUE]
      BY <2>2 DEF Inv, Shape
    <3>2. out.records = TRUE /\ out.targets = FALSE /\ out.target = {}
      BY <3>1 DEF NoRecords
    <3>3. Held(out) = {Array("records")}
      BY <3>2 DEF Held
    <3>4. QED
      BY <3>1, <3>2, <3>3
  <2>3. CASE pc = "copy"
    <3>1. /\ heap = OwnSources \cup Held(out) /\ out.count = Len(answer)
          /\ out.target = 1..i - 1 /\ i \in 1..Len(answer) + 1
      BY <2>3 DEF Inv, Shape, Progress
    <3>2. Len(answer) \in Nat
      BY DEF Inv, Types
    <3>3. QED
      BY <3>1, <3>2
  <2>4. QED
    BY <2>1, <2>2, <2>3
<1>4. heap' = OwnSources
  BY <1>1, <1>2, <1>3, HeldFacts DEF OwnSources
<1>5. Types'
  <2>1. heap' \subseteq Blocks
    BY <1>4, BlockTypes DEF OwnSources
  <2>2. out'.count \in 0..Len(answer)
    BY <1>1, NoRecordsFacts DEF Inv, Types
  <2>3. QED
    BY <1>1, <2>1, <2>2, NoRecordsFacts DEF Inv, Types, TypeOK
<1>6. Shape'
  BY <1>1, <1>2, <1>4 DEF Shape
<1>7. Progress'
  BY <1>1, <1>2 DEF Progress, SrvMayFail
<1>8. QED
  BY <1>5, <1>6, <1>7 DEF Inv

\* rn_srv_records_build allocates the records, or fails.
LEMMA RecordsInv ==
    ASSUME RecordsConstants, Inv, NEW ok \in BOOLEAN, Records(ok)
    PROVE  Inv'
<1>1. pc = "records" /\ starved' = ~ok
  BY DEF Records
<1>2. CASE ~ok
  <2>1. BuildFails
    BY <1>2 DEF Records
  <2>2. QED
    BY <1>1, <1>2, <2>1, BuildFailsInv
<1>3. CASE ok
  <2>1. /\ heap' = heap \cup {Array("records")}
        /\ out' = [out EXCEPT !.records = TRUE] /\ pc' = "targets"
        /\ UNCHANGED <<answer, valid, now, arrays, kept, i, told>>
    BY <1>3 DEF Records
  <2>2. /\ heap = OwnSources /\ out = NoRecords /\ arrays = OwnSources
        /\ told = <<>> /\ i = 1 /\ kept = <<>>
    BY <1>1 DEF Inv, Shape, Progress
  <2>3. /\ out'.records = TRUE /\ out'.targets = FALSE /\ out'.count = 0
        /\ out'.target = {} /\ out'.list = <<>> /\ out' \in Outs
    <3>1. <<>> \in Seq(Entries)
      OBVIOUS
    <3>2. QED
      BY <2>1, <2>2, <3>1 DEF NoRecords, Outs
  <2>4. Types'
    <3>1. heap' \subseteq Blocks
      BY <2>1, BlockTypes DEF Inv, Types, TypeOK
    <3>2. out'.count \in 0..Len(answer)
      BY <2>3 DEF Inv, Types
    <3>3. QED
      BY <1>1, <2>1, <2>3, <3>1, <3>2 DEF Inv, Types, TypeOK
  <2>5. Shape'
    BY <2>1, <2>2 DEF Shape
  <2>6. Progress'
    BY <2>1, <2>2, <2>3 DEF Progress
  <2>7. QED
    BY <2>4, <2>5, <2>6 DEF Inv
<1>4. QED
  BY <1>2, <1>3

\* Then the targets: the count covers all there will be.
LEMMA TargetsInv ==
    ASSUME RecordsConstants, Inv, NEW ok \in BOOLEAN, Targets(ok)
    PROVE  Inv'
<1>1. pc = "targets" /\ starved' = ~ok
  BY DEF Targets
<1>2. CASE ~ok
  <2>1. BuildFails
    BY <1>2 DEF Targets
  <2>2. QED
    BY <1>1, <1>2, <2>1, BuildFailsInv
<1>3. CASE ok
  <2>1. /\ heap' = heap \cup {Array("targets")}
        /\ out' = [out EXCEPT !.targets = TRUE, !.count = Len(answer)]
        /\ pc' = "copy"
        /\ UNCHANGED <<answer, valid, now, arrays, kept, i, told>>
    BY <1>3 DEF Targets, Count
  <2>2. /\ heap = OwnSources \cup {Array("records")} /\ arrays = OwnSources
        /\ out = [NoRecords EXCEPT !.records = TRUE]
        /\ told = <<>> /\ i = 1 /\ kept = <<>>
    BY <1>1 DEF Inv, Shape, Progress
  <2>3. Len(answer) \in Nat
    BY DEF Inv, Types
  <2>4. /\ out'.records = TRUE /\ out'.targets = TRUE /\ out'.count = Len(answer)
        /\ out'.target = {} /\ out'.list = <<>> /\ out' \in Outs
    <3>1. <<>> \in Seq(Entries)
      OBVIOUS
    <3>2. QED
      BY <2>1, <2>2, <2>3, <3>1 DEF NoRecords, Outs
  <2>5. Types'
    <3>1. heap' \subseteq Blocks
      BY <2>1, BlockTypes DEF Inv, Types, TypeOK
    <3>2. out'.count \in 0..Len(answer)
      BY <2>3, <2>4
    <3>3. QED
      BY <1>1, <2>1, <2>4, <3>1, <3>2 DEF Inv, Types, TypeOK
  <2>6. Held(out)' = {Array("records"), Array("targets")}
    BY <2>4 DEF Held
  <2>7. 1..i' - 1 = {}
    BY <2>1, <2>2
  <2>8. Shape'
    BY <2>1, <2>2, <2>4, <2>6, <2>7 DEF Shape
  <2>9. Copied(out.list, i - 1)'
    <3>1. Len(out'.list) = 0 /\ i' - 1 = 0
      BY <2>1, <2>2, <2>4
    <3>2. QED
      BY <3>1 DEF Copied
  <2>10. Progress'
    BY <2>1, <2>2, <2>3, <2>9 DEF Progress
  <2>11. QED
    BY <2>5, <2>8, <2>10 DEF Inv
<1>4. QED
  BY <1>2, <1>3

\* One record is copied, or the build fails with some targets allocated.
LEMMA CopyInv ==
    ASSUME RecordsConstants, Inv, NEW ok \in BOOLEAN, Copy(ok)
    PROVE  Inv'
<1>1. /\ pc = "copy" /\ i <= Len(answer)
      /\ starved' = (answer[i] \in Proper /\ ~ok)
  BY DEF Copy, Copies
<1>2. /\ heap = OwnSources \cup Held(out) /\ arrays = OwnSources
      /\ out.records /\ out.targets /\ out.count = Len(answer)
      /\ out.target = 1..i - 1 /\ told = <<>>
      /\ i \in 1..Len(answer) + 1 /\ Copied(out.list, i - 1)
  BY <1>1 DEF Inv, Shape, Progress
<1>3. /\ answer \in Seq(Elements) /\ Len(answer) \in Nat /\ out \in Outs
      /\ i \in Nat /\ i \in 1..Len(answer) /\ Len(answer) <= MaxSources
      /\ MaxSources \in Nat /\ valid \in Nat /\ now \in Nat
  BY <1>1, <1>2 DEF Inv, Types, TypeOK, RecordsConstants
<1>4. CASE ~(ok /\ answer[i] \in Proper)
  <2>1. BuildFails
    BY <1>4 DEF Copy, Copies
  <2>2. starved' \/ \E k \in 1..Len(answer) : answer[k] \notin Proper
    BY <1>1, <1>3, <1>4
  <2>3. starved' \in BOOLEAN
    BY <1>1
  <2>4. QED
    BY <1>1, <2>1, <2>2, <2>3, BuildFailsInv
<1>5. CASE ok /\ answer[i] \in Proper
  <2> DEFINE entry == [source |-> answer[i], ttl |-> TtlMsUntil(valid, now)]
  <2>1. /\ heap' = heap \cup {Target(i)}
        /\ out' = [out EXCEPT !.target = @ \cup {i}, !.list = Append(@, entry)]
        /\ i' = i + 1
        /\ UNCHANGED <<pc, answer, valid, now, arrays, kept, told>>
    BY <1>5 DEF Copy, Copies
  <2>2. entry \in Entries
    BY <1>3, TtlSaturates DEF Entries
  <2>3. /\ out'.records = out.records /\ out'.targets = out.targets
        /\ out'.count = out.count /\ out'.target = out.target \cup {i}
        /\ out'.list = Append(out.list, entry)
    BY <1>3, <2>1 DEF Outs
  <2> HIDE DEF entry
  <2>4. out.list \in Seq(Entries) /\ out'.list \in Seq(Entries)
    BY <1>3, <2>2, <2>3 DEF Outs
  <2>5. out' \in Outs
    <3>1. out.target \cup {i} \in SUBSET Nat
      BY <1>3 DEF Outs
    <3>2. Append(out.list, entry) \in Seq(Entries)
      BY <2>3, <2>4
    <3>3. QED
      BY <1>3, <2>1, <3>1, <3>2 DEF Outs
  <2>6. Types'
    <3>1. Target(i) \in Blocks /\ i \in 1..MaxSources
      BY <1>3, BlockTypes
    <3>2. heap' \subseteq Blocks
      BY <2>1, <3>1 DEF Inv, Types, TypeOK
    <3>3. out'.target \subseteq 1..MaxSources
      BY <2>3, <3>1 DEF Inv, Types, TypeOK
    <3>4. i' \in 0..MaxSources + 1
      BY <1>3, <2>1
    <3>5. starved' \in BOOLEAN
      BY <1>1
    <3>6. TypeOK'
      BY <2>1, <2>3, <3>2, <3>3, <3>4, <3>5 DEF Inv, Types, TypeOK
    <3>7. QED
      BY <2>1, <2>5, <3>6 DEF Inv, Types
  <2>7. out'.target = 1..i' - 1
    BY <1>2, <1>3, <2>1, <2>3
  <2>8. Held(out)' = Held(out) \cup {Target(i)}
    BY <1>2, <2>3 DEF Held
  <2>9. Shape'
    BY <1>1, <1>2, <2>1, <2>3, <2>7, <2>8 DEF Shape
  <2>10. Copied(out.list, i - 1)'
    <3>1. Len(out.list) = i - 1
      BY <1>2 DEF Copied
    <3>2. /\ Len(out'.list) = i /\ out'.list[i] = entry
          /\ \A k \in 1..i - 1 : out'.list[k] = out.list[k]
      BY <1>3, <2>2, <2>3, <2>4, <3>1
    <3>3. i' - 1 = i
      BY <1>3, <2>1
    <3>4. ASSUME NEW k \in 1..i
          PROVE  answer[k] \in Proper
                 /\ out'.list[k] = [source |-> answer[k],
                                    ttl |-> TtlMsUntil(valid, now)]
      <4>1. CASE k = i
        BY <1>5, <3>2, <4>1 DEF entry
      <4>2. CASE k # i
        <5>1. k \in 1..i - 1
          BY <1>3, <4>2
        <5>2. QED
          BY <1>2, <3>2, <5>1 DEF Copied
      <4>3. QED
        BY <4>1, <4>2
    <3>5. QED
      BY <2>1, <3>2, <3>3, <3>4 DEF Copied
  <2>11. i' \in 1..Len(answer') + 1
    BY <1>3, <2>1
  <2>12. Progress'
    BY <1>1, <1>2, <2>1, <2>10, <2>11 DEF Progress
  <2>13. QED
    BY <2>6, <2>9, <2>12 DEF Inv
<1>6. QED
  BY <1>4, <1>5

\* The client is told of a build that succeeded, or of one that failed.
LEMMA SrvCallbackInv ==
    ASSUME RecordsConstants, Inv, SrvCallback
    PROVE  Inv'
<1>1. /\ pc' = "srv_release"
      /\ UNCHANGED <<answer, valid, now, heap, out, arrays, kept, i, starved>>
      /\ \/ /\ pc = "copy" /\ i > Len(answer)
            /\ told' = Append(told, [rc |-> 0, list |-> out.list])
         \/ pc = "build_failed" /\ told' = Append(told, Error)
  BY DEF SrvCallback
<1>2. told = <<>> /\ arrays = OwnSources /\ Len(answer) \in Nat
  BY <1>1 DEF Inv, Types, Shape, Progress
<1>3. Types'
  BY <1>1 DEF Inv, Types, TypeOK
<1>4. CASE pc = "copy"
  <2>1. /\ heap = OwnSources \cup Held(out) /\ out.count = Len(answer)
        /\ out.target = 1..i - 1 /\ i \in 1..Len(answer) + 1
        /\ Copied(out.list, i - 1)
    BY <1>4 DEF Inv, Shape, Progress
  <2>2. i = Len(answer) + 1 /\ i - 1 = Len(answer)
    BY <1>1, <1>2, <1>4, <2>1
  <2>3. out.target \subseteq 1..out.count
    BY <2>1, <2>2
  <2>4. Held(out)' = Held(out)
    BY <1>1 DEF Held
  <2>5. Shape'
    BY <1>1, <1>2, <2>1, <2>3, <2>4 DEF Shape
  <2>6. Copied(out.list, Len(answer))'
    BY <1>1, <2>1, <2>2 DEF Copied
  <2>7. told' = <<[rc |-> 0, list |-> out'.list]>>
    BY <1>1, <1>2, <1>4
  <2>8. Progress'
    BY <1>1, <2>6, <2>7 DEF Progress
  <2>9. QED
    BY <1>3, <2>5, <2>8 DEF Inv
<1>5. CASE pc = "build_failed"
  <2>1. heap = OwnSources /\ out = NoRecords /\ SrvMayFail
    BY <1>5 DEF Inv, Shape, Progress
  <2>2. out'.target = {} /\ Held(out') = {} /\ out' = out
    BY <1>1, <2>1, NoRecordsFacts
  <2>3. Held(out)' = {}
    BY <2>2 DEF Held
  <2>4. Shape'
    BY <1>1, <1>2, <2>1, <2>2, <2>3 DEF Shape
  <2>5. SrvMayFail'
    BY <1>1, <2>1 DEF SrvMayFail
  <2>6. told' = <<Error>>
    BY <1>1, <1>2, <1>5
  <2>7. Error' = Error
    BY DEF Error
  <2>8. Progress'
    BY <1>1, <2>5, <2>6, <2>7 DEF Progress
  <2>9. QED
    BY <1>3, <2>4, <2>8 DEF Inv
<1>6. QED
  BY <1>1, <1>4, <1>5

\* The second call of rn_srv_records_free finds nothing to free; either way
\* nothing is left.
LEMMA SrvReleaseInv ==
    ASSUME RecordsConstants, Inv, SrvRelease
    PROVE  Inv'
<1>1. /\ pc = "srv_release" /\ heap' = heap \ (Freed(out) \cup arrays)
      /\ out' = NoRecords /\ arrays' = {} /\ pc' = "done"
      /\ UNCHANGED <<answer, valid, now, kept, i, told, starved>>
  BY DEF SrvRelease, Cleared
<1>2. /\ heap = OwnSources \cup Held(out) /\ arrays = OwnSources
      /\ out.target \subseteq 1..out.count /\ out \in Outs
  BY <1>1 DEF Inv, Types, Shape
<1>3. heap' = {}
  BY <1>1, <1>2, HeldFacts
<1>4. told' = <<told'[1]>>
  <2>1. CASE told = <<Error>>
    BY <1>1, <2>1
  <2>2. CASE told = <<[rc |-> 0, list |-> out.list]>>
    BY <1>1, <2>2
  <2>3. QED
    BY <1>1, <2>1, <2>2 DEF Inv, Progress
<1>5. Types'
  <2>1. out'.count \in 0..Len(answer')
    BY <1>1, NoRecordsFacts DEF Inv, Types
  <2>2. QED
    BY <1>1, <1>3, <2>1, NoRecordsFacts DEF Inv, Types, TypeOK
<1>6. Shape'
  BY <1>1, <1>3 DEF Shape
<1>7. Progress'
  BY <1>1, <1>4 DEF Progress
<1>8. QED
  BY <1>5, <1>6, <1>7 DEF Inv

\* Whichever of the two arrays was granted is released later.
LEMMA AddrArraysInv ==
    ASSUME RecordsConstants, Inv,
           NEW granted \in SUBSET {Array("addrs"), Array("sources")},
           AddrArrays(granted)
    PROVE  Inv'
<1>1. /\ pc = "addr" /\ heap' = heap \cup granted /\ arrays' = granted
      /\ UNCHANGED <<answer, valid, now, out, kept, i>>
      /\ \/ pc' = "compact" /\ told' = told /\ starved' = starved
         \/ pc' = "addr_release" /\ told' = Append(told, Error) /\ starved' = TRUE
  BY DEF AddrArrays
<1>2. /\ heap = {} /\ out = NoRecords /\ arrays = {} /\ told = <<>>
      /\ i = 1 /\ kept = <<>>
  BY <1>1 DEF Inv, Shape, Progress
<1>3. granted \subseteq Blocks
  BY BlockTypes
<1>4. Types'
  BY <1>1, <1>2, <1>3 DEF Inv, Types, TypeOK
<1>5. Shape'
  BY <1>1, <1>2 DEF Shape
<1>6. CopyableOf(answer, i - 1)' = <<>> /\ i' \in 1..Len(answer') + 1
  <2>1. answer \in Seq(Elements) /\ Len(answer) \in Nat
    BY DEF Inv, Types
  <2>2. CopyableOf(answer, 0) = <<>>
    BY <2>1, CopyableSteps
  <2>3. i' - 1 = 0 /\ answer' = answer
    BY <1>1, <1>2
  <2>4. CopyableOf(answer', i' - 1) = <<>>
    BY <2>2, <2>3
  <2>5. CopyableOf(answer, i - 1)' = <<>>
    BY <2>4 DEF CopyableOf
  <2>6. QED
    BY <1>1, <1>2, <2>1, <2>5
<1>7. CASE pc' = "compact"
  <2>1. Progress'
    BY <1>1, <1>2, <1>6, <1>7 DEF Progress
  <2>2. QED
    BY <1>4, <1>5, <2>1 DEF Inv
<1>8. CASE pc' = "addr_release"
  <2>1. told' = <<Error>> /\ starved'
    BY <1>1, <1>2, <1>8
  <2>2. Error' = Error
    BY DEF Error
  <2>3. Progress'
    BY <1>8, <2>1, <2>2 DEF Progress
  <2>4. QED
    BY <1>4, <1>5, <2>3 DEF Inv
<1>9. QED
  BY <1>1, <1>7, <1>8

\* The addresses kept are those that can be copied, of as many as were seen.
LEMMA CompactInv ==
    ASSUME RecordsConstants, Inv, Compact
    PROVE  Inv'
<1>1. /\ pc = "compact" /\ i <= Len(answer) /\ i' = i + 1
      /\ kept' = IF answer[i] \in Proper THEN Append(kept, answer[i]) ELSE kept
      /\ UNCHANGED <<pc, answer, valid, now, heap, out, arrays, told, starved>>
  BY DEF Compact, Copies
<1>2. /\ heap = arrays /\ out = NoRecords /\ told = <<>>
      /\ i \in 1..Len(answer) + 1 /\ kept = CopyableOf(answer, i - 1)
  BY <1>1 DEF Inv, Shape, Progress
<1>3. /\ answer \in Seq(Elements) /\ Len(answer) \in Nat /\ i \in Nat
      /\ Len(answer) <= MaxSources /\ MaxSources \in Nat /\ i \in 1..Len(answer)
  BY <1>1, <1>2 DEF Inv, Types, TypeOK, RecordsConstants
<1>4. kept' = CopyableOf(answer, i)
  BY <1>1, <1>2, <1>3, CopyableSteps
<1>5. kept' \in Seq(Proper) /\ Len(kept') <= Len(answer)
  <2>1. i \in 0..Len(answer)
    BY <1>3
  <2>2. CopyableIs(answer, i)
    BY <1>3, <2>1, CopyableFacts
  <2>3. kept' \in Seq(Proper) /\ Len(kept') <= i
    BY <1>4, <2>2 DEF CopyableIs
  <2>4. Len(kept') \in Nat
    BY <2>3
  <2>5. QED
    BY <1>3, <2>3, <2>4
<1>6. i' \in 0..MaxSources + 1 /\ i' \in 1..Len(answer') + 1 /\ i' - 1 = i
  BY <1>1, <1>3
<1>7. Types'
  BY <1>1, <1>5, <1>6 DEF Inv, Types, TypeOK
<1>8. Shape'
  BY <1>1, <1>2 DEF Shape
<1>9. kept' = CopyableOf(answer, i - 1)'
  <2>1. kept' = CopyableOf(answer', i' - 1)
    BY <1>1, <1>4, <1>6
  <2>2. QED
    BY <2>1 DEF CopyableOf
<1>10. Progress'
  BY <1>1, <1>2, <1>6, <1>9 DEF Progress
<1>11. QED
  BY <1>7, <1>8, <1>10 DEF Inv

\* The client is told what was kept, or an error if that is nothing.
LEMMA AddrCallbackInv ==
    ASSUME RecordsConstants, Inv, AddrCallback
    PROVE  Inv'
<1>1. /\ pc = "compact" /\ i > Len(answer) /\ pc' = "addr_release"
      /\ told' = Append(told, AddrResult(kept))
      /\ UNCHANGED <<answer, valid, now, heap, out, arrays, kept, i, starved>>
  BY DEF AddrCallback
<1>2. /\ heap = arrays /\ out = NoRecords /\ told = <<>>
      /\ i \in 1..Len(answer) + 1 /\ kept = CopyableOf(answer, i - 1)
  BY <1>1 DEF Inv, Shape, Progress
<1>3. Len(answer) \in Nat
  BY DEF Inv, Types
<1>4. i - 1 = Len(answer)
  BY <1>1, <1>2, <1>3
<1>5. kept = Copyable
  BY <1>2, <1>4 DEF Copyable
<1>6. Copyable' = Copyable
  BY <1>1, SameAnswer
<1>7. Types'
  BY <1>1 DEF Inv, Types, TypeOK
<1>8. Shape'
  BY <1>1, <1>2 DEF Shape
<1>9. told' = <<AddrResult(Copyable)>>
  BY <1>1, <1>2, <1>5
<1>10. CASE Copyable = <<>>
  <2>1. told' = <<Error>>
    BY <1>9, <1>10 DEF AddrResult
  <2>2. Error' = Error
    BY DEF Error
  <2>3. Progress'
    BY <1>1, <1>6, <1>10, <2>1, <2>2 DEF Progress
  <2>4. QED
    BY <1>7, <1>8, <2>3 DEF Inv
<1>11. CASE Copyable # <<>>
  <2>1. told' = <<[rc |-> 0, list |-> Copyable']>>
    BY <1>6, <1>9, <1>11 DEF AddrResult
  <2>2. Progress'
    BY <1>1, <1>6, <1>11, <2>1 DEF Progress
  <2>3. QED
    BY <1>7, <1>8, <2>2 DEF Inv
<1>12. QED
  BY <1>10, <1>11

\* Both arrays go, and nothing else existed.
LEMMA AddrReleaseInv ==
    ASSUME RecordsConstants, Inv, AddrRelease
    PROVE  Inv'
<1>1. /\ pc = "addr_release" /\ heap' = heap \ arrays /\ arrays' = {}
      /\ pc' = "done"
      /\ UNCHANGED <<answer, valid, now, out, kept, i, told, starved>>
  BY DEF AddrRelease
<1>2. heap = arrays /\ out = NoRecords
  BY <1>1 DEF Inv, Shape
<1>3. heap' = {}
  BY <1>1, <1>2
<1>4. told' = <<told'[1]>>
  <2>1. CASE told = <<Error>>
    BY <1>1, <2>1
  <2>2. CASE told = <<[rc |-> 0, list |-> Copyable]>>
    BY <1>1, <2>2
  <2>3. QED
    BY <1>1, <2>1, <2>2 DEF Inv, Progress
<1>5. Types'
  BY <1>1, <1>3 DEF Inv, Types, TypeOK
<1>6. Shape'
  BY <1>1, <1>2, <1>3 DEF Shape
<1>7. Progress'
  BY <1>1, <1>4 DEF Progress
<1>8. QED
  BY <1>5, <1>6, <1>7 DEF Inv

(***************************************************************************)
(* The invariant                                                           *)
(***************************************************************************)

\* Before the first answer.
LEMMA InvInit ==
    ASSUME RecordsConstants, Init
    PROVE  Inv
<1>1. /\ pc = "done" /\ answer = <<>> /\ valid = 0 /\ now = 0
      /\ heap = {} /\ out = NoRecords /\ arrays = {}
      /\ kept = <<>> /\ i = 0 /\ told = <<Error>> /\ starved = FALSE
  BY DEF Init
<1>2. Len(answer) = 0 /\ Len(kept) = 0 /\ MaxSources \in Nat /\ MaxTime \in Nat
  BY <1>1 DEF RecordsConstants
<1>3. answer \in Seq(Elements) /\ kept \in Seq(Proper) /\ out \in Outs
  BY <1>1, NoRecordsFacts
<1>4. TypeOK
  <2>1. out.count \in 0..Len(answer) /\ i \in 0..MaxSources + 1
    BY <1>1, <1>2, NoRecordsFacts
  <2>2. Len(answer) <= MaxSources /\ Len(kept) <= Len(answer)
    BY <1>2
  <2>3. valid \in 0..MaxTime /\ now \in 0..MaxTime
    BY <1>1, <1>2
  <2>4. out.records \in BOOLEAN /\ out.targets \in BOOLEAN
        /\ out.target \subseteq 1..MaxSources
    BY <1>1, NoRecordsFacts
  <2>5. starved \in BOOLEAN
    BY <1>1
  <2>6. QED
    BY <1>1, <2>1, <2>2, <2>3, <2>4, <2>5 DEF TypeOK
<1>5. Shape
  BY <1>1 DEF Shape
<1>6. Progress
  BY <1>1 DEF Progress
<1>7. QED
  BY <1>3, <1>4, <1>5, <1>6 DEF Inv, Types

\* Every step of the two handlers keeps the invariant.
LEMMA InvStep ==
    ASSUME RecordsConstants, Inv, [Next]_vars
    PROVE  Inv'
<1>1. CASE UNCHANGED vars
  <2>1. Types'
    BY <1>1 DEF Inv, Types, TypeOK, vars
  <2>2. Shape'
    BY <1>1 DEF Inv, Shape, vars, Held
  <2>3. UNCHANGED <<answer, valid, now>>
    BY <1>1 DEF vars
  <2>4. Copyable' = Copyable
    BY <2>3, SameAnswer
  <2>5. Copied(out.list, i - 1)' = Copied(out.list, i - 1)
    BY <1>1 DEF Copied, vars
  <2>6. Copied(out.list, Len(answer))' = Copied(out.list, Len(answer))
    BY <1>1 DEF Copied, vars
  <2>7. CopyableOf(answer, i - 1)' = CopyableOf(answer, i - 1)
    BY <1>1 DEF CopyableOf, vars
  <2>8. SrvMayFail' = SrvMayFail
    BY <1>1 DEF SrvMayFail, vars
  <2>9. Progress'
    BY <1>1, <2>4, <2>5, <2>6, <2>7, <2>8 DEF Inv, Progress, vars, Error
  <2>10. QED
    BY <2>1, <2>2, <2>9 DEF Inv
<1>2. CASE \E handler \in {"srv", "addr"}, a \in Answers, v, t \in 0..MaxTime :
              Called(handler, a, v, t)
  BY <1>2, CalledInv
<1>3. CASE \E ok \in BOOLEAN : Sources(ok) \/ Records(ok) \/ Targets(ok) \/ Copy(ok)
  BY <1>3, SourcesInv, RecordsInv, TargetsInv, CopyInv
<1>4. CASE \E granted \in SUBSET {Array("addrs"), Array("sources")} :
              AddrArrays(granted)
  BY <1>4, AddrArraysInv
<1>5. QED
  BY <1>1, <1>2, <1>3, <1>4, SrvCallbackInv, SrvReleaseInv, CompactInv,
     AddrCallbackInv, AddrReleaseInv DEF Next

\* So it always holds.
LEMMA Invariant == Spec => []Inv
<1> USE RecordsAssumption
<1>1. Init => Inv
  BY InvInit
<1>2. Inv /\ [Next]_vars => Inv'
  BY InvStep
<1>3. QED
  BY <1>1, <1>2, PTL DEF Spec

(***************************************************************************)
(* The properties                                                          *)
(***************************************************************************)

\* Every variable of the handlers keeps its type: in particular
\* rn_srv_records_t never counts more records than the answer has.
THEOREM TypeCorrect == Spec => []TypeOK
<1> USE RecordsAssumption
<1>1. Inv => TypeOK
  BY DEF Inv, Types
<1>2. QED
  BY <1>1, Invariant, PTL

\* However far rn_srv_records_build or rn_addr_records_compact got before an
\* allocation failed, no pointer dangles, nothing is freed twice although
\* rn_srv_records_free runs twice, and when the handler returns nothing of
\* what it allocated is left.
THEOREM RecordsStayOwned == Spec => []RecordsOwned
<1> USE RecordsAssumption
<1>1. ASSUME Inv
      PROVE  PointersAreLive
  <2>1. CASE pc \in {"done", "srv", "addr", "records", "build_failed",
                     "compact", "addr_release"}
    <3>1. out = NoRecords /\ arrays \subseteq heap
      BY <1>1, <2>1 DEF Inv, Shape
    <3>2. QED
      BY <3>1, NoRecordsFacts DEF PointersAreLive
  <2>2. CASE pc = "targets"
    <3>1. /\ heap = OwnSources \cup {Array("records")} /\ arrays = OwnSources
          /\ out = [NoRecords EXCEPT !.records = TRUE]
      BY <1>1, <2>2 DEF Inv, Shape
    <3>2. out.targets = FALSE
      BY <3>1 DEF NoRecords
    <3>3. Held(out) \subseteq {Array("records")}
      BY <3>2 DEF Held
    <3>4. QED
      BY <3>1, <3>3 DEF PointersAreLive
  <2>3. CASE pc \in {"copy", "srv_release"}
    <3>1. heap = OwnSources \cup Held(out) /\ arrays = OwnSources
      BY <1>1, <2>3 DEF Inv, Shape
    <3>2. QED
      BY <3>1 DEF PointersAreLive
  <2>4. QED
    BY <1>1, <2>1, <2>2, <2>3 DEF Inv, Types, TypeOK
<1>2. Inv => NothingIsLeft
  BY DEF Inv, Shape, NothingIsLeft
<1>3. Inv => RecordsOwned
  BY <1>1, <1>2 DEF RecordsOwned
<1>4. QED
  BY <1>3, Invariant, PTL

\* What can be copied of an answer is the answer exactly if nothing in it is
\* malformed.
LEMMA CopyableWhole ==
    ASSUME NEW S, answer \in Seq(S)
    PROVE  /\ (\A k \in 1..Len(answer) : answer[k] \in Proper) =>
                 Copyable = answer
           /\ (\E k \in 1..Len(answer) : answer[k] \notin Proper) =>
                 Copyable # answer
<1>1. Len(answer) \in Nat /\ Len(answer) \in 0..Len(answer)
  OBVIOUS
<1>2. CopyableIs(answer, Len(answer))
  BY <1>1, CopyableFacts
<1> DEFINE found == CopyableOf(answer, Len(answer))
<1>3. Copyable = found
  BY DEF Copyable
<1>4. /\ found \in Seq(Proper)
      /\ (\E j \in 1..Len(answer) : answer[j] \notin Proper) =>
            Len(found) < Len(answer)
      /\ (\A j \in 1..Len(answer) : answer[j] \in Proper) =>
            /\ Len(found) = Len(answer)
            /\ \A j \in 1..Len(answer) : found[j] = answer[j]
  BY <1>2 DEF CopyableIs
<1> HIDE DEF found
<1>5. ASSUME \A k \in 1..Len(answer) : answer[k] \in Proper
      PROVE  Copyable = answer
  <2>1. Len(found) = Len(answer) /\ \A j \in 1..Len(answer) : found[j] = answer[j]
    BY <1>4, <1>5
  <2>2. found = answer
    BY <1>4, <2>1, SeqEqual
  <2>3. QED
    BY <1>3, <2>2
<1>6. ASSUME \E k \in 1..Len(answer) : answer[k] \notin Proper
      PROVE  Copyable # answer
  <2>1. Len(found) < Len(answer)
    BY <1>4, <1>6
  <2>2. found # answer
    BY <1>1, <2>1
  <2>3. QED
    BY <1>3, <2>2
<1>7. QED
  BY <1>5, <1>6

\* The client is called once.  It gets every record of an SRV answer in order,
\* each with the rest of the answer's lifetime or the largest one that fits 32
\* bits, or an error that an allocation or a malformed record explains; of an
\* address answer it gets exactly the usable addresses, in order.
THEOREM RecordsStayExact == Spec => []RecordsExact
<1> USE RecordsAssumption
<1>1. ASSUME Inv
      PROVE  RecordsExact
  <2>1. answer \in Seq(Elements) /\ valid \in Nat /\ now \in Nat
    BY <1>1 DEF Inv, Types, TypeOK
  <2>2. Len(told) <= 1 /\ (pc = "done" => Len(told) = 1)
    <3>1. CASE told = <<>>
      BY <1>1, <3>1 DEF Inv, Progress
    <3>2. CASE told = <<told[1]>>
      <4>1. Len(told) = 1
        BY <3>2
      <4>2. QED
        BY <4>1
    <3>3. told = <<>> \/ told = <<told[1]>>
      <4>1. CASE pc = "srv_release" /\ told = <<Error>>
        BY <4>1
      <4>2. CASE pc = "srv_release" /\ told = <<[rc |-> 0, list |-> out.list]>>
        BY <4>2
      <4>3. CASE pc = "addr_release" /\ told = <<Error>>
        BY <4>3
      <4>4. CASE pc = "addr_release" /\ told = <<[rc |-> 0, list |-> Copyable]>>
        BY <4>4
      <4>5. QED
        BY <1>1, <4>1, <4>2, <4>3, <4>4 DEF Inv, Progress
    <3>4. QED
      BY <3>1, <3>2, <3>3
  <2>3. CASE pc = "srv_release" /\ told = <<Error>>
    <3>1. SrvMayFail
      <4>1. told = <<Error>>
        BY <2>3
      <4>2. told[1].rc = -1
        BY <4>1 DEF Error
      <4>3. told # <<[rc |-> 0, list |-> out.list]>>
        BY <4>2
      <4>4. QED
        BY <1>1, <2>3, <4>3 DEF Inv, Progress
    <3>2. starved \/ Copyable # answer
      BY <2>1, <3>1, CopyableWhole DEF SrvMayFail
    <3>3. told[1].rc # 0 /\ DOMAIN told[1].list = {}
      BY <2>3 DEF Error
    <3>4. QED
      BY <2>2, <2>3, <3>2, <3>3
      DEF RecordsExact, ToldOnceAndExactly, TtlExact
  <2>4. CASE /\ pc = "srv_release" /\ told = <<[rc |-> 0, list |-> out.list]>>
             /\ Copied(out.list, Len(answer))
    <3>1. told[1].rc = 0 /\ told[1].list = out.list
      BY <2>4
    <3>2. out.list \in Seq(Entries) /\ Len(out.list) = Len(answer)
      BY <1>1, <2>4 DEF Inv, Types, Outs, Copied
    <3>3. DOMAIN out.list = 1..Len(answer)
      BY <3>2
    <3>4. \A k \in 1..Len(answer) : /\ answer[k] \in Proper
                                    /\ out.list[k].source = answer[k]
                                    /\ out.list[k].ttl = TtlMsUntil(valid, now)
      <4>1. ASSUME NEW k \in 1..Len(answer)
            PROVE  /\ answer[k] \in Proper
                   /\ out.list[k].source = answer[k]
                   /\ out.list[k].ttl = TtlMsUntil(valid, now)
        <5>1. /\ answer[k] \in Proper
              /\ out.list[k] = [source |-> answer[k],
                                ttl |-> TtlMsUntil(valid, now)]
          BY <2>4 DEF Copied
        <5>2. QED
          BY <5>1
      <4>2. QED
        BY <4>1
    <3>5. Copyable = answer
      BY <2>1, <3>4, CopyableWhole
    <3>6. [k \in DOMAIN out.list |-> out.list[k].source] = answer
      BY <2>1, <3>3, <3>4
    <3>7. TtlExact
      BY <2>1, <3>1, <3>3, <3>4, TtlSaturates DEF TtlExact
    <3>8. ToldOnceAndExactly
      BY <2>2, <2>4, <3>1, <3>5, <3>6 DEF ToldOnceAndExactly
    <3>9. QED
      BY <3>7, <3>8 DEF RecordsExact
  <2>5. CASE /\ pc = "addr_release" /\ told = <<Error>>
             /\ (starved \/ Copyable = <<>>)
    <3>1. told[1].rc # 0
      BY <2>5 DEF Error
    <3>2. QED
      BY <2>2, <2>5, <3>1 DEF RecordsExact, ToldOnceAndExactly, TtlExact
  <2>6. CASE /\ pc = "addr_release" /\ told = <<[rc |-> 0, list |-> Copyable]>>
             /\ Copyable # <<>>
    <3>1. told[1].rc = 0 /\ told[1].list = Copyable
      BY <2>6
    <3>2. QED
      BY <2>2, <2>6, <3>1 DEF RecordsExact, ToldOnceAndExactly, TtlExact
  <2>7. CASE pc \notin {"srv_release", "addr_release"}
    BY <2>2, <2>7 DEF RecordsExact, ToldOnceAndExactly, TtlExact
  <2>8. QED
    BY <1>1, <2>3, <2>4, <2>5, <2>6, <2>7 DEF Inv, Progress
<1>2. QED
  BY <1>1, Invariant, PTL
=============================================================================
