--------------------------- MODULE RnParts_proofs ---------------------------
(***************************************************************************)
(* Machine-checked proofs about the parts that keep nothing between calls: *)
(* RnParse for texts of any length and any width of numbers, RnLatency for *)
(* any clock, RnResolvConf for any line and any buffer, RnSystemDns for    *)
(* any file.  Each part is proved about as the instance of RnParts, which  *)
(* is as general as the part; RnPolicy_proofs has the policy's proofs.     *)
(***************************************************************************)
EXTENDS RnParts, RnPolicy_proofs, SequenceTheorems

(***************************************************************************)
(* A part runs as if it were alone                                         *)
(***************************************************************************)

\* Every step is a step of a part or leaves the part as it was.
LEMMA PartsStep ==
    ASSUME [PartsNext]_partsVars
    PROVE  /\ [Parse!Next]_(Parse!vars) /\ [Latency!Next]_(Latency!vars)
           /\ [Next]_vars
           /\ [ResolvConf!Next]_(ResolvConf!vars)
           /\ [SystemDns!Next]_(SystemDns!vars)
<1>1. UNCHANGED parse => UNCHANGED Parse!vars
  BY DEF parse, Parse!vars
<1>2. UNCHANGED latency => UNCHANGED Latency!vars
  BY DEF latency, Latency!vars
<1>3. UNCHANGED resolv_conf => UNCHANGED ResolvConf!vars
  BY DEF resolv_conf, ResolvConf!vars
<1>4. UNCHANGED system_dns => UNCHANGED SystemDns!vars
  BY DEF system_dns, SystemDns!vars, SystemDns!block
<1>5. CASE PartsNext
  BY <1>1, <1>2, <1>3, <1>4, <1>5, Zenon DEF PartsNext, partsVars
<1>6. CASE UNCHANGED partsVars
  BY <1>1, <1>2, <1>3, <1>4, <1>6, Zenon DEF partsVars
<1>7. QED
  BY <1>5, <1>6

\* The specification of RnParts implies that of each part.
LEMMA PartsRun ==
    PartsSpec => /\ Parse!Spec /\ Latency!Spec /\ Spec
                 /\ ResolvConf!Spec /\ SystemDns!Spec
<1>1. PartsInit => /\ Parse!Init /\ Latency!Init /\ Init
                   /\ ResolvConf!Init /\ SystemDns!Init
  BY DEF PartsInit
<1>2. [PartsNext]_partsVars =>
          /\ [Parse!Next]_(Parse!vars) /\ [Latency!Next]_(Latency!vars)
          /\ [Next]_vars
          /\ [ResolvConf!Next]_(ResolvConf!vars)
          /\ [SystemDns!Next]_(SystemDns!vars)
  BY PartsStep
<1>3. QED
  BY <1>1, <1>2, PTL DEF PartsSpec, Parse!Spec, Latency!Spec, Spec,
                         ResolvConf!Spec, SystemDns!Spec

(***************************************************************************)
(* The latency sample                                                      *)
(***************************************************************************)

Now == Latency!Millis(sec, msec)

Began == Latency!Millis(start_sec, start_msec)

\* With a steady clock the readings are as far apart as the request took, and
\* the sample is that of the readings, which nothing changes afterwards.
LatencyInv ==
    /\ Latency!TypeOK
    /\ steady => Now = Began + elapsed
    /\ sample # 0 => sample = Latency!ObservedLatency(Began, Now)

\* A number is its quotient and its remainder.
LEMMA Split ==
    ASSUME NEW n \in Nat, NEW d \in Nat \ {0}
    PROVE  /\ n \div d \in Nat /\ n % d \in 0..d - 1
           /\ (n \div d) * d + (n % d) = n
OBVIOUS

\* The sample is between 1 and the limit, and between them exact.
LEMMA Observed ==
    ASSUME NEW b \in Nat, NEW e \in Nat
    PROVE  LET s == Latency!ObservedLatency(b, e)
           IN  /\ s \in 1..SampleMax
               /\ e <= b => s = 1
               /\ e > b => s = IF e - b > SampleMax THEN SampleMax ELSE e - b
<1>1. SampleMax \in Nat /\ SampleMax >= 9
  BY PartsAssumption DEF Latency!LatencyConstants, Latency!NumericConstants
<1>2. \A n \in 0..SampleMax : Latency!Trunc(n) = n
  BY <1>1 DEF Latency!Trunc
<1>3. QED
  BY <1>1, <1>2 DEF Latency!ObservedLatency

\* A clock that shows n.
LEMMA ReadingIs ==
    ASSUME NEW n \in Nat, Latency!Reading(n)
    PROVE  sec' \in Nat /\ msec' \in 0..SampleSecondMs - 1 /\ Now' = n
<1>1. SampleSecondMs \in Nat \ {0}
  BY PartsAssumption DEF Latency!LatencyConstants, Latency!NumericConstants
<1>2. Now' = sec' * SampleSecondMs + msec'
  BY DEF Now, Latency!Millis
<1>3. sec' = n \div SampleSecondMs /\ msec' = n % SampleSecondMs
  BY DEF Latency!Reading
<1>4. QED
  BY <1>1, <1>2, <1>3, Split

\* A request begins with a steady clock.
LEMMA LatencyInit == Latency!Init => LatencyInv
<1> SUFFICES ASSUME Latency!Init PROVE LatencyInv
  OBVIOUS
<1>1. SampleSecondMs \in Nat \ {0} /\ MaxClock \in Nat /\ SampleMax \in Nat
  BY PartsAssumption DEF Latency!LatencyConstants, Latency!NumericConstants
<1>2. sec \in Nat /\ msec \in 0..SampleSecondMs - 1
  BY <1>1, Split DEF Latency!Init
<1>3. start_sec = sec /\ start_msec = msec /\ sample = 0 /\ elapsed = 0
      /\ steady = TRUE
  BY DEF Latency!Init
<1>4. Latency!TypeOK
  BY <1>1, <1>2, <1>3 DEF Latency!TypeOK
<1>5. Now \in Nat /\ Began = Now
  BY <1>1, <1>2, <1>3 DEF Now, Began, Latency!Millis
<1>6. QED
  BY <1>3, <1>4, <1>5 DEF LatencyInv

\* The clock goes on, is set, or is read for the sample.
LEMMA LatencyStep ==
    ASSUME LatencyInv, [Latency!Next]_(Latency!vars)
    PROVE  LatencyInv'
<1>1. /\ SampleSecondMs \in Nat \ {0} /\ SampleMax \in Nat
      /\ Steps \subseteq Nat
  BY PartsAssumption DEF Latency!LatencyConstants, Latency!NumericConstants
<1>2. /\ sec \in Nat /\ start_sec \in Nat /\ elapsed \in Nat
      /\ msec \in 0..SampleSecondMs - 1 /\ start_msec \in 0..SampleSecondMs - 1
      /\ sample \in 0..SampleMax
  BY DEF LatencyInv, Latency!TypeOK
<1>3. Now \in Nat /\ Began \in Nat
  BY <1>1, <1>2 DEF Now, Began, Latency!Millis
<1>4. steady \in BOOLEAN
  BY DEF LatencyInv, Latency!TypeOK
<1>5. UNCHANGED <<start_sec, start_msec>> => Began' = Began
  BY DEF Began, Latency!Millis
<1>6. UNCHANGED <<sec, msec>> => Now' = Now
  BY DEF Now, Latency!Millis
<1>7. ASSUME NEW d \in Steps, Latency!Advance(d)
      PROVE  LatencyInv'
  <2>1. d \in Nat /\ Latency!Reading(Now + d) /\ elapsed' = elapsed + d
        /\ UNCHANGED <<start_sec, start_msec, sample, steady>> /\ sample = 0
    BY <1>1, <1>7 DEF Latency!Advance, Latency!Open, Now
  <2>2. sec' \in Nat /\ msec' \in 0..SampleSecondMs - 1 /\ Now' = Now + d
    BY <1>3, <2>1, ReadingIs
  <2>3. Latency!TypeOK'
    BY <1>2, <1>4, <2>1, <2>2 DEF Latency!TypeOK
  <2>4. steady' => Now' = Began' + elapsed'
    BY <1>2, <1>3, <1>5, <2>1, <2>2 DEF LatencyInv
  <2>5. QED
    BY <2>1, <2>3, <2>4 DEF LatencyInv
<1>8. ASSUME NEW n \in Steps, Latency!SetClock(n)
      PROVE  LatencyInv'
  <2>1. n \in Nat /\ Latency!Reading(n) /\ steady' = FALSE
        /\ UNCHANGED <<start_sec, start_msec, sample, elapsed>> /\ sample = 0
    BY <1>1, <1>8 DEF Latency!SetClock, Latency!Open
  <2>2. sec' \in Nat /\ msec' \in 0..SampleSecondMs - 1
    BY <2>1, ReadingIs
  <2>3. Latency!TypeOK'
    BY <1>2, <2>1, <2>2 DEF Latency!TypeOK
  <2>4. QED
    BY <2>1, <2>3 DEF LatencyInv
<1>9. CASE Latency!Log
  <2>1. sample' = Latency!ObservedLatency(Began, Now)
        /\ UNCHANGED <<sec, msec, start_sec, start_msec, elapsed, steady>>
    BY <1>9 DEF Latency!Log, Began, Now
  <2>2. sample' \in 0..SampleMax
    BY <1>1, <1>3, <2>1, Observed
  <2>3. Latency!TypeOK'
    BY <1>2, <1>4, <2>1, <2>2 DEF Latency!TypeOK
  <2>4. steady' => Now' = Began' + elapsed'
    BY <1>5, <1>6, <2>1 DEF LatencyInv
  <2>5. sample' = Latency!ObservedLatency(Began', Now')
    BY <1>5, <1>6, <2>1
  <2>6. Latency!ObservedLatency(Began', Now') = Latency!ObservedLatency(Began, Now)'
    BY DEF Latency!ObservedLatency, Latency!Trunc
  <2>7. QED
    BY <2>3, <2>4, <2>5, <2>6 DEF LatencyInv
<1>10. CASE UNCHANGED Latency!vars
  <2>1. UNCHANGED <<sec, msec, start_sec, start_msec, sample, elapsed, steady>>
    BY <1>10 DEF Latency!vars
  <2>2. Latency!TypeOK'
    BY <2>1 DEF LatencyInv, Latency!TypeOK
  <2>3. Latency!ObservedLatency(Began, Now)' = Latency!ObservedLatency(Began, Now)
    BY <1>5, <1>6, <2>1 DEF Latency!ObservedLatency, Latency!Trunc
  <2>4. QED
    BY <1>5, <1>6, <2>1, <2>2, <2>3 DEF LatencyInv
<1>11. QED
  BY <1>7, <1>8, <1>9, <1>10 DEF Latency!Next

\* The facts about the latency sample hold in every state.
LEMMA LatencyInvariant == PartsSpec => []LatencyInv
<1>1. LatencyInv /\ [Latency!Next]_(Latency!vars) => LatencyInv'
  BY LatencyStep
<1>2. Latency!Spec => []LatencyInv
  BY <1>1, LatencyInit, PTL DEF Latency!Spec
<1>3. QED
  BY <1>2, PartsRun, PTL

(***************************************************************************)
(* The sample ngx_http_rn_log_handler reports is the time the request      *)
(* took, raised to a millisecond and lowered to the 32-bit limit, for any  *)
(* clock and any duration; with a clock that was set back it is 1, and     *)
(* never the 0 that satisfies every guard.                                 *)
(***************************************************************************)
THEOREM SampleStaysExact == PartsSpec => []SampleExact
<1>1. ASSUME LatencyInv
      PROVE  SampleExact
  <2>1. /\ SampleSecondMs \in Nat \ {0} /\ SampleMax \in Nat
    BY PartsAssumption DEF Latency!LatencyConstants, Latency!NumericConstants
  <2>2. /\ sec \in Nat /\ start_sec \in Nat /\ elapsed \in Nat
        /\ msec \in 0..SampleSecondMs - 1
        /\ start_msec \in 0..SampleSecondMs - 1
    BY <1>1 DEF LatencyInv, Latency!TypeOK
  <2>3. Now \in Nat /\ Began \in Nat
    BY <2>1, <2>2 DEF Now, Began, Latency!Millis
  <2>4. Latency!SetBackIsHarmless
    <3>1. sample # 0 /\ Now <= Began => sample = 1
      BY <1>1, <2>3, Observed DEF LatencyInv
    <3>2. QED
      BY <3>1 DEF Latency!SetBackIsHarmless, Now, Began
  <2>5. ASSUME sample # 0, steady
        PROVE  \/ sample = elapsed
               \/ elapsed = 0 /\ sample = 1
               \/ elapsed > SampleMax /\ sample = SampleMax
    <3>1. Now = Began + elapsed /\ sample = Latency!ObservedLatency(Began, Now)
      BY <1>1, <2>5 DEF LatencyInv
    <3>2. CASE elapsed = 0
      BY <2>2, <2>3, <3>1, <3>2, Observed
    <3>3. CASE elapsed # 0
      <4>1. Now > Began /\ Now - Began = elapsed
        BY <2>2, <2>3, <3>1, <3>3
      <4>2. QED
        BY <2>3, <3>1, <4>1, Observed
    <3>4. QED
      BY <3>2, <3>3
  <2>6. QED
    BY <2>4, <2>5 DEF SampleExact, Latency!SampleIsLatency
<1>2. QED
  BY <1>1, LatencyInvariant, PTL

(***************************************************************************)
(* The system resolver                                                     *)
(***************************************************************************)

\* What one more piece adds to the entries before it.
WithEntry(found, p) ==
    IF p.begins /\ p.seen \in SystemDns!Reachable THEN Append(found, p.seen)
    ELSE found

\* The entries of the beginnings of list.
EntriesFollow(list, f) ==
    /\ f[0] = <<>>
    /\ \A k \in 1..Len(list) : f[k] = WithEntry(f[k - 1], list[k])

\* The recursive definition of Entries, unfolded.
LEMMA EntriesSteps ==
    ASSUME NEW list \in Seq(SystemDns!Pieces)
    PROVE  \E f \in [0..Len(list) -> Seq(Addresses)] :
               EntriesFollow(list, f) /\ SystemDns!Entries(list) = f[Len(list)]
<1> DEFINE n == Len(list)
           S == Seq(Addresses)
           Step(f) == [m \in 0..n |-> IF m = 0 THEN <<>>
                                      ELSE WithEntry(f[m - 1], list[m])]
           c == CHOOSE f : f = Step(f)
           next == [k \in 0 + 1..n |-> [s \in S |-> WithEntry(s, list[k])]]
<1>1. n \in Nat
  OBVIOUS
<1>2. \A k \in 0 + 1..n : \A s \in S : next[k][s] \in S
  <2>1. SystemDns!Reachable \subseteq Addresses
    BY DEF SystemDns!Reachable
  <2>2. QED
    BY <1>1, <2>1 DEF WithEntry
<1>3. PICK f \in [0..n -> S] : Follows(f, 0, n, <<>>, next)
  <2>1. <<>> \in S /\ n \in Int /\ 0 \in Int /\ 0 <= n
    BY <1>1
  <2> HIDE DEF next, n, S
  <2>2. QED
    BY <1>2, <2>1, Recursive, Zenon
<1>4. ASSUME NEW m \in 0 + 1..n
      PROVE  f[m] = WithEntry(f[m - 1], list[m])
  <2>1. m - 1 \in 0..n
    BY <1>1
  <2>2. f[m - 1] \in S
    BY <2>1
  <2> HIDE DEF S
  <2>3. next[m][f[m - 1]] = WithEntry(f[m - 1], list[m])
    BY <2>2
  <2>4. QED
    BY <1>3, <2>3, Zenon DEF Follows
<1>5. f[0] = <<>>
  BY <1>3, Zenon DEF Follows
<1>6. \A m \in 0..n : m # 0 => m \in 0 + 1..n
  BY <1>1
<1> HIDE DEF next, S
<1>7. SystemDns!Entries(list) = c[n]
  BY DEF SystemDns!Entries, WithEntry
<1>8. f = Step(f)
  <2>1. \A m \in 0..n : f[m] = IF m = 0 THEN <<>> ELSE WithEntry(f[m - 1], list[m])
    BY <1>4, <1>5, <1>6
  <2>2. QED
    BY <2>1
<1>9. c = Step(c)
  BY <1>8
<1> HIDE DEF c
<1>10. \A k \in 0..n : Agree(c, f, k)
  <2>1. PICK z \in Int : z = 0
    OBVIOUS
  <2>2. Step(c)[0] = <<>>
    BY <1>1
  <2>3. Agree(c, f, z)
    BY <1>5, <1>9, <2>1, <2>2 DEF Agree
  <2>4. ASSUME NEW k \in z + 1..n, Agree(c, f, k - 1)
        PROVE  Agree(c, f, k)
    <3>1. k \in 0..n /\ k # 0 /\ k \in 0 + 1..n
      BY <1>1, <2>1
    <3>2. Step(c)[k] = WithEntry(c[k - 1], list[k])
      BY <3>1
    <3>3. c[k] = WithEntry(c[k - 1], list[k])
      BY <1>9, <3>2
    <3>4. f[k] = WithEntry(f[k - 1], list[k])
      BY <1>4, <3>1
    <3>5. QED
      BY <2>4, <3>3, <3>4 DEF Agree
  <2>5. n \in Int
    BY <1>1
  <2>6. QED
    BY <2>1, <2>3, <2>4, <2>5, SameUpTo
<1>11. c[n] = f[n] /\ EntriesFollow(list, f)
  BY <1>1, <1>4, <1>5, <1>10 DEF Agree, EntriesFollow
<1>12. QED
  BY <1>7, <1>11 DEF S

\* A file that has not been read has no entries.
LEMMA EntriesEmpty == SystemDns!Entries(<<>>) = <<>>
<1>1. PICK list \in Seq(SystemDns!Pieces) : list = <<>>
  <2>1. <<>> \in Seq(SystemDns!Pieces)
    OBVIOUS
  <2>2. QED
    BY <2>1, Zenon
<1>2. Len(list) = 0
  BY <1>1
<1>3. QED
  BY <1>1, <1>2, EntriesSteps DEF EntriesFollow

\* One more piece adds its entry, if it has one.
LEMMA EntriesAppend ==
    ASSUME NEW list \in Seq(SystemDns!Pieces), NEW p \in SystemDns!Pieces
    PROVE  SystemDns!Entries(Append(list, p))
               = WithEntry(SystemDns!Entries(list), p)
<1> DEFINE long == Append(list, p)
           n == Len(list)
<1>1. /\ long \in Seq(SystemDns!Pieces) /\ n \in Nat /\ Len(long) = n + 1
      /\ long[n + 1] = p /\ \A k \in 1..n : long[k] = list[k]
  OBVIOUS
<1>2. PICK f \in [0..n -> Seq(Addresses)] :
          EntriesFollow(list, f) /\ SystemDns!Entries(list) = f[n]
  BY EntriesSteps
<1> HIDE DEF long
<1>3. PICK g \in [0..n + 1 -> Seq(Addresses)] :
          EntriesFollow(long, g) /\ SystemDns!Entries(long) = g[n + 1]
  BY <1>1, EntriesSteps
<1>4. Agree(f, g, n)
  <2>1. PICK z \in Int : z = 0
    OBVIOUS
  <2>2. Agree(f, g, z)
    BY <1>2, <1>3, <2>1 DEF EntriesFollow, Agree
  <2>3. ASSUME NEW k \in z + 1..n, Agree(f, g, k - 1)
        PROVE  Agree(f, g, k)
    <3>1. k \in 1..n /\ k \in 1..n + 1
      BY <1>1, <2>1
    <3>2. f[k] = WithEntry(f[k - 1], list[k]) /\ g[k] = WithEntry(g[k - 1], long[k])
      BY <1>1, <1>2, <1>3, <3>1 DEF EntriesFollow
    <3>3. QED
      BY <1>1, <2>3, <3>1, <3>2 DEF Agree
  <2>4. n \in Int /\ n \in z..n
    BY <1>1, <2>1
  <2>5. QED
    BY <2>2, <2>3, <2>4, SameUpTo
<1>5. g[n + 1] = WithEntry(g[n + 1 - 1], long[n + 1])
  BY <1>1, <1>3 DEF EntriesFollow
<1>6. n + 1 - 1 = n
  BY <1>1
<1>7. QED
  BY <1>1, <1>2, <1>3, <1>4, <1>5, <1>6 DEF Agree, long

\* Until the module is configured nothing has been read; the file is only read
\* when there is no other resolver.
ChoiceHolds ==
    /\ own = (resolver = "own")
    /\ status \in {"parsing", "init"} =>
          /\ resolver \in {"null", "own"} /\ timeout = "zero"
          /\ names = <<>> /\ pieces = <<>>
    /\ status \in {"reading", "read"} =>
          resolver = "null" /\ timeout = "zero" /\ ~http
    /\ SystemDns!ResolverChosen

SystemDnsInv == SystemDns!TypeOK /\ ChoiceHolds /\ SystemDns!FileOrder

\* The constants of RnSystemDns.
LEMMA SystemDnsFacts ==
    /\ MaxNames \in Nat \ {0} /\ MaxPieces \in Nat
    /\ HaveInet6 \in BOOLEAN /\ Inet6 \subseteq Addresses
    /\ "none" \notin Addresses /\ "unusable" \notin Addresses
    /\ "localhost" \notin Addresses
    /\ \A entry : SystemDns!Usable(entry) <=> entry \in SystemDns!Reachable
    /\ SystemDns!Reachable \subseteq Addresses
BY PartsAssumption
   DEF SystemDns!SystemDnsConstants, SystemDns!Usable, SystemDns!Reachable

\* Before the file is opened.
LEMMA SystemDnsInit == SystemDns!Init => SystemDnsInv
<1> SUFFICES ASSUME SystemDns!Init PROVE SystemDnsInv
  OBVIOUS
<1>1. /\ status = "parsing" /\ resolver = "null" /\ timeout = "zero"
      /\ names = <<>> /\ pieces = <<>> /\ warned = {}
  BY DEF SystemDns!Init
<1>2. /\ http \in BOOLEAN /\ own = FALSE /\ within = FALSE
      /\ http_timeout \in {"unset", "zero", "set"}
  BY DEF SystemDns!Init
<1>3. SystemDns!TypeOK
  <2>1. /\ names \in Seq(Addresses \cup {"localhost"}) /\ Len(names) = 0
        /\ pieces \in Seq(SystemDns!Pieces)
    BY <1>1
  <2>2. Len(names) <= MaxNames
    BY <2>1, SystemDnsFacts
  <2>3. QED
    BY <1>1, <1>2, <2>1, <2>2 DEF SystemDns!TypeOK
<1>4. ChoiceHolds
  BY <1>1, <1>2 DEF ChoiceHolds, SystemDns!ResolverChosen
<1>5. SystemDns!FileOrder
  BY <1>1 DEF SystemDns!FileOrder
<1>6. QED
  BY <1>3, <1>4, <1>5 DEF SystemDnsInv

\* A step that leaves the file, the names and the warnings alone, and keeps
\* reading it or stops.
LEMMA FileKept ==
    ASSUME SystemDns!FileOrder, UNCHANGED <<names, pieces, warned>>,
           \/ status' \notin {"reading", "read"} /\ resolver' # "system"
           \/ status' = "failed"
           \/ status \in {"reading", "read"} /\ status' = "read"
           \/ status' = "reading" /\ names = <<>> /\ pieces = <<>>
           \/ status' = "read" /\ names = <<>> /\ pieces = <<>>
           \/ UNCHANGED <<status, resolver>>
    PROVE  SystemDns!FileOrder'
<1>1. SystemDns!Entries(pieces)' = SystemDns!Entries(pieces)
  BY DEF SystemDns!Entries, SystemDns!Reachable
<1>2. (SystemDns!Reachable)' = SystemDns!Reachable
  BY DEF SystemDns!Reachable
<1>3. QED
  BY <1>1, <1>2, EntriesEmpty DEF SystemDns!FileOrder

\* No step disturbs what is known of the choice of a resolver.
LEMMA SystemDnsStep ==
    ASSUME SystemDnsInv, [SystemDns!Next]_(SystemDns!vars)
    PROVE  SystemDnsInv'
<1> USE DEF SystemDnsInv
<1>1. ASSUME NEW ok \in BOOLEAN, SystemDns!SetDnsResolver(ok)
      PROVE  SystemDnsInv'
  <2>1. SystemDns!TypeOK'
    BY <1>1 DEF SystemDns!TypeOK, SystemDns!SetDnsResolver, SystemDns!block
  <2>2. ChoiceHolds'
    BY <1>1 DEF ChoiceHolds, SystemDns!SetDnsResolver, SystemDns!block, SystemDns!ResolverChosen
  <2>3. SystemDns!FileOrder'
    BY <1>1, FileKept DEF SystemDns!SetDnsResolver, SystemDns!block, ChoiceHolds
  <2>4. QED
    BY <2>1, <2>2, <2>3
<1>2. CASE SystemDns!EndOfFile
  <2>1. SystemDns!TypeOK'
    BY <1>2 DEF SystemDns!TypeOK, SystemDns!EndOfFile, SystemDns!block
  <2>2. ChoiceHolds'
    BY <1>2 DEF ChoiceHolds, SystemDns!EndOfFile, SystemDns!block, SystemDns!ResolverChosen
  <2>3. SystemDns!FileOrder'
    BY <1>2, FileKept DEF SystemDns!EndOfFile, SystemDns!block, ChoiceHolds
  <2>4. QED
    BY <2>1, <2>2, <2>3
<1>3. CASE SystemDns!Choose
  <2>1. SystemDns!TypeOK'
    BY <1>3 DEF SystemDns!TypeOK, SystemDns!Choose, SystemDns!block, SystemDns!UsesHttp,
                SystemDns!DefaultTimeout
  <2>2. ChoiceHolds'
    BY <1>3 DEF ChoiceHolds, SystemDns!Choose, SystemDns!block, SystemDns!UsesHttp,
                SystemDns!DefaultTimeout, SystemDns!ResolverChosen
  <2>3. SystemDns!FileOrder'
    BY <1>3, FileKept DEF SystemDns!Choose, SystemDns!block, SystemDns!UsesHttp, ChoiceHolds
  <2>4. QED
    BY <2>1, <2>2, <2>3
<1>4. ASSUME NEW ok \in BOOLEAN, SystemDns!OpenFile(ok)
      PROVE  SystemDnsInv'
  <2>1. SystemDns!TypeOK'
    BY <1>4 DEF SystemDns!TypeOK, SystemDns!OpenFile, SystemDns!block
  <2>2. ChoiceHolds'
    BY <1>4 DEF ChoiceHolds, SystemDns!OpenFile, SystemDns!block, SystemDns!ResolverChosen
  <2>3. SystemDns!FileOrder'
    BY <1>4, FileKept DEF SystemDns!OpenFile, SystemDns!block, ChoiceHolds
  <2>4. QED
    BY <2>1, <2>2, <2>3
<1>5. ASSUME NEW entry \in SystemDns!Seen, NEW more \in BOOLEAN,
             SystemDns!ReadPiece(entry, more)
      PROVE  SystemDnsInv'
  <2> DEFINE p == [seen |-> entry, begins |-> ~within]
  <2>1. /\ status = "reading" /\ Len(names) < MaxNames
        /\ pieces' = Append(pieces, p)
        /\ names' = IF SystemDns!Usable(entry) THEN Append(names, entry) ELSE names
        /\ warned' = IF entry # "none" /\ ~SystemDns!Usable(entry)
                     THEN warned \cup {Len(pieces) + 1} ELSE warned
        /\ UNCHANGED <<status, resolver, timeout, http, http_timeout, own>>
    BY <1>5 DEF SystemDns!ReadPiece, SystemDns!block, SystemDns!Room
  <2>2. within' = more
    BY <1>5 DEF SystemDns!ReadPiece, SystemDns!block
  <2>3. /\ names \in Seq(Addresses \cup {"localhost"})
        /\ pieces \in Seq(SystemDns!Pieces) /\ warned \subseteq DOMAIN pieces
    BY DEF SystemDns!TypeOK
  <2>4. p \in SystemDns!Pieces
    BY <1>5 DEF SystemDns!TypeOK, SystemDns!Pieces
  <2>5. p.seen = entry /\ p.begins = ~within
    OBVIOUS
  <2> HIDE DEF p
  <2>6. /\ pieces' \in Seq(SystemDns!Pieces) /\ Len(pieces) \in Nat
        /\ Len(pieces') = Len(pieces) + 1 /\ pieces'[Len(pieces) + 1] = p
        /\ \A k \in 1..Len(pieces) : pieces'[k] = pieces[k]
        /\ DOMAIN pieces = 1..Len(pieces) /\ DOMAIN pieces' = 1..Len(pieces) + 1
    BY <2>1, <2>3, <2>4
  <2>7. warned' \subseteq DOMAIN pieces'
    BY <2>1, <2>3, <2>6
  <2>8. names' \in Seq(Addresses \cup {"localhost"}) /\ Len(names') <= MaxNames
    <3>1. CASE SystemDns!Usable(entry)
      <4>1. entry \in Addresses \cup {"localhost"}
        BY <3>1, SystemDnsFacts
      <4>2. Len(Append(names, entry)) = Len(names) + 1 /\ Len(names) \in Nat
        BY <2>3
      <4>3. QED
        BY <2>1, <2>3, <3>1, <4>1, <4>2, SystemDnsFacts
    <3>2. CASE ~SystemDns!Usable(entry)
      BY <2>1, <2>3, <3>2, SystemDnsFacts
    <3>3. QED
      BY <3>1, <3>2
  <2>9. SystemDns!TypeOK'
    BY <2>1, <2>2, <2>6, <2>7, <2>8 DEF SystemDns!TypeOK
  <2>10. ChoiceHolds'
    BY <2>1 DEF ChoiceHolds, SystemDns!ResolverChosen
  <2>11. SystemDns!FileOrder'
    <3>1. SUFFICES ASSUME \A k \in DOMAIN pieces' : pieces'[k].begins
                   PROVE  /\ names' = SystemDns!Entries(pieces')
                          /\ \A k \in DOMAIN pieces' :
                                (k \in warned') =
                                (pieces'[k].seen
                                    \notin SystemDns!Reachable \cup {"none"})
      <4>1. SystemDns!Entries(pieces)' = SystemDns!Entries(pieces')
        BY DEF SystemDns!Entries, SystemDns!Reachable
      <4>2. (SystemDns!Reachable)' = SystemDns!Reachable
        BY DEF SystemDns!Reachable
      <4>3. QED
        BY <2>1, <4>1, <4>2 DEF SystemDns!FileOrder
    <3>2. p.begins /\ \A k \in 1..Len(pieces) : pieces[k].begins
      <4>1. Len(pieces) + 1 \in DOMAIN pieces'
        BY <2>6
      <4>2. \A k \in 1..Len(pieces) : k \in DOMAIN pieces'
        BY <2>6
      <4>3. QED
        BY <2>6, <3>1, <4>1, <4>2
    <3>3. names = SystemDns!Entries(pieces)
          /\ \A k \in 1..Len(pieces) :
                (k \in warned) =
                    (pieces[k].seen \notin SystemDns!Reachable \cup {"none"})
      BY <2>1, <2>6, <3>2 DEF SystemDns!FileOrder
    <3>4. SystemDns!Entries(pieces') = WithEntry(names, p)
      BY <2>1, <2>3, <2>4, <3>3, EntriesAppend
    <3>5. names' = SystemDns!Entries(pieces')
      BY <2>1, <2>5, <3>2, <3>4, SystemDnsFacts DEF WithEntry
    <3>6. ASSUME NEW k \in DOMAIN pieces'
          PROVE  (k \in warned') = (pieces'[k].seen
                                      \notin SystemDns!Reachable \cup {"none"})
      <4>1. CASE k \in 1..Len(pieces)
        <5>1. k # Len(pieces) + 1
          BY <2>6, <4>1
        <5>2. k \in warned' <=> k \in warned
          BY <2>1, <5>1
        <5>3. QED
          BY <2>6, <3>3, <4>1, <5>2
      <4>2. CASE k = Len(pieces) + 1
        <5>1. k \notin warned
          BY <2>3, <2>6, <4>2
        <5>2. k \in warned' <=> entry # "none" /\ ~SystemDns!Usable(entry)
          BY <2>1, <4>2, <5>1
        <5>3. QED
          BY <2>5, <2>6, <4>2, <5>2, SystemDnsFacts
      <4>3. QED
        BY <2>6, <4>1, <4>2
    <3>7. QED
      BY <3>5, <3>6
  <2>12. QED
    BY <2>9, <2>10, <2>11
<1>6. ASSUME NEW entry \in SystemDns!Seen, SystemDns!NameFails(entry)
      PROVE  SystemDnsInv'
  <2>1. SystemDns!TypeOK'
    BY <1>6 DEF SystemDns!TypeOK, SystemDns!NameFails, SystemDns!block
  <2>2. ChoiceHolds'
    BY <1>6 DEF ChoiceHolds, SystemDns!NameFails, SystemDns!block, SystemDns!ResolverChosen
  <2>3. SystemDns!FileOrder'
    BY <1>6, FileKept DEF SystemDns!NameFails, SystemDns!block
  <2>4. QED
    BY <2>1, <2>2, <2>3
<1>7. CASE SystemDns!CloseFile
  <2>1. SystemDns!TypeOK'
    BY <1>7 DEF SystemDns!TypeOK, SystemDns!CloseFile, SystemDns!block
  <2>2. ChoiceHolds'
    BY <1>7 DEF ChoiceHolds, SystemDns!CloseFile, SystemDns!block, SystemDns!ResolverChosen
  <2>3. SystemDns!FileOrder'
    BY <1>7, FileKept DEF SystemDns!CloseFile, SystemDns!block
  <2>4. QED
    BY <2>1, <2>2, <2>3
<1>8. ASSUME NEW ok \in BOOLEAN, SystemDns!Create(ok)
      PROVE  SystemDnsInv'
  <2>1. /\ names' \in Seq(Addresses \cup {"localhost"}) /\ names' # <<>>
        /\ Len(names') <= MaxNames
    <3>1. names' = IF names = <<>> THEN <<"localhost">> ELSE names
      BY <1>8 DEF SystemDns!Create, SystemDns!block, SystemDns!NamesOrLocalhost
    <3>2. names \in Seq(Addresses \cup {"localhost"}) /\ Len(names) <= MaxNames
      BY DEF SystemDns!TypeOK
    <3>3. /\ <<"localhost">> \in Seq(Addresses \cup {"localhost"})
          /\ <<"localhost">> # <<>> /\ Len(<<"localhost">>) = 1
      OBVIOUS
    <3>4. CASE names = <<>>
      <4>1. names' = <<"localhost">>
        BY <3>1, <3>4
      <4>2. 1 <= MaxNames
        BY SystemDnsFacts
      <4>3. QED
        BY <3>3, <4>1, <4>2
    <3>5. CASE names # <<>>
      BY <3>1, <3>2, <3>5
    <3>6. QED
      BY <3>4, <3>5
  <2>2. SystemDns!TypeOK'
    BY <1>8, <2>1 DEF SystemDns!TypeOK, SystemDns!Create, SystemDns!block, SystemDns!DefaultTimeout
  <2>3. ChoiceHolds'
    BY <1>8, <2>1 DEF ChoiceHolds, SystemDns!Create, SystemDns!block, SystemDns!ResolverChosen,
                      SystemDns!DefaultTimeout
  <2>4. SystemDns!FileOrder'
    <3>1. SystemDns!Entries(pieces)' = SystemDns!Entries(pieces)
      BY <1>8 DEF SystemDns!Entries, SystemDns!Reachable, SystemDns!Create, SystemDns!block
    <3>2. (SystemDns!Reachable)' = SystemDns!Reachable
      BY DEF SystemDns!Reachable
    <3>3. QED
      BY <1>8, <3>1, <3>2 DEF SystemDns!FileOrder, SystemDns!Create, SystemDns!block,
                              SystemDns!NamesOrLocalhost
  <2>5. QED
    BY <2>2, <2>3, <2>4
<1>9. CASE UNCHANGED SystemDns!vars
  <2>1. SystemDns!TypeOK'
    BY <1>9 DEF SystemDns!TypeOK, SystemDns!vars, SystemDns!block
  <2>2. ChoiceHolds'
    BY <1>9 DEF ChoiceHolds, SystemDns!vars, SystemDns!block, SystemDns!ResolverChosen
  <2>3. SystemDns!FileOrder'
    BY <1>9, FileKept DEF SystemDns!vars, SystemDns!block
  <2>4. QED
    BY <2>1, <2>2, <2>3
<1>10. QED
  BY <1>1, <1>2, <1>3, <1>4, <1>5, <1>6, <1>7, <1>8, <1>9 DEF SystemDns!Next

\* The facts about the choice of a resolver hold in every state.
LEMMA SystemDnsInvariant == PartsSpec => []SystemDnsInv
<1>1. SystemDnsInv /\ [SystemDns!Next]_(SystemDns!vars) => SystemDnsInv'
  BY SystemDnsStep
<1>2. SystemDns!Spec => []SystemDnsInv
  BY <1>1, SystemDnsInit, PTL DEF SystemDns!Spec
<1>3. QED
  BY <1>2, PartsRun, PTL

(***************************************************************************)
(* ngx_http_rn_init takes the module's own resolver, else that of the http *)
(* block, else what the file names, in file order, and localhost only for  *)
(* want of any, for files of any length.                                   *)
(***************************************************************************)
THEOREM ResolverStaysExact == PartsSpec => []ResolverExact
<1>1. SystemDnsInv => ResolverExact
  BY DEF SystemDnsInv, ChoiceHolds, ResolverExact
<1>2. QED
  BY <1>1, SystemDnsInvariant, PTL

(***************************************************************************)
(* A line of resolv.conf                                                   *)
(***************************************************************************)

\* The constants of RnResolvConf.
LEMMA ResolvConfFacts == Capacity \in Nat \ {0} /\ MaxLine \in Nat
BY PartsAssumption DEF ResolvConf!ResolvConfConstants

\* An argument that ends with its first closing bracket is one literal.
LEMMA ReadsLiteral ==
    ASSUME NEW S, NEW arg \in Seq(S), Len(arg) >= 2,
           arg[1] = "open", arg[Len(arg)] = "close",
           \A k \in 2..Len(arg) - 1 : arg[k] # "close"
    PROVE  ResolvConf!NginxReads(arg)
               = [family |-> "inet6", host |-> SubSeq(arg, 2, Len(arg) - 1)]
<1> DEFINE n == Len(arg)
           Last(k) == /\ k <= n => arg[k] = "close"
                      /\ \A m \in 1..k - 1 : arg[m] # "close"
           j == CHOOSE k \in DOMAIN arg \cup {n + 1} : Last(k)
<1>1. n \in Nat /\ n >= 2 /\ DOMAIN arg = 1..n
  OBVIOUS
<1>2. \A k \in 1..n - 1 : arg[k] # "close"
  <2>1. \A k \in 1..n - 1 : k = 1 \/ k \in 2..n - 1
    BY <1>1
  <2>2. QED
    BY <2>1
<1>3. n \in DOMAIN arg \cup {n + 1} /\ Last(n)
  <2>1. n \in DOMAIN arg
    BY <1>1
  <2>2. Last(n)
    BY <1>2
  <2>3. QED
    BY <2>1, <2>2
<1>4. ASSUME NEW k \in DOMAIN arg \cup {n + 1}, Last(k)
      PROVE  k = n
  <2>1. CASE k \in 1..n - 1
    BY <1>1, <1>2, <1>4, <2>1
  <2>2. CASE k = n + 1
    <3>1. n \in 1..k - 1
      BY <1>1, <2>2
    <3>2. QED
      BY <1>4, <3>1
  <2>3. QED
    BY <1>1, <2>1, <2>2
<1>5. j \in DOMAIN arg \cup {n + 1} /\ Last(j)
  BY <1>3, Zenon
<1>6. j = n
  BY <1>4, <1>5, Zenon
<1>7. ResolvConf!NginxReads(arg) = IF j # n THEN ResolvConf!Invalid
         ELSE [family |-> "inet6", host |-> SubSeq(arg, 2, j - 1)]
  BY DEF ResolvConf!NginxReads, ResolvConf!Bracketed
<1> HIDE DEF j
<1>8. QED
  BY <1>6, <1>7

\* What is made of an address fits, says what kind it is of, and is a part of
\* the address when it cannot be passed on; nothing with a zone can.
LEMMA ClassifiedFits ==
    ASSUME NEW a \in Seq(ResolvConf!Addressing)
    PROVE  LET r == ResolvConf!Classified(a)
           IN  /\ r.kind \in {"inet", "inet6", "unusable"}
               /\ Len(r.out) + 1 <= Capacity
               /\ ResolvConf!Has(a, "percent") => r.kind = "unusable"
               /\ r.kind = "unusable" => ResolvConf!IsPrefix(r.out, a)
<1> DEFINE r == ResolvConf!Classified(a)
           n == Len(a)
<1>1. n \in Nat /\ Capacity \in Nat \ {0}
  BY ResolvConfFacts
<1>2. CASE r = ResolvConf!Unusable(a)
  <2>1. r.kind = "unusable" /\ r.out = ResolvConf!Stored(a)
    BY <1>2 DEF ResolvConf!Unusable
  <2>2. CASE n + 1 <= Capacity
    <3>1. r.out = a
      BY <2>1, <2>2 DEF ResolvConf!Stored, ResolvConf!Fits
    <3>2. QED
      BY <1>1, <2>1, <2>2, <3>1 DEF ResolvConf!IsPrefix
  <2>3. CASE n + 1 > Capacity
    <3>1. r.out = SubSeq(a, 1, Capacity - 1)
      BY <1>1, <2>1, <2>3 DEF ResolvConf!Stored, ResolvConf!Fits
    <3>2. /\ Len(r.out) = Capacity - 1 /\ Capacity - 1 <= n
          /\ \A k \in 1..Capacity - 1 : r.out[k] = a[k]
      BY <1>1, <2>3, <3>1
    <3>3. SubSeq(r.out, 1, Len(r.out)) = SubSeq(a, 1, Len(r.out))
      <4>1. r.out \in Seq(ResolvConf!Addressing)
        BY <1>1, <2>3, <3>1
      <4>2. SubSeq(r.out, 1, Len(r.out)) = r.out
        BY <4>1
      <4>3. QED
        BY <3>1, <3>2, <4>2
    <3>4. QED
      BY <1>1, <2>1, <3>2, <3>3 DEF ResolvConf!IsPrefix
  <2>4. QED
    BY <1>1, <2>2, <2>3
<1>3. CASE /\ r.kind \in {"inet", "inet6"} /\ r.out = a
           /\ ResolvConf!Fits(n) /\ ~ResolvConf!Has(a, "percent")
  BY <1>1, <1>3 DEF ResolvConf!Fits
<1>4. CASE /\ r = ResolvConf!Wrapped(a) /\ n + 3 <= Capacity
           /\ ~ResolvConf!Has(a, "percent")
  <2>1. r.kind = "inet6" /\ r.out = <<"open">> \o a \o <<"close">>
    BY <1>4 DEF ResolvConf!Wrapped
  <2>2. Len(r.out) = n + 2
    BY <1>1, <2>1
  <2>3. QED
    BY <1>1, <1>4, <2>1, <2>2
<1>5. QED
  <2>1. n + 3 > Capacity \/ n + 3 <= Capacity
    BY <1>1
  <2>2. QED
    BY <1>2, <1>3, <1>4, <2>1 DEF ResolvConf!Classified

\* A well-formed nameserver that fits is passed on, and nginx reads from the
\* argument the host and the family.
LEMMA ClassifiedReads ==
    ASSUME NEW a \in Seq(ResolvConf!Addressing),
           ResolvConf!WellFormed(a), ResolvConf!Needed(a) < Capacity
    PROVE  LET r == ResolvConf!Classified(a)
           IN  /\ r.kind \in {"inet", "inet6"}
               /\ ResolvConf!NginxReads(r.out)
                    = [family |-> r.kind, host |-> ResolvConf!Host(a)]
               /\ (r.kind = "inet6") = ResolvConf!Has(a, "colon")
<1> DEFINE r == ResolvConf!Classified(a)
           n == Len(a)
           h == ResolvConf!Host(a)
<1>1. n \in Nat /\ Capacity \in Nat \ {0} /\ a # <<>> /\ DOMAIN a = 1..n
      /\ n >= 1
  BY ResolvConfFacts DEF ResolvConf!WellFormed
<1>2. CASE ResolvConf!Bracketed(a)
  <2>1. h = SubSeq(a, 2, n - 1) /\ h # <<>>
    BY <1>2 DEF ResolvConf!Host, ResolvConf!WellFormed
  <2>2. n >= 3
    BY <1>1, <2>1
  <2>3. /\ Len(h) = n - 2 /\ DOMAIN h = 1..n - 2
        /\ \A k \in 1..n - 2 : h[k] = a[k + 1]
    BY <1>1, <2>1, <2>2
  <2>4. /\ a[1] = "open" /\ a[n] = "close" /\ ResolvConf!Has(a, "colon")
        /\ ~ResolvConf!Has(h, "percent") /\ ~ResolvConf!Has(h, "close")
    BY <1>2 DEF ResolvConf!WellFormed, ResolvConf!Bracketed
  <2>5. ASSUME NEW c, \A k \in DOMAIN h : h[k] # c
        PROVE  \A k \in 2..n - 1 : a[k] # c
    <3>1. \A k \in 2..n - 1 : k - 1 \in 1..n - 2 /\ (k - 1) + 1 = k
      BY <1>1
    <3>2. QED
      BY <2>3, <2>5, <3>1
  <2>6. /\ \A k \in 2..n - 1 : a[k] # "percent"
        /\ \A k \in 2..n - 1 : a[k] # "close"
    BY <2>4, <2>5 DEF ResolvConf!Has
  <2>7. ~ResolvConf!Has(a, "percent")
    <3> HIDE DEF n
    <3>1. SUFFICES ASSUME NEW k \in 1..n PROVE a[k] # "percent"
      BY <1>1 DEF ResolvConf!Has
    <3>2. k = 1 \/ k = n \/ k \in 2..n - 1
      BY <1>1
    <3>3. QED
      BY <2>4, <2>6, <3>2
  <2>8. ResolvConf!Fits(n)
    <3>1. ResolvConf!Needed(a) = n - 2 + 2
      BY <2>3, <2>4 DEF ResolvConf!Needed
    <3>2. QED
      BY <1>1, <3>1 DEF ResolvConf!Fits
  <2>9. r = [kind |-> "inet6", out |-> a]
    <3>1. ~(n < 3)
      BY <1>1, <2>2
    <3>2. QED
      BY <1>1, <1>2, <2>4, <2>7, <2>8, <3>1 DEF ResolvConf!Classified
  <2>10. r.kind = "inet6" /\ r.out = a
    BY <2>9
  <2>11. ResolvConf!NginxReads(a) = [family |-> "inet6", host |-> h]
    <3>1. n >= 2
      BY <1>1, <2>2
    <3>2. QED
      BY <2>1, <2>4, <2>6, <3>1, ReadsLiteral
  <2>12. QED
    BY <2>4, <2>10, <2>11
<1>3. CASE ~ResolvConf!Bracketed(a)
  <2>1. h = a
    BY <1>3 DEF ResolvConf!Host
  <2>2. ~ResolvConf!Has(a, "percent") /\ ~ResolvConf!Has(a, "close")
    BY <2>1 DEF ResolvConf!WellFormed
  <2>3. CASE ResolvConf!Has(a, "colon")
    <3>1. n + 2 < Capacity
      BY <2>1, <2>3 DEF ResolvConf!Needed
    <3>2. r = ResolvConf!Wrapped(a)
      <4>1. ~(n + 3 > Capacity)
        BY <1>1, <3>1
      <4>2. QED
        BY <1>1, <1>3, <2>2, <2>3, <4>1 DEF ResolvConf!Classified
    <3> DEFINE arg == <<"open">> \o a \o <<"close">>
    <3>3. r.kind = "inet6" /\ r.out = arg
      BY <3>2 DEF ResolvConf!Wrapped
    <3>4. /\ <<"open">> \in Seq(ResolvConf!Addressing)
          /\ <<"close">> \in Seq(ResolvConf!Addressing)
      BY DEF ResolvConf!Addressing
    <3>5. /\ arg \in Seq(ResolvConf!Addressing) /\ Len(arg) = n + 2
          /\ arg[1] = "open" /\ arg[n + 2] = "close"
      BY <1>1, <3>4
    <3>6. \A k \in 2..n + 1 : k - 1 \in 1..n /\ arg[k] = a[k - 1]
      BY <1>1, <3>4
    <3>7. SubSeq(arg, 2, n + 1) = a
      <4>1. /\ Len(SubSeq(arg, 2, n + 1)) = n
            /\ SubSeq(arg, 2, n + 1) \in Seq(ResolvConf!Addressing)
        BY <1>1, <3>5
      <4>2. ASSUME NEW k \in 1..n
            PROVE  SubSeq(arg, 2, n + 1)[k] = a[k]
        <5>1. k + 1 \in 2..n + 1 /\ (k + 1) - 1 = k /\ n + 1 \in 1..n + 2
          BY <1>1
        <5>2. SubSeq(arg, 2, n + 1)[k] = arg[k + 1]
          BY <1>1, <3>5
        <5>3. QED
          BY <3>6, <5>1, <5>2
      <4>3. QED
        BY <4>1, <4>2, SeqEqual
    <3>8. \A k \in 2..n + 1 : arg[k] # "close"
      BY <1>1, <2>2, <3>6 DEF ResolvConf!Has
    <3> HIDE DEF arg
    <3>9. ResolvConf!NginxReads(arg) = [family |-> "inet6", host |-> a]
      <4>1. Len(arg) - 1 = n + 1 /\ Len(arg) >= 2
        BY <1>1, <3>5
      <4>2. QED
        BY <3>5, <3>7, <3>8, <4>1, ReadsLiteral
    <3>10. QED
      BY <2>1, <2>3, <3>3, <3>9
  <2>4. CASE ~ResolvConf!Has(a, "colon")
    <3>1. ResolvConf!Fits(n)
      <4>1. ResolvConf!Needed(a) = n
        BY <1>1, <2>1, <2>4 DEF ResolvConf!Needed
      <4>2. QED
        BY <1>1, <4>1 DEF ResolvConf!Fits
    <3>2. r = [kind |-> "inet", out |-> a]
      BY <1>1, <1>3, <2>2, <2>4, <3>1 DEF ResolvConf!Classified
    <3>3. r.kind = "inet" /\ r.out = a
      BY <3>2
    <3>4. ResolvConf!NginxReads(a) = [family |-> "inet", host |-> a]
      BY <1>3, <2>4 DEF ResolvConf!NginxReads
    <3>5. (r.kind = "inet6") = ResolvConf!Has(a, "colon")
      <4>1. r.kind # "inet6"
        BY <3>3
      <4>2. ResolvConf!Has(a, "colon") \in BOOLEAN
        BY DEF ResolvConf!Has
      <4>3. QED
        BY <2>4, <4>1, <4>2, Zenon
    <3>6. QED
      BY <2>1, <3>3, <3>4, <3>5
  <2>5. QED
    BY <2>3, <2>4
<1>4. QED
  BY <1>2, <1>3

\* The first field of s begins at j with the directive's name.
NameAt(s, j) == s[j] = "nameserver" /\ \A k \in 1..j - 1 : s[k] = "blank"

\* The first field of s is the directive's name and nothing else.
IsNameserver(s) ==
    \E j \in DOMAIN s :
        NameAt(s, j) /\ (j < Len(s) => ResolvConf!EndsField(s[j + 1]))

\* What the place in the line says about the characters s read so far.
Seems(p, s) ==
    /\ p = "lead" => \A k \in 1..Len(s) : s[k] = "blank"
    /\ p = "keyword" => s # <<>> /\ NameAt(s, Len(s))
    /\ p \in {"gap", "address"} =>
          \E j \in 1..Len(s) - 1 : NameAt(s, j) /\ ResolvConf!EndsField(s[j + 1])

\* There is a result when the line has been read, if it is a nameserver.
ResolvConfInv ==
    /\ line \in Seq(ResolvConf!Chars)
    /\ place \in {"lead", "keyword", "gap", "address", "done"}
    /\ address \in Seq(ResolvConf!Addressing)
    /\ Seems(place, line)
    /\ place # "done" => result = ResolvConf!NoResult
    /\ place = "done" =>
          result = IF IsNameserver(line) THEN ResolvConf!Classified(address)
                   ELSE ResolvConf!NoResult

\* What one more character of a line leaves alone.
LEMMA OneMore ==
    ASSUME NEW S, NEW s \in Seq(S), NEW c \in S
    PROVE  LET t == Append(s, c)
           IN  /\ t \in Seq(S) /\ Len(t) = Len(s) + 1 /\ Len(s) \in Nat
               /\ DOMAIN t = 1..Len(s) + 1 /\ DOMAIN s = 1..Len(s)
               /\ t # <<>> /\ t[Len(s) + 1] = c
               /\ \A k \in 1..Len(s) : t[k] = s[k]
OBVIOUS

\* At the beginning of the line.
LEMMA LeadReads ==
    ASSUME NEW s \in Seq(ResolvConf!Chars), NEW c \in ResolvConf!Chars,
           Seems("lead", s)
    PROVE  LET t == Append(s, c)
           IN  /\ c = "blank" => Seems("lead", t)
               /\ c = "nameserver" => Seems("keyword", t)
               /\ c \notin {"blank", "nameserver"} => ~IsNameserver(t)
<1> DEFINE t == Append(s, c)
           n == Len(s)
<1>1. /\ n \in Nat /\ Len(t) = n + 1 /\ DOMAIN t = 1..n + 1 /\ t # <<>>
      /\ t[n + 1] = c /\ \A k \in 1..n : t[k] = s[k]
  BY OneMore
<1>2. \A k \in 1..n : t[k] = "blank"
  BY <1>1 DEF Seems
<1> HIDE DEF t, n
<1>3. ASSUME c = "blank" PROVE Seems("lead", t)
  <2>1. SUFFICES ASSUME NEW k \in 1..n + 1 PROVE t[k] = "blank"
    BY <1>1 DEF Seems
  <2>2. k = n + 1 \/ k \in 1..n
    BY <1>1
  <2>3. QED
    BY <1>1, <1>2, <1>3, <2>2
<1>4. ASSUME c = "nameserver" PROVE Seems("keyword", t)
  <2>1. n + 1 - 1 = n
    BY <1>1
  <2>2. NameAt(t, n + 1)
    BY <1>1, <1>2, <1>4, <2>1 DEF NameAt
  <2>3. QED
    BY <1>1, <2>2 DEF Seems
<1>5. ASSUME c \notin {"blank", "nameserver"} PROVE ~IsNameserver(t)
  <2>1. SUFFICES ASSUME NEW j \in 1..n + 1, NameAt(t, j) PROVE FALSE
    BY <1>1 DEF IsNameserver
  <2>2. j = n + 1 \/ j \in 1..n
    BY <1>1
  <2>3. t[j] = "nameserver"
    BY <2>1 DEF NameAt
  <2>4. QED
    BY <1>1, <1>2, <1>5, <2>2, <2>3
<1>6. QED
  BY <1>3, <1>4, <1>5 DEF t

\* After the directive's name.
LEMMA KeywordReads ==
    ASSUME NEW s \in Seq(ResolvConf!Chars), NEW c \in ResolvConf!Chars,
           Seems("keyword", s)
    PROVE  LET t == Append(s, c)
           IN  IF ResolvConf!EndsField(c) THEN Seems("gap", t)
               ELSE ~IsNameserver(t)
<1> DEFINE t == Append(s, c)
           n == Len(s)
<1>1. /\ n \in Nat /\ Len(t) = n + 1 /\ DOMAIN t = 1..n + 1
      /\ t[n + 1] = c /\ \A k \in 1..n : t[k] = s[k]
  BY OneMore
<1>2. s # <<>> /\ NameAt(s, n)
  BY DEF Seems
<1>3. n \in 1..n
  BY <1>1, <1>2
<1>4. t[n] = "nameserver" /\ \A k \in 1..n - 1 : t[k] = "blank"
  <2>1. \A k \in 1..n - 1 : k \in 1..n
    BY <1>1
  <2>2. QED
    BY <1>1, <1>2, <1>3, <2>1 DEF NameAt
<1> HIDE DEF t, n
<1>5. ASSUME ResolvConf!EndsField(c) PROVE Seems("gap", t)
  <2>1. n \in 1..(n + 1) - 1
    BY <1>3
  <2>2. NameAt(t, n) /\ ResolvConf!EndsField(t[n + 1])
    BY <1>1, <1>4, <1>5 DEF NameAt
  <2>3. QED
    BY <1>1, <2>1, <2>2 DEF Seems
<1>6. ASSUME ~ResolvConf!EndsField(c) PROVE ~IsNameserver(t)
  <2>1. SUFFICES ASSUME NEW j \in 1..n + 1, NameAt(t, j),
                        j < n + 1 => ResolvConf!EndsField(t[j + 1])
                 PROVE  FALSE
    BY <1>1 DEF IsNameserver
  <2>2. j = n + 1 \/ j = n \/ j \in 1..n - 1
    BY <1>1
  <2>3. CASE j = n + 1
    <3>1. n \in 1..j - 1
      BY <1>3, <2>3
    <3>2. t[n] = "blank"
      BY <2>1, <3>1 DEF NameAt
    <3>3. QED
      BY <1>4, <3>2
  <2>4. CASE j = n
    <3>1. j < n + 1
      BY <1>1, <2>4
    <3>2. QED
      BY <1>1, <1>6, <2>1, <2>4, <3>1
  <2>5. CASE j \in 1..n - 1
    <3>1. t[j] = "nameserver"
      BY <2>1 DEF NameAt
    <3>2. QED
      BY <1>4, <2>5, <3>1
  <2>6. QED
    BY <2>2, <2>3, <2>4, <2>5
<1>7. QED
  BY <1>5, <1>6 DEF t

\* What a line seems to be after the directive's name does not change.
LEMMA GapReads ==
    ASSUME NEW s \in Seq(ResolvConf!Chars), NEW c \in ResolvConf!Chars,
           Seems("gap", s)
    PROVE  Seems("gap", Append(s, c))
<1> DEFINE t == Append(s, c)
           n == Len(s)
<1>1. /\ n \in Nat /\ Len(t) = n + 1 /\ \A k \in 1..n : t[k] = s[k]
  BY OneMore
<1>2. PICK j \in 1..n - 1 : NameAt(s, j) /\ ResolvConf!EndsField(s[j + 1])
  BY DEF Seems
<1> HIDE DEF t, n
<1>3. /\ j \in 1..n /\ j + 1 \in 1..n /\ j \in 1..(n + 1) - 1
      /\ \A k \in 1..j - 1 : k \in 1..n
  BY <1>1, <1>2
<1>4. NameAt(t, j) /\ ResolvConf!EndsField(t[j + 1])
  BY <1>1, <1>2, <1>3 DEF NameAt
<1>5. Seems("gap", t)
  BY <1>1, <1>3, <1>4 DEF Seems
<1>6. QED
  BY <1>5 DEF t

\* The same beginnings, when the line has been read.
LEMMA EndReads ==
    ASSUME NEW s \in Seq(ResolvConf!Chars)
    PROVE  /\ Seems("lead", s) => ~IsNameserver(s)
           /\ Seems("keyword", s) => IsNameserver(s)
           /\ Seems("gap", s) => IsNameserver(s)
<1> DEFINE n == Len(s)
<1>1. n \in Nat /\ DOMAIN s = 1..n
  OBVIOUS
<1>2. ASSUME Seems("lead", s) PROVE ~IsNameserver(s)
  <2>1. SUFFICES ASSUME NEW j \in 1..n, NameAt(s, j) PROVE FALSE
    BY <1>1 DEF IsNameserver
  <2>2. s[j] = "blank" /\ s[j] = "nameserver"
    BY <1>2, <2>1 DEF Seems, NameAt
  <2>3. QED
    BY <2>2
<1>3. ASSUME Seems("keyword", s) PROVE IsNameserver(s)
  <2>1. s # <<>> /\ NameAt(s, n)
    BY <1>3 DEF Seems
  <2>2. n \in DOMAIN s /\ ~(n < n)
    BY <1>1, <2>1
  <2>3. QED
    BY <2>1, <2>2 DEF IsNameserver
<1>4. ASSUME Seems("gap", s) PROVE IsNameserver(s)
  <2>1. PICK j \in 1..n - 1 : NameAt(s, j) /\ ResolvConf!EndsField(s[j + 1])
    BY <1>4 DEF Seems
  <2>2. j \in DOMAIN s
    BY <1>1
  <2>3. QED
    BY <2>1, <2>2 DEF IsNameserver
<1>5. QED
  BY <1>2, <1>3, <1>4

\* "gap" and "address" say the same of the line.
LEMMA SeemsSame == \A s : Seems("address", s) <=> Seems("gap", s)
BY DEF Seems

\* Nothing has been read.
LEMMA ResolvConfInit == ResolvConf!Init => ResolvConfInv
<1> SUFFICES ASSUME ResolvConf!Init PROVE ResolvConfInv
  OBVIOUS
<1>1. /\ line = <<>> /\ place = "lead" /\ address = <<>>
      /\ result = ResolvConf!NoResult
  BY DEF ResolvConf!Init
<1>2. /\ line \in Seq(ResolvConf!Chars) /\ address \in Seq(ResolvConf!Addressing)
      /\ Len(line) = 0
  BY <1>1
<1>3. Seems("lead", line)
  BY <1>2 DEF Seems
<1>4. QED
  BY <1>1, <1>2, <1>3 DEF ResolvConfInv

\* Each character read keeps the line and the place in it together.
LEMMA ResolvConfStep ==
    ASSUME ResolvConfInv, [ResolvConf!Next]_(ResolvConf!vars)
    PROVE  ResolvConfInv'
<1>1. /\ line \in Seq(ResolvConf!Chars)
      /\ place \in {"lead", "keyword", "gap", "address", "done"}
      /\ address \in Seq(ResolvConf!Addressing)
      /\ Seems(place, line)
      /\ place # "done" => result = ResolvConf!NoResult
  BY DEF ResolvConfInv
<1>2. /\ Seems(place, line)' = Seems(place', line')
      /\ IsNameserver(line)' = IsNameserver(line')
  BY DEF Seems, IsNameserver, NameAt, ResolvConf!EndsField
<1>3. ResolvConf!Classified(address)' = ResolvConf!Classified(address')
      /\ (ResolvConf!NoResult)' = ResolvConf!NoResult
  BY DEF ResolvConf!Classified, ResolvConf!NoResult, ResolvConf!Unusable,
         ResolvConf!Wrapped, ResolvConf!Stored, ResolvConf!Fits,
         ResolvConf!Has, ResolvConf!Bracketed
<1>4. SUFFICES /\ line' \in Seq(ResolvConf!Chars)
               /\ place' \in {"lead", "keyword", "gap", "address", "done"}
               /\ address' \in Seq(ResolvConf!Addressing)
               /\ Seems(place', line')
               /\ place' # "done" => result' = ResolvConf!NoResult
               /\ place' = "done" =>
                     result' = IF IsNameserver(line')
                               THEN ResolvConf!Classified(address')
                               ELSE ResolvConf!NoResult
  BY <1>2, <1>3 DEF ResolvConfInv
<1>5. Seems("done", line')
  BY DEF Seems
<1>6. ASSUME NEW c \in ResolvConf!Chars, ResolvConf!Lead(c)
      PROVE  /\ line' \in Seq(ResolvConf!Chars)
             /\ place' \in {"lead", "keyword", "gap", "address", "done"}
             /\ address' \in Seq(ResolvConf!Addressing)
             /\ Seems(place', line')
             /\ place' # "done" => result' = ResolvConf!NoResult
             /\ place' = "done" =>
                   result' = IF IsNameserver(line')
                             THEN ResolvConf!Classified(address')
                             ELSE ResolvConf!NoResult
  <2>1. /\ place = "lead" /\ line' = Append(line, c)
        /\ place' = CASE c = "blank" -> "lead"
                      [] c = "nameserver" -> "keyword"
                      [] OTHER -> "done"
        /\ address' = address /\ result' = result
    BY <1>6 DEF ResolvConf!Lead
  <2>2. line' \in Seq(ResolvConf!Chars)
    BY <1>1, <2>1
  <2>3. result' = ResolvConf!NoResult
    BY <1>1, <2>1
  <2>4. CASE c = "blank"
    <3>1. place' = "lead"
      BY <2>1, <2>4
    <3>2. QED
      BY <1>1, <2>1, <2>2, <2>3, <2>4, <3>1, LeadReads
  <2>5. CASE c = "nameserver"
    <3>1. place' = "keyword"
      BY <2>1, <2>5
    <3>2. QED
      BY <1>1, <2>1, <2>2, <2>3, <2>5, <3>1, LeadReads
  <2>6. CASE c \notin {"blank", "nameserver"}
    <3>1. place' = "done"
      BY <2>1, <2>6
    <3>2. ~IsNameserver(line')
      BY <1>1, <2>1, <2>6, LeadReads
    <3>3. QED
      BY <1>1, <1>5, <2>1, <2>2, <2>3, <3>1, <3>2
  <2>7. QED
    BY <2>4, <2>5, <2>6
<1>7. ASSUME NEW c \in ResolvConf!Addressing \cup {"blank", "end"},
             ResolvConf!Rest(c)
      PROVE  /\ line' \in Seq(ResolvConf!Chars)
             /\ place' \in {"lead", "keyword", "gap", "address", "done"}
             /\ address' \in Seq(ResolvConf!Addressing)
             /\ Seems(place', line')
             /\ place' # "done" => result' = ResolvConf!NoResult
             /\ place' = "done" =>
                   result' = IF IsNameserver(line')
                             THEN ResolvConf!Classified(address')
                             ELSE ResolvConf!NoResult
  <2>1. place \in {"keyword", "gap", "address"} /\ line' = Append(line, c)
    BY <1>7 DEF ResolvConf!Rest
  <2>2. c \in ResolvConf!Chars /\ line' \in Seq(ResolvConf!Chars)
    BY <1>1, <2>1 DEF ResolvConf!Chars
  <2>3. result = ResolvConf!NoResult
    BY <1>1, <2>1
  <2>4. CASE place = "keyword" /\ ~ResolvConf!EndsField(c)
    <3>1. place' = "done" /\ address' = address /\ result' = result
      BY <1>7, <2>4 DEF ResolvConf!Rest, ResolvConf!KeywordEnds
    <3>2. ~IsNameserver(line')
      BY <1>1, <2>1, <2>2, <2>4, KeywordReads
    <3>3. QED
      BY <1>1, <1>5, <2>2, <2>3, <3>1, <3>2
  <2>5. CASE ~(place = "keyword" /\ ~ResolvConf!EndsField(c))
    <3>1. Seems("gap", line')
      <4>1. CASE place = "keyword"
        BY <1>1, <2>1, <2>2, <2>5, <4>1, KeywordReads
      <4>2. CASE place # "keyword"
        <5>1. Seems("gap", line)
          BY <1>1, <2>1, <4>2, SeemsSame
        <5>2. QED
          BY <1>1, <2>1, <2>2, <5>1, GapReads
      <4>3. QED
        BY <4>1, <4>2
    <3>2. IsNameserver(line')
      BY <2>2, <3>1, EndReads
    <3>3. Seems("address", line')
      BY <3>1, SeemsSame
    <3>4. CASE ~ResolvConf!EndsField(c)
      <4>1. /\ place' = "address" /\ address' = Append(address, c)
            /\ result' = result
        BY <1>7, <2>5, <3>4 DEF ResolvConf!Rest, ResolvConf!KeywordEnds
      <4>2. c \in ResolvConf!Addressing
        BY <3>4 DEF ResolvConf!EndsField
      <4>3. address' \in Seq(ResolvConf!Addressing)
        BY <1>1, <4>1, <4>2
      <4>4. QED
        BY <2>2, <2>3, <3>3, <4>1, <4>3
    <3>5. CASE ResolvConf!EndsField(c) /\ c = "blank" /\ place # "address"
      <4>1. place' = "gap" /\ address' = address /\ result' = result
        BY <1>7, <2>5, <3>5 DEF ResolvConf!Rest, ResolvConf!KeywordEnds
      <4>2. QED
        BY <1>1, <2>2, <2>3, <3>1, <4>1
    <3>6. CASE ResolvConf!EndsField(c) /\ ~(c = "blank" /\ place # "address")
      <4>1. /\ place' = "done" /\ address' = address
            /\ result' = ResolvConf!Classified(address)
        BY <1>7, <2>5, <3>6 DEF ResolvConf!Rest, ResolvConf!KeywordEnds
      <4>2. QED
        BY <1>1, <1>5, <2>2, <3>2, <4>1
    <3>7. QED
      BY <3>4, <3>5, <3>6
  <2>6. QED
    BY <2>4, <2>5
<1>8. CASE ResolvConf!EndOfText
  <2>1. /\ place # "done" /\ place' = "done" /\ line' = line
        /\ address' = address
        /\ result' = IF place = "lead" THEN ResolvConf!NoResult
                     ELSE ResolvConf!Classified(address)
    BY <1>8 DEF ResolvConf!EndOfText
  <2>2. IsNameserver(line') <=> place # "lead"
    BY <1>1, <2>1, EndReads, SeemsSame
  <2>3. result' = IF IsNameserver(line') THEN ResolvConf!Classified(address')
                  ELSE ResolvConf!NoResult
    BY <2>1, <2>2
  <2>4. QED
    BY <1>1, <1>5, <2>1, <2>3
<1>9. CASE UNCHANGED ResolvConf!vars
  BY <1>9 DEF ResolvConf!vars, ResolvConfInv
<1>10. QED
  BY <1>6, <1>7, <1>8, <1>9 DEF ResolvConf!Next

\* The place, the line and the result agree in every state.
LEMMA ResolvConfInvariant == PartsSpec => []ResolvConfInv
<1>1. ResolvConfInv /\ [ResolvConf!Next]_(ResolvConf!vars) => ResolvConfInv'
  BY ResolvConfStep
<1>2. ResolvConf!Spec => []ResolvConfInv
  BY <1>1, ResolvConfInit, PTL DEF ResolvConf!Spec
<1>3. QED
  BY <1>2, PartsRun, PTL

\* The argument made of a line is terminated within its capacity.
LEMMA ResolvConfTypes == ResolvConfInv => ResolvConf!TypeOK
<1> SUFFICES ASSUME ResolvConfInv PROVE ResolvConf!TypeOK
  OBVIOUS
<1>1. result = ResolvConf!NoResult \/ result = ResolvConf!Classified(address)
  BY DEF ResolvConfInv
<1>2. /\ result.kind \in {"none", "inet", "inet6", "unusable"}
      /\ Len(result.out) + 1 <= Capacity
  <2>1. CASE result = ResolvConf!NoResult
    BY <2>1, ResolvConfFacts DEF ResolvConf!NoResult
  <2>2. CASE result = ResolvConf!Classified(address)
    BY <2>2, ClassifiedFits DEF ResolvConfInv
  <2>3. QED
    BY <1>1, <2>1, <2>2
<1>3. QED
  BY <1>2 DEF ResolvConfInv, ResolvConf!TypeOK

(***************************************************************************)
(* rn_resolv_conf_nameserver takes a line for a nameserver exactly when it *)
(* is one; nginx reads from the argument the host and the family of the    *)
(* line, for lines of any length and buffers of any capacity.              *)
(***************************************************************************)
THEOREM NameserverStaysExact == PartsSpec => []NameserverExact
<1>1. ASSUME ResolvConfInv PROVE NameserverExact
  <2>1. address \in Seq(ResolvConf!Addressing)
    BY <1>1 DEF ResolvConfInv
  <2>2. ASSUME place = "done"
        PROVE  /\ IsNameserver(line) => result = ResolvConf!Classified(address)
               /\ (result.kind # "none") <=> IsNameserver(line)
    <3>1. CASE IsNameserver(line)
      <4>1. result = ResolvConf!Classified(address)
        BY <1>1, <2>2, <3>1 DEF ResolvConfInv
      <4>2. QED
        BY <2>1, <3>1, <4>1, ClassifiedFits
    <3>2. CASE ~IsNameserver(line)
      <4>1. result = ResolvConf!NoResult
        BY <1>1, <2>2, <3>2 DEF ResolvConfInv
      <4>2. result.kind = "none"
        BY <4>1 DEF ResolvConf!NoResult
      <4>3. QED
        BY <3>2, <4>2
    <3>3. QED
      BY <3>1, <3>2
  <2>3. ResolvConf!OnlyNameservers
    <3>1. IsNameserver(line) <=> \E j \in DOMAIN line :
              /\ line[j] = "nameserver"
              /\ \A k \in 1..j - 1 : line[k] = "blank"
              /\ j < Len(line) => ResolvConf!EndsField(line[j + 1])
      BY DEF IsNameserver, NameAt
    <3>2. QED
      BY <2>2, <3>1, Zenon DEF ResolvConf!OnlyNameservers
  <2>4. ResolvConf!NginxReadsTheNameserver
    BY <2>1, <2>2, ClassifiedFits, ClassifiedReads, Zenon
    DEF ResolvConf!NginxReadsTheNameserver
  <2>5. QED
    BY <2>3, <2>4 DEF NameserverExact
<1>2. QED
  BY <1>1, ResolvConfInvariant, PTL

(***************************************************************************)
(* Numbers and rates                                                       *)
(***************************************************************************)

Characters == [is : Parse!Marks \cup {"digit"}, d : 0..9]

\* f[k] is the number the first k characters of s denote.
ValueFollow(s, f) ==
    f[0] = 0 /\ \A k \in 1..Len(s) : f[k] = 10 * f[k - 1] + s[k].d

\* The recursive definition of ValueOf, unfolded.
LEMMA ValueSteps ==
    ASSUME NEW s \in Seq(Characters)
    PROVE  \E f \in [0..Len(s) -> Nat] :
               ValueFollow(s, f) /\ Parse!ValueOf(s) = f[Len(s)]
<1> DEFINE n == Len(s)
           Step(f) == [m \in 0..n |-> IF m = 0 THEN 0
                                      ELSE 10 * f[m - 1] + s[m].d]
           c == CHOOSE f : f = Step(f)
           next == [k \in 0 + 1..n |-> [x \in Nat |-> 10 * x + s[k].d]]
<1>1. n \in Nat
  OBVIOUS
<1>2. \A k \in 1..n : s[k].d \in Nat
  <2>1. \A k \in 1..n : s[k] \in Characters
    OBVIOUS
  <2>2. QED
    BY <2>1 DEF Characters
<1>3. \A k \in 0 + 1..n : \A x \in Nat : next[k][x] = 10 * x + s[k].d
  OBVIOUS
<1>4. \A k \in 0 + 1..n : \A x \in Nat : next[k][x] \in Nat
  BY <1>2, <1>3
<1>5. PICK f \in [0..n -> Nat] : Follows(f, 0, n, 0, next)
  <2>1. 0 \in Nat /\ n \in Int /\ 0 \in Int /\ 0 <= n
    BY <1>1
  <2> HIDE DEF next, n
  <2>2. QED
    BY <1>4, <2>1, Recursive, Zenon
<1>6. ASSUME NEW m \in 0 + 1..n
      PROVE  f[m] = 10 * f[m - 1] + s[m].d
  <2>1. m - 1 \in 0..n
    BY <1>1
  <2>2. f[m - 1] \in Nat
    BY <2>1
  <2>3. next[m][f[m - 1]] = 10 * f[m - 1] + s[m].d
    BY <1>3, <2>2
  <2> HIDE DEF next
  <2>4. QED
    BY <1>5, <2>3, Zenon DEF Follows
<1>7. f[0] = 0
  BY <1>5, Zenon DEF Follows
<1>8. \A m \in 0..n : m # 0 => m \in 0 + 1..n
  BY <1>1
<1> HIDE DEF next
<1>9. Parse!ValueOf(s) = c[n]
  BY DEF Parse!ValueOf
<1>10. f = Step(f)
  <2>1. \A m \in 0..n : f[m] = IF m = 0 THEN 0 ELSE 10 * f[m - 1] + s[m].d
    BY <1>6, <1>7, <1>8
  <2>2. QED
    BY <2>1
<1>11. c = Step(c)
  BY <1>10
<1> HIDE DEF c
<1>12. \A k \in 0..n : Agree(c, f, k)
  <2>1. PICK z \in Int : z = 0
    OBVIOUS
  <2>2. Step(c)[0] = 0
    BY <1>1
  <2>3. Agree(c, f, z)
    BY <1>7, <1>11, <2>1, <2>2 DEF Agree
  <2>4. ASSUME NEW k \in z + 1..n, Agree(c, f, k - 1)
        PROVE  Agree(c, f, k)
    <3>1. k \in 0..n /\ k # 0 /\ k \in 0 + 1..n
      BY <1>1, <2>1
    <3>2. Step(c)[k] = 10 * c[k - 1] + s[k].d
      BY <3>1
    <3>3. c[k] = 10 * c[k - 1] + s[k].d
      BY <1>11, <3>2
    <3>4. f[k] = 10 * f[k - 1] + s[k].d
      BY <1>6, <3>1
    <3>5. QED
      BY <2>4, <3>3, <3>4 DEF Agree
  <2>5. n \in Int
    BY <1>1
  <2>6. QED
    BY <2>1, <2>3, <2>4, <2>5, SameUpTo
<1>13. c[n] = f[n] /\ ValueFollow(s, f)
  BY <1>1, <1>6, <1>7, <1>12 DEF Agree, ValueFollow
<1>14. QED
  BY <1>9, <1>13

\* The value of a text is a number; that of no text is 0.
LEMMA ValueNat ==
    /\ Parse!ValueOf(<<>>) = 0
    /\ \A s \in Seq(Characters) : Parse!ValueOf(s) \in Nat
<1>1. ASSUME NEW s \in Seq(Characters)
      PROVE  Parse!ValueOf(s) \in Nat /\ (Len(s) = 0 => Parse!ValueOf(s) = 0)
  BY ValueSteps DEF ValueFollow
<1>2. PICK s \in Seq(Characters) : s = <<>>
  <2>1. <<>> \in Seq(Characters)
    OBVIOUS
  <2>2. QED
    BY <2>1, Zenon
<1>3. Len(s) = 0
  BY <1>2
<1>4. QED
  BY <1>1, <1>2, <1>3

\* One more character.
LEMMA ValueAppend ==
    ASSUME NEW s \in Seq(Characters), NEW c \in Characters
    PROVE  Parse!ValueOf(Append(s, c)) = 10 * Parse!ValueOf(s) + c.d
<1> DEFINE long == Append(s, c)
           n == Len(s)
<1>1. /\ long \in Seq(Characters) /\ n \in Nat /\ Len(long) = n + 1
      /\ long[n + 1] = c /\ \A k \in 1..n : long[k] = s[k]
  OBVIOUS
<1>2. PICK f \in [0..n -> Nat] :
          ValueFollow(s, f) /\ Parse!ValueOf(s) = f[n]
  BY ValueSteps
<1> HIDE DEF long
<1>3. PICK g \in [0..n + 1 -> Nat] :
          ValueFollow(long, g) /\ Parse!ValueOf(long) = g[n + 1]
  BY <1>1, ValueSteps
<1>4. Agree(f, g, n)
  <2>1. PICK z \in Int : z = 0
    OBVIOUS
  <2>2. Agree(f, g, z)
    BY <1>2, <1>3, <2>1 DEF ValueFollow, Agree
  <2>3. ASSUME NEW k \in z + 1..n, Agree(f, g, k - 1)
        PROVE  Agree(f, g, k)
    <3>1. k \in 1..n /\ k \in 1..n + 1
      BY <1>1, <2>1
    <3>2. f[k] = 10 * f[k - 1] + s[k].d /\ g[k] = 10 * g[k - 1] + long[k].d
      BY <1>1, <1>2, <1>3, <3>1 DEF ValueFollow
    <3>3. QED
      BY <1>1, <2>3, <3>1, <3>2 DEF Agree
  <2>4. n \in Int /\ n \in z..n
    BY <1>1, <2>1
  <2>5. QED
    BY <2>2, <2>3, <2>4, SameUpTo
<1>5. g[n + 1] = 10 * g[n + 1 - 1] + long[n + 1].d
  <2>1. \A k \in 1..Len(long) : g[k] = 10 * g[k - 1] + long[k].d
    BY <1>3 DEF ValueFollow
  <2>2. n + 1 \in 1..Len(long)
    BY <1>1
  <2>3. QED
    BY <2>1, <2>2
<1>6. n + 1 - 1 = n
  BY <1>1
<1>7. QED
  BY <1>1, <1>2, <1>3, <1>4, <1>5, <1>6 DEF Agree, long

\* The constants of RnParse.
LEMMA ParseFacts ==
    /\ NumberMax \in Nat /\ NumberMax >= 9 /\ NumberSecondMs \in Nat \ {0}
    /\ Digits \subseteq 0..9
    /\ \A u \in Parse!Units : Parse!Factor(u) \in Nat \ {0}
    /\ \A n \in 0..NumberMax : Parse!Trunc(n) = n
<1>1. /\ NumberMax \in Nat /\ NumberMax >= 9 /\ NumberSecondMs \in Nat \ {0}
      /\ Digits \subseteq 0..9
  BY PartsAssumption DEF Parse!ParseConstants, Parse!NumericConstants
<1>2. \A u \in Parse!Units : Parse!Factor(u) \in Nat \ {0}
  BY <1>1 DEF Parse!Units, Parse!Factor
<1>3. \A n \in 0..NumberMax : Parse!Trunc(n) = n
  BY <1>1 DEF Parse!Trunc
<1>4. QED
  BY <1>1, <1>2, <1>3

\* The guard of the digit loops admits exactly what fits.
LEMMA DigitExact ==
    ASSUME NEW v \in 0..NumberMax, NEW d \in 0..9
    PROVE  /\ Parse!DigitFits(v, d) <=> 10 * v + d <= NumberMax
           /\ Parse!DigitFits(v, d) =>
                 Parse!AddDigit(v, d) = 10 * v + d
                 /\ Parse!AddDigit(v, d) \in 0..NumberMax
<1>1. NumberMax - d \in Nat /\ v \in Nat /\ d \in Nat /\ 10 \in Nat \ {0}
  BY ParseFacts
<1>2. v <= (NumberMax - d) \div 10 <=> v * 10 <= NumberMax - d
  BY <1>1, Quotient
<1>3. Parse!DigitFits(v, d) <=> 10 * v + d <= NumberMax
  BY <1>1, <1>2, ParseFacts DEF Parse!DigitFits
<1>4. ASSUME 10 * v + d <= NumberMax
      PROVE  Parse!AddDigit(v, d) = 10 * v + d
  <2>1. v * 10 + d = 10 * v + d /\ 10 * v + d \in 0..NumberMax
    BY <1>1, <1>4, ParseFacts
  <2>2. QED
    BY <2>1, ParseFacts DEF Parse!AddDigit
<1>5. QED
  BY <1>1, <1>3, <1>4, ParseFacts

\* The guard of the period's conversion admits exactly what fits.
LEMMA WindowExact ==
    ASSUME NEW w \in Nat, NEW u \in Parse!Units
    PROVE  Parse!WindowFits(w, Parse!Factor(u)) <=>
               w * Parse!Factor(u) <= NumberMax
BY ParseFacts, Quotient DEF Parse!WindowFits

\* s is the beginning of t.
Begins(s, t) == Len(s) <= Len(t) /\ \A k \in 1..Len(s) : t[k] = s[k]

\* What a text begins with is the same part of it.
LEMMA SamePart ==
    ASSUME NEW s \in Seq(Characters), NEW t \in Seq(Characters), Begins(s, t),
           NEW a \in Nat \ {0}, NEW b \in Nat, b <= Len(s)
    PROVE  /\ SubSeq(t, a, b) = SubSeq(s, a, b)
           /\ SubSeq(s, a, b) \in Seq(Characters)
<1>1. Len(s) \in Nat /\ Len(t) \in Nat /\ b <= Len(t)
  BY DEF Begins
<1>2. SubSeq(s, a, b) \in Seq(Characters) /\ SubSeq(t, a, b) \in Seq(Characters)
  BY <1>1
<1>3. Len(SubSeq(t, a, b)) = Len(SubSeq(s, a, b))
  BY <1>1
<1>4. ASSUME NEW k \in 1..Len(SubSeq(t, a, b))
      PROVE  SubSeq(t, a, b)[k] = SubSeq(s, a, b)[k]
  <2>1. a <= b /\ k \in 1..(b - a + 1)
    BY <1>1
  <2>2. SubSeq(t, a, b)[k] = t[a + k - 1] /\ SubSeq(s, a, b)[k] = s[a + k - 1]
    BY <1>1, <2>1
  <2>3. a + k - 1 \in 1..Len(s)
    BY <1>1, <2>1
  <2>4. QED
    BY <2>2, <2>3 DEF Begins
<1>5. QED
  BY <1>2, <1>3, <1>4, SeqEqual

\* The part of a text up to its end grows with the text.
LEMMA GrowingPart ==
    ASSUME NEW s \in Seq(Characters), NEW c \in Characters,
           NEW a \in 1..Len(s) + 1
    PROVE  /\ SubSeq(Append(s, c), a, Len(s) + 1) = Append(SubSeq(s, a, Len(s)), c)
           /\ SubSeq(s, a, Len(s)) \in Seq(Characters)
<1> DEFINE t == Append(s, c)
           n == Len(s)
           p == SubSeq(s, a, n)
           q == SubSeq(t, a, n + 1)
<1>1. /\ n \in Nat /\ t \in Seq(Characters) /\ Len(t) = n + 1
      /\ t[n + 1] = c /\ \A k \in 1..n : t[k] = s[k]
  OBVIOUS
<1>2. p \in Seq(Characters) /\ Len(p) = n - a + 1
  BY <1>1
<1>3. Append(p, c) \in Seq(Characters) /\ Len(Append(p, c)) = n - a + 2
  BY <1>2
<1> HIDE DEF t
<1>4. q \in Seq(Characters) /\ Len(q) = n - a + 2
  BY <1>1
<1>5. ASSUME NEW k \in 1..n - a + 2
      PROVE  q[k] = Append(p, c)[k]
  <2>1. q[k] = t[a + k - 1]
    BY <1>1
  <2>2. CASE k = n - a + 2
    <3>1. a + k - 1 = n + 1 /\ k = Len(p) + 1
      BY <1>1, <1>2, <2>2
    <3>2. Append(p, c)[k] = c
      BY <1>2, <3>1
    <3>3. QED
      BY <1>1, <2>1, <3>1, <3>2
  <2>3. CASE k \in 1..n - a + 1
    <3>1. a + k - 1 \in 1..n
      BY <1>1, <2>3
    <3>2. p[k] = s[a + k - 1]
      BY <1>1, <2>3
    <3>3. Append(p, c)[k] = p[k]
      BY <1>2, <2>3
    <3>4. QED
      BY <1>1, <2>1, <3>1, <3>2, <3>3
  <2>4. QED
    BY <1>1, <2>2, <2>3
<1> HIDE DEF p, q
<1>6. q = Append(p, c)
  BY <1>3, <1>4, <1>5, SeqEqual
<1>7. QED
  BY <1>2, <1>6 DEF p, q, t

\* A part consists of digits if the text does, from a to b.
LEMMA DigitsOfPart ==
    ASSUME NEW s \in Seq(Characters), NEW a \in Nat \ {0}, NEW b \in Nat,
           b <= Len(s)
    PROVE  Parse!AllDigits(SubSeq(s, a, b)) <=>
               \A k \in a..b : s[k].is = "digit"
<1> DEFINE p == SubSeq(s, a, b)
<1>1. CASE a > b
  <2>1. p = <<>>
    BY <1>1
  <2>2. QED
    BY <1>1, <2>1 DEF Parse!AllDigits
<1>2. CASE a <= b
  <2>1. DOMAIN p = 1..b - a + 1 /\ \A k \in 1..b - a + 1 : p[k] = s[a + k - 1]
    BY <1>2
  <2> HIDE DEF p
  <2>2. ASSUME Parse!AllDigits(p), NEW k \in a..b
        PROVE  s[k].is = "digit"
    <3>1. k - a + 1 \in 1..b - a + 1 /\ a + (k - a + 1) - 1 = k
      BY <1>2
    <3>2. QED
      BY <2>1, <2>2, <3>1 DEF Parse!AllDigits
  <2>3. ASSUME \A k \in a..b : s[k].is = "digit"
        PROVE  Parse!AllDigits(p)
    <3>1. \A k \in 1..b - a + 1 : a + k - 1 \in a..b
      BY <1>2
    <3>2. QED
      BY <2>1, <2>3, <3>1 DEF Parse!AllDigits
  <2>4. QED
    BY <2>2, <2>3 DEF p
<1>3. QED
  BY <1>1, <1>2

\* t begins with the digits of the rate r, i of them, and an "r".
RateRead(t, i, r) ==
    /\ i \in 1..Len(t) - 1
    /\ \A k \in 1..i : t[k].is = "digit"
    /\ t[i + 1].is = "r"
    /\ r = Parse!ValueOf(SubSeq(t, 1, i)) /\ r # 0

\* There follow a "/" and the digits of the period v, up to n.
PeriodRead(t, i, n, v) ==
    /\ n \in i + 2..Len(t)
    /\ t[i + 2].is = "/"
    /\ \A k \in i + 3..n : t[k].is = "digit"
    /\ v = Parse!ValueOf(SubSeq(t, i + 3, n))

\* What a text begins with has been read of it too.
LEMMA RateKept ==
    ASSUME NEW s \in Seq(Characters), NEW t \in Seq(Characters), Begins(s, t),
           NEW i, NEW r, RateRead(s, i, r)
    PROVE  RateRead(t, i, r)
<1>1. i \in 1..Len(s) - 1 /\ Len(s) \in Nat /\ Len(t) \in Nat
  BY DEF RateRead
<1>2. /\ i \in Nat /\ i <= Len(s) /\ i \in 1..Len(t) - 1
      /\ i + 1 \in 1..Len(s) /\ \A k \in 1..i : k \in 1..Len(s)
  BY <1>1 DEF Begins
<1>3. \A k \in 1..Len(s) : t[k] = s[k]
  BY DEF Begins
<1>4. SubSeq(t, 1, i) = SubSeq(s, 1, i)
  BY <1>2, SamePart
<1>5. QED
  BY <1>2, <1>3, <1>4 DEF RateRead

\* Likewise for the period.
LEMMA PeriodKept ==
    ASSUME NEW s \in Seq(Characters), NEW t \in Seq(Characters), Begins(s, t),
           NEW i \in Nat \ {0}, NEW n, NEW v, PeriodRead(s, i, n, v)
    PROVE  PeriodRead(t, i, n, v)
<1>1. n \in i + 2..Len(s) /\ Len(s) \in Nat /\ Len(t) \in Nat
  BY DEF PeriodRead
<1>2. /\ n \in Nat /\ n <= Len(s) /\ n \in i + 2..Len(t) /\ i + 3 \in Nat \ {0}
      /\ i + 2 \in 1..Len(s) /\ \A k \in i + 3..n : k \in 1..Len(s)
  BY <1>1 DEF Begins
<1>3. \A k \in 1..Len(s) : t[k] = s[k]
  BY DEF Begins
<1>4. SubSeq(t, i + 3, n) = SubSeq(s, i + 3, n)
  BY <1>2, SamePart
<1>5. QED
  BY <1>2, <1>3, <1>4 DEF PeriodRead

\* What a rate looks like, character by character.
LEMMA RateLooks ==
    ASSUME NEW t \in Seq(Characters), NEW i \in 1..Len(t), Parse!IsRate(t, i)
    PROVE  /\ i + 3 <= Len(t)
           /\ \A k \in 1..i : t[k].is = "digit"
           /\ t[i + 1].is = "r" /\ t[i + 2].is = "/"
           /\ \A k \in i + 3..Len(t) - 1 : t[k].is = "digit"
           /\ t[Len(t)].is \in Parse!Units
           /\ Parse!ValueOf(SubSeq(t, 1, i)) \in 1..NumberMax
           /\ Parse!ValueOf(SubSeq(t, i + 3, Len(t) - 1)) <= NumberMax
           /\ Parse!Period(SubSeq(t, i + 3, Len(t) - 1))
                * Parse!Factor(t[Len(t)].is) <= NumberMax
<1>1. /\ Len(t) >= i + 3
      /\ Parse!AllDigits(SubSeq(t, 1, i))
      /\ Parse!AllDigits(SubSeq(t, i + 3, Len(t) - 1))
      /\ t[i + 1].is = "r" /\ t[i + 2].is = "/" /\ t[Len(t)].is \in Parse!Units
      /\ Parse!ValueOf(SubSeq(t, 1, i)) \in 1..NumberMax
      /\ Parse!ValueOf(SubSeq(t, i + 3, Len(t) - 1)) <= NumberMax
      /\ Parse!Period(SubSeq(t, i + 3, Len(t) - 1))
           * Parse!Factor(t[Len(t)].is) <= NumberMax
  BY DEF Parse!IsRate
<1>2. /\ i \in Nat /\ i <= Len(t) /\ i + 3 \in Nat \ {0} /\ 1 \in Nat \ {0}
      /\ Len(t) - 1 \in Nat /\ Len(t) - 1 <= Len(t) /\ i + 3 <= Len(t)
  BY <1>1
<1>3. \A k \in 1..i : t[k].is = "digit"
  BY <1>1, <1>2, DigitsOfPart
<1>4. \A k \in i + 3..Len(t) - 1 : t[k].is = "digit"
  BY <1>1, <1>2, DigitsOfPart
<1>5. QED
  BY <1>1, <1>2, <1>3, <1>4

\* The digits of the rate end in one place.
LEMMA OneRate ==
    ASSUME NEW t \in Seq(Characters), NEW i \in 1..Len(t), Parse!IsRate(t, i),
           NEW j, NEW r, RateRead(t, j, r)
    PROVE  i = j
<1>1. /\ j \in 1..Len(t) - 1 /\ \A k \in 1..j : t[k].is = "digit"
      /\ t[j + 1].is = "r"
  BY DEF RateRead
<1>2. /\ i + 3 <= Len(t) /\ \A k \in 1..i : t[k].is = "digit"
      /\ t[i + 1].is = "r"
  BY RateLooks
<1>3. ~(i < j)
  <2>1. SUFFICES ASSUME i < j PROVE FALSE
    OBVIOUS
  <2>2. i + 1 \in 1..j
    BY <1>1, <2>1
  <2>3. QED
    BY <1>1, <1>2, <2>2
<1>4. ~(j < i)
  <2>1. SUFFICES ASSUME j < i PROVE FALSE
    OBVIOUS
  <2>2. j + 1 \in 1..i
    BY <1>1, <2>1
  <2>3. QED
    BY <1>1, <1>2, <2>2
<1>5. QED
  BY <1>1, <1>3, <1>4

\* A text that has been read in full is a rate exactly when it is in range.
LEMMA ReadInFull ==
    ASSUME NEW t \in Seq(Characters), NEW i, NEW r \in 0..NumberMax,
           NEW v \in 0..NumberMax,
           RateRead(t, i, r), PeriodRead(t, i, Len(t) - 1, v),
           t[Len(t)].is \in Parse!Units
    PROVE  LET w == IF v = 0 THEN 1 ELSE v
               f == Parse!Factor(t[Len(t)].is)
           IN  /\ i \in 1..Len(t)
               /\ Parse!IsRate(t, i) <=> w * f <= NumberMax
               /\ Parse!ValueOf(SubSeq(t, 1, i)) = r
               /\ Parse!Period(SubSeq(t, i + 3, Len(t) - 1)) = w
<1> DEFINE n == Len(t)
           w == IF v = 0 THEN 1 ELSE v
           f == Parse!Factor(t[Len(t)].is)
<1>1. /\ i \in 1..n - 1 /\ \A k \in 1..i : t[k].is = "digit"
      /\ t[i + 1].is = "r"
      /\ r = Parse!ValueOf(SubSeq(t, 1, i)) /\ r # 0
  BY DEF RateRead
<1>2. /\ n - 1 \in i + 2..n /\ t[i + 2].is = "/"
      /\ \A k \in i + 3..n - 1 : t[k].is = "digit"
      /\ v = Parse!ValueOf(SubSeq(t, i + 3, n - 1))
  BY DEF PeriodRead
<1>3. /\ i \in Nat /\ i <= n /\ i + 3 \in Nat \ {0} /\ n - 1 \in Nat
      /\ n - 1 <= n /\ n >= i + 3 /\ i \in 1..n /\ 1 \in Nat \ {0}
  <2>1. n \in Nat /\ i \in 1..n - 1 /\ n - 1 \in i + 2..n
    BY <1>1, <1>2
  <2> HIDE DEF n
  <2>2. QED
    BY <2>1
<1>4. /\ Parse!AllDigits(SubSeq(t, 1, i))
      /\ Parse!AllDigits(SubSeq(t, i + 3, n - 1))
  BY <1>1, <1>2, <1>3, DigitsOfPart
<1>5. Parse!Period(SubSeq(t, i + 3, n - 1)) = w
  BY <1>2 DEF Parse!Period
<1>6. r \in 1..NumberMax /\ v <= NumberMax
  BY <1>1, ParseFacts
<1>7. Parse!IsRate(t, i) <=> w * f <= NumberMax
  BY <1>1, <1>2, <1>3, <1>4, <1>5, <1>6 DEF Parse!IsRate
<1>8. QED
  BY <1>1, <1>3, <1>5, <1>7

\* t continues s without another digit.
Completed(s, t) ==
    Begins(s, t) /\ \A k \in Len(s) + 1..Len(t) : t[k].is # "digit"

\* The completions of RejectsExactly do.
LEMMA CompletionsComplete ==
    ASSUME NEW s \in Seq(Characters), NEW tail \in Parse!Completions
    PROVE  s \o tail \in Seq(Characters) /\ Completed(s, s \o tail)
<1>1. \A c \in {"s", "r", "/"} :
          Parse!Mark(c) \in Characters /\ Parse!Mark(c).is # "digit"
  BY DEF Parse!Mark, Characters, Parse!Marks, Parse!Units
<1>2. /\ Parse!Mark("s") \in Characters /\ Parse!Mark("s").is # "digit"
      /\ Parse!Mark("r") \in Characters /\ Parse!Mark("r").is # "digit"
      /\ Parse!Mark("/") \in Characters /\ Parse!Mark("/").is # "digit"
  BY <1>1
<1>3. tail \in Seq(Characters) /\ \A k \in 1..Len(tail) : tail[k].is # "digit"
  <2>1. CASE tail = <<>>
    BY <2>1
  <2>2. CASE tail = <<Parse!Mark("s")>>
    BY <1>2, <2>2
  <2>3. CASE tail = <<Parse!Mark("/"), Parse!Mark("s")>>
    BY <1>2, <2>3
  <2>4. CASE tail = <<Parse!Mark("r"), Parse!Mark("/"), Parse!Mark("s")>>
    BY <1>2, <2>4
  <2>5. QED
    BY <2>1, <2>2, <2>3, <2>4 DEF Parse!Completions
<1> DEFINE t == s \o tail
<1>4. /\ t \in Seq(Characters) /\ Len(t) = Len(s) + Len(tail)
      /\ \A k \in 1..Len(s) : t[k] = s[k]
      /\ \A k \in Len(s) + 1..Len(t) : t[k] = tail[k - Len(s)]
  BY <1>3
<1> HIDE DEF t
<1>5. \A k \in Len(s) + 1..Len(t) : k - Len(s) \in 1..Len(tail)
  BY <1>3, <1>4
<1>6. Len(s) <= Len(t)
  BY <1>3, <1>4
<1>7. QED
  BY <1>3, <1>4, <1>5, <1>6 DEF Completed, Begins, t

\* What is known of a continuation of a text and one more character.
LEMMA Continued ==
    ASSUME NEW s \in Seq(Characters), NEW c \in Characters,
           NEW t \in Seq(Characters), Completed(Append(s, c), t)
    PROVE  /\ Append(s, c) \in Seq(Characters) /\ Begins(Append(s, c), t)
           /\ Begins(s, t) /\ Begins(s, Append(s, c))
           /\ Len(s) \in Nat /\ Len(t) \in Nat /\ Len(s) + 1 <= Len(t)
           /\ \A k \in 1..Len(s) : t[k] = s[k]
           /\ t[Len(s) + 1] = c
           /\ \A k \in Len(s) + 2..Len(t) : t[k].is # "digit"
           /\ \A j \in Nat \ {0} : SubSeq(t, j, Len(s) + 1)
                                      = SubSeq(Append(s, c), j, Len(s) + 1)
<1> DEFINE a == Append(s, c)
           n == Len(s)
<1>1. /\ a \in Seq(Characters) /\ Len(a) = n + 1 /\ n \in Nat /\ a[n + 1] = c
      /\ \A k \in 1..n : a[k] = s[k]
  OBVIOUS
<1> HIDE DEF a
<1>2. /\ Begins(a, t) /\ n + 1 <= Len(t) /\ \A k \in 1..n + 1 : t[k] = a[k]
      /\ \A k \in (n + 1) + 1..Len(t) : t[k].is # "digit"
  BY <1>1 DEF Completed, Begins, a
<1>3. Len(t) \in Nat /\ n <= Len(t) /\ n <= n + 1 /\ (n + 1) + 1 = n + 2
      /\ n + 1 \in 1..n + 1 /\ \A k \in 1..n : k \in 1..n + 1
  BY <1>1, <1>2
<1>4. (\A k \in 1..n : t[k] = s[k]) /\ t[n + 1] = c
  BY <1>1, <1>2, <1>3
<1>5. Begins(s, t) /\ Begins(s, a)
  BY <1>1, <1>3, <1>4 DEF Begins
<1>6. ASSUME NEW j \in Nat \ {0}
      PROVE  SubSeq(t, j, n + 1) = SubSeq(a, j, n + 1)
  <2>1. n + 1 \in Nat /\ n + 1 <= Len(a)
    BY <1>1
  <2>2. QED
    BY <1>1, <1>2, <2>1, SamePart
<1>7. QED
  BY <1>1, <1>2, <1>3, <1>4, <1>5, <1>6 DEF a

\* No part of t is a rate.
NoRate(t) == \A i \in 1..Len(t) : ~Parse!IsRate(t, i)

\* A rate with one digit too many, or one that does not end as rates do.
LEMMA NoRateFirst ==
    ASSUME NEW s \in Seq(Characters), NEW c \in Characters,
           NEW t \in Seq(Characters), Completed(Append(s, c), t),
           \A k \in 1..Len(s) : s[k].is = "digit",
           \/ c.is = "digit" /\ 10 * Parse!ValueOf(s) + c.d > NumberMax
           \/ c.is # "digit" /\ (c.is # "r" \/ Parse!ValueOf(s) = 0)
    PROVE  NoRate(t)
<1> DEFINE a == Append(s, c)
           n == Len(s)
<1>1. /\ a \in Seq(Characters) /\ Begins(a, t) /\ Begins(s, t)
      /\ n \in Nat /\ Len(t) \in Nat /\ n + 1 <= Len(t)
      /\ \A k \in 1..n : t[k] = s[k]
      /\ t[n + 1] = c
      /\ \A k \in n + 2..Len(t) : t[k].is # "digit"
      /\ \A k \in Nat \ {0} : SubSeq(t, k, n + 1) = SubSeq(a, k, n + 1)
  BY Continued
<1>2. Len(a) = n + 1
  OBVIOUS
<1>3. SubSeq(a, 1, n + 1) = a /\ SubSeq(s, 1, n) = s
  <2> HIDE DEF a
  <2>1. SubSeq(a, 1, Len(a)) = a /\ SubSeq(s, 1, Len(s)) = s
    BY <1>1
  <2>2. QED
    BY <1>2, <2>1, Zenon
<1>4. Parse!ValueOf(a) = 10 * Parse!ValueOf(s) + c.d
  BY ValueAppend
<1>5. 10 * Parse!ValueOf(s) + c.d \in Nat
  <2>1. Parse!ValueOf(s) \in Nat
    BY ValueNat
  <2>2. c.d \in 0..9
    BY DEF Characters
  <2>3. \A x \in Nat : \A y \in 0..9 : 10 * x + y \in Nat
    OBVIOUS
  <2>4. QED
    BY <2>1, <2>2, <2>3, Zenon
<1> HIDE DEF a, n
<1>6. SUFFICES ASSUME NEW i \in 1..Len(t), Parse!IsRate(t, i)
               PROVE  FALSE
  BY DEF NoRate
<1>7. /\ i + 3 <= Len(t) /\ \A k \in 1..i : t[k].is = "digit"
      /\ t[i + 1].is = "r"
      /\ Parse!ValueOf(SubSeq(t, 1, i)) \in 1..NumberMax
  BY <1>6, RateLooks
<1>8. ~(i < n)
  <2>1. SUFFICES ASSUME i < n PROVE FALSE
    OBVIOUS
  <2>2. i + 1 \in 1..n
    BY <1>1, <2>1
  <2>3. t[i + 1].is = "digit"
    BY <1>1, <2>2 DEF n
  <2>4. QED
    BY <1>7, <2>3
<1>9. ~(i > n + 1)
  <2>1. SUFFICES ASSUME i > n + 1 PROVE FALSE
    OBVIOUS
  <2>2. n + 2 \in 1..i /\ n + 2 \in n + 2..Len(t)
    BY <1>1, <2>1
  <2>3. QED
    BY <1>1, <1>7, <2>2
<1>10. i = n \/ i = n + 1
  BY <1>1, <1>8, <1>9
<1>11. CASE c.is = "digit" /\ 10 * Parse!ValueOf(s) + c.d > NumberMax
  <2>1. i = n + 1
    <3>1. t[n + 1].is = "digit"
      BY <1>1, <1>11
    <3>2. i # n
      BY <1>7, <3>1
    <3>3. QED
      BY <1>10, <3>2
  <2>2. SubSeq(t, 1, n + 1) = SubSeq(a, 1, n + 1)
    <3>1. 1 \in Nat \ {0}
      OBVIOUS
    <3>2. QED
      BY <1>1, <3>1, Zenon
  <2>3. 10 * Parse!ValueOf(s) + c.d \in 1..NumberMax
    BY <1>3, <1>4, <1>7, <2>1, <2>2
  <2>4. QED
    BY <1>5, <1>11, <2>3, ParseFacts
<1>12. CASE c.is # "digit" /\ (c.is # "r" \/ Parse!ValueOf(s) = 0)
  <2>1. i = n
    <3>1. i = n + 1 => n + 1 \in 1..i
      BY <1>1
    <3>2. QED
      BY <1>1, <1>7, <1>10, <1>12, <3>1
  <2>2. c.is = "r"
    BY <1>1, <1>7, <2>1
  <2>3. SubSeq(t, 1, n) = SubSeq(s, 1, n)
    <3>1. n <= Len(s) /\ 1 \in Nat \ {0}
      BY <1>1 DEF n
    <3>2. QED
      BY <1>1, <3>1, SamePart
  <2>4. Parse!ValueOf(s) \in 1..NumberMax
    BY <1>3, <1>7, <2>1, <2>3
  <2>5. QED
    BY <1>12, <2>2, <2>4, ParseFacts
<1>13. QED
  BY <1>11, <1>12

\* A rate that is not followed by a "/".
LEMMA NoRateSlash ==
    ASSUME NEW s \in Seq(Characters), NEW c \in Characters,
           NEW t \in Seq(Characters), Completed(Append(s, c), t),
           NEW j, NEW r, RateRead(s, j, r), Len(s) = j + 1, c.is # "/"
    PROVE  NoRate(t)
<1>1. Begins(s, t) /\ t[Len(s) + 1] = c
  BY Continued
<1>2. RateRead(t, j, r)
  BY <1>1, RateKept
<1>3. SUFFICES ASSUME NEW i \in 1..Len(t), Parse!IsRate(t, i)
               PROVE  FALSE
  BY DEF NoRate
<1>4. i = j
  BY <1>2, <1>3, OneRate
<1>5. t[i + 2].is = "/"
  BY <1>3, RateLooks
<1>6. i + 2 = Len(s) + 1
  BY <1>4
<1>7. QED
  BY <1>1, <1>5, <1>6

\* A period with one digit too many.
LEMMA NoRateWindow ==
    ASSUME NEW s \in Seq(Characters), NEW c \in Characters,
           NEW t \in Seq(Characters), Completed(Append(s, c), t),
           NEW j, NEW r, NEW v \in Nat,
           RateRead(s, j, r), PeriodRead(s, j, Len(s), v),
           c.is = "digit", 10 * v + c.d > NumberMax
    PROVE  NoRate(t)
<1> DEFINE a == Append(s, c)
           n == Len(s)
<1>1. /\ a \in Seq(Characters) /\ Begins(a, t) /\ Begins(s, t)
      /\ n \in Nat /\ Len(t) \in Nat /\ n + 1 <= Len(t)
      /\ \A k \in 1..n : t[k] = s[k]
      /\ t[n + 1] = c
      /\ \A k \in n + 2..Len(t) : t[k].is # "digit"
      /\ \A k \in Nat \ {0} : SubSeq(t, k, n + 1) = SubSeq(a, k, n + 1)
  BY Continued
<1>2. Len(a) = n + 1
  OBVIOUS
<1>3. /\ j \in 1..n - 1 /\ n \in j + 2..n /\ v = Parse!ValueOf(SubSeq(s, j + 3, n))
      /\ \A k \in j + 3..n : s[k].is = "digit"
  BY DEF RateRead, PeriodRead
<1>4. Parse!ValueOf(SubSeq(a, j + 3, n + 1)) = 10 * v + c.d
  <2>1. j + 3 \in 1..n + 1
    BY <1>1, <1>3
  <2>2. /\ SubSeq(a, j + 3, n + 1) = Append(SubSeq(s, j + 3, n), c)
        /\ SubSeq(s, j + 3, n) \in Seq(Characters)
    BY <2>1, GrowingPart
  <2>3. QED
    BY <1>3, <2>2, ValueAppend
<1>5. c.d \in 0..9
  BY DEF Characters
<1> HIDE DEF a, n
<1>6. RateRead(t, j, r)
  BY <1>1, RateKept
<1>7. SUFFICES ASSUME NEW i \in 1..Len(t), Parse!IsRate(t, i)
               PROVE  FALSE
  BY DEF NoRate
<1>8. i = j
  BY <1>6, <1>7, OneRate
<1>9. /\ i + 3 <= Len(t) /\ \A k \in i + 3..Len(t) - 1 : t[k].is = "digit"
      /\ t[Len(t)].is \in Parse!Units
      /\ Parse!ValueOf(SubSeq(t, i + 3, Len(t) - 1)) <= NumberMax
  BY <1>7, RateLooks
<1>10. Len(t) # n + 1
  <2>1. t[Len(t)].is # "digit"
    BY <1>9 DEF Parse!Units
  <2>2. QED
    BY <1>1, <2>1
<1>11. ~(n + 2 <= Len(t) - 1)
  <2>1. SUFFICES ASSUME n + 2 <= Len(t) - 1 PROVE FALSE
    OBVIOUS
  <2>2. n + 2 \in i + 3..Len(t) - 1 /\ n + 2 \in n + 2..Len(t)
    BY <1>1, <1>3, <1>8, <2>1
  <2>3. QED
    BY <1>1, <1>9, <2>2
<1>12. Len(t) - 1 = n + 1
  <2>1. n \in Nat /\ Len(t) \in Nat /\ n + 1 <= Len(t)
    BY <1>1
  <2>2. QED
    BY <1>10, <1>11, <2>1
<1>13. SubSeq(t, j + 3, n + 1) = SubSeq(a, j + 3, n + 1)
  <2>1. j + 3 \in Nat \ {0}
    BY <1>3
  <2>2. QED
    BY <1>1, <2>1, Zenon
<1>14. 10 * v + c.d <= NumberMax
  BY <1>4, <1>8, <1>9, <1>12, <1>13
<1>15. 10 * v + c.d \in Nat /\ NumberMax \in Nat
  <2>1. \A y \in 0..9 : 10 * v + y \in Nat
    OBVIOUS
  <2>2. QED
    BY <1>5, <2>1, ParseFacts, Zenon
<1>16. QED
  BY <1>14, <1>15

\* Something after the unit.
LEMMA NoRateUnit ==
    ASSUME NEW s \in Seq(Characters), NEW c \in Characters,
           NEW t \in Seq(Characters), Completed(Append(s, c), t),
           NEW j, NEW r, NEW v,
           RateRead(s, j, r), PeriodRead(s, j, Len(s) - 1, v),
           s[Len(s)].is # "digit"
    PROVE  NoRate(t)
<1> DEFINE n == Len(s)
<1>1. /\ Begins(s, t) /\ n \in Nat /\ Len(t) \in Nat /\ n + 1 <= Len(t)
      /\ \A k \in 1..n : t[k] = s[k]
  BY Continued
<1>2. j \in 1..n - 1 /\ n - 1 \in j + 2..n
  BY DEF RateRead, PeriodRead
<1>3. s[n].is # "digit"
  OBVIOUS
<1> HIDE DEF n
<1>4. RateRead(t, j, r)
  BY <1>1, RateKept
<1>5. SUFFICES ASSUME NEW i \in 1..Len(t), Parse!IsRate(t, i)
               PROVE  FALSE
  BY DEF NoRate
<1>6. i = j
  BY <1>4, <1>5, OneRate
<1>7. \A k \in i + 3..Len(t) - 1 : t[k].is = "digit"
  BY <1>5, RateLooks
<1>8. n \in i + 3..Len(t) - 1 /\ n \in 1..n
  BY <1>1, <1>2, <1>6
<1>9. QED
  BY <1>1, <1>3, <1>7, <1>8

\* A text that ends before its unit.
LEMMA NoRateYet ==
    ASSUME NEW t \in Seq(Characters),
           \/ \A k \in 1..Len(t) : t[k].is = "digit"
           \/ \E j, r : RateRead(t, j, r) /\ Len(t) = j + 1
           \/ \E j, r, v : RateRead(t, j, r) /\ PeriodRead(t, j, Len(t), v)
    PROVE  NoRate(t)
<1>1. SUFFICES ASSUME NEW i \in 1..Len(t), Parse!IsRate(t, i)
               PROVE  FALSE
  BY DEF NoRate
<1>2. /\ i + 3 <= Len(t) /\ t[i + 1].is = "r" /\ t[Len(t)].is # "digit"
  <2>1. t[Len(t)].is \in Parse!Units /\ i + 3 <= Len(t) /\ t[i + 1].is = "r"
    BY <1>1, RateLooks
  <2>2. QED
    BY <2>1 DEF Parse!Units
<1>3. Len(t) \in Nat /\ Len(t) \in 1..Len(t) /\ i + 1 \in 1..Len(t)
  BY <1>2
<1>4. CASE \A k \in 1..Len(t) : t[k].is = "digit"
  BY <1>2, <1>3, <1>4
<1>5. CASE \E j, r : RateRead(t, j, r) /\ Len(t) = j + 1
  <2>1. PICK j, r : RateRead(t, j, r) /\ Len(t) = j + 1
    BY <1>5
  <2>2. i = j
    BY <1>1, <2>1, OneRate
  <2>3. QED
    BY <1>2, <1>3, <2>1, <2>2
<1>6. CASE \E j, r, v : RateRead(t, j, r) /\ PeriodRead(t, j, Len(t), v)
  <2>1. PICK j, r, v : RateRead(t, j, r) /\ PeriodRead(t, j, Len(t), v)
    BY <1>6
  <2>2. i = j
    BY <1>1, <2>1, OneRate
  <2>3. \A k \in j + 3..Len(t) : t[k].is = "digit"
    BY <2>1 DEF PeriodRead
  <2>4. Len(t) \in j + 3..Len(t)
    BY <1>2, <1>3, <2>2
  <2>5. QED
    BY <1>2, <2>3, <2>4
<1>7. QED
  BY <1>4, <1>5, <1>6

\* A number with one digit too many, or with something else in it.
LEMMA NoNumber ==
    ASSUME NEW s \in Seq(Characters), NEW c \in Characters,
           NEW t \in Seq(Characters), Completed(Append(s, c), t),
           \/ 10 * Parse!ValueOf(s) + c.d > NumberMax
           \/ c.is # "digit"
    PROVE  ~Parse!IsU32(t)
<1> DEFINE a == Append(s, c)
           n == Len(s)
<1>1. /\ a \in Seq(Characters) /\ Begins(a, t)
      /\ n \in Nat /\ Len(t) \in Nat /\ n + 1 <= Len(t)
      /\ t[n + 1] = c
      /\ \A k \in n + 2..Len(t) : t[k].is # "digit"
  BY Continued
<1>2. Len(a) = n + 1
  OBVIOUS
<1>3. Parse!ValueOf(a) = 10 * Parse!ValueOf(s) + c.d
  BY ValueAppend
<1>4. Parse!ValueOf(a) \in Nat
  BY <1>1, ValueNat
<1> HIDE DEF a, n
<1>5. SUFFICES ASSUME Parse!AllDigits(t), Parse!ValueOf(t) <= NumberMax
               PROVE  FALSE
  BY DEF Parse!IsU32
<1>6. \A k \in 1..Len(t) : t[k].is = "digit"
  BY <1>5 DEF Parse!AllDigits
<1>7. c.is = "digit"
  BY <1>1, <1>6
<1>8. Len(t) = n + 1
  <2>1. SUFFICES ASSUME n + 2 <= Len(t) PROVE FALSE
    BY <1>1
  <2>2. n + 2 \in n + 2..Len(t) /\ n + 2 \in 1..Len(t)
    BY <1>1, <2>1
  <2>3. QED
    BY <1>1, <1>6, <2>2
<1>9. t = a
  BY <1>1, <1>2, <1>8, SeqEqual DEF Begins
<1>10. QED
  BY <1>3, <1>4, <1>5, <1>7, <1>9, ParseFacts

\* Two readings of a text as a rate are the same.
LEMMA RateUnique ==
    ASSUME NEW t \in Seq(Characters), NEW i \in 1..Len(t), NEW j \in 1..Len(t),
           Parse!IsRate(t, i), Parse!IsRate(t, j)
    PROVE  i = j
<1> DEFINE r == Parse!ValueOf(SubSeq(t, 1, j))
<1>1. /\ j + 3 <= Len(t) /\ \A k \in 1..j : t[k].is = "digit"
      /\ t[j + 1].is = "r" /\ r \in 1..NumberMax
  BY RateLooks
<1>2. j \in 1..Len(t) - 1 /\ r # 0
  <2> HIDE DEF r
  <2>1. j \in 1..Len(t) - 1
    BY <1>1
  <2>2. r # 0
    BY <1>1, ParseFacts
  <2>3. QED
    BY <2>1, <2>2
<1>3. RateRead(t, j, r)
  BY <1>1, <1>2 DEF RateRead
<1>4. QED
  BY <1>3, OneRate

\* t is a number, or a rate, in range.
IsValid(j, t) == IF j = "u32" THEN Parse!IsU32(t) ELSE ~NoRate(t)

\* What the phase p of the function j says about the text t: the numbers are
\* those t denotes so far, an accepted text is in range and has been stored, a
\* refused one is not in range.
Scanned(j, p, v, r, u, o, t) ==
    /\ p = "first" =>
          v = Parse!ValueOf(t) /\ \A k \in 1..Len(t) : t[k].is = "digit"
    /\ p \in {"slash", "window", "unit"} => j = "rate"
    /\ p = "slash" => \E i : RateRead(t, i, r) /\ Len(t) = i + 1
    /\ p = "window" => \E i : RateRead(t, i, r) /\ PeriodRead(t, i, Len(t), v)
    /\ p = "unit" =>
          /\ \E i : RateRead(t, i, r) /\ PeriodRead(t, i, Len(t) - 1, v)
          /\ t[Len(t)].is = u /\ u \in Parse!Marks
    /\ p = "accepted" =>
          IF j = "u32" THEN Parse!IsU32(t) /\ o = <<Parse!ValueOf(t)>>
          ELSE \E i \in 1..Len(t) :
                  /\ Parse!IsRate(t, i)
                  /\ o = <<Parse!ValueOf(SubSeq(t, 1, i)),
                           Parse!Period(SubSeq(t, i + 3, Len(t) - 1))
                               * Parse!Factor(t[Len(t)].is)>>
    /\ p = "incomplete" => ~IsValid(j, t)
    /\ p = "rejected" =>
          \A tail \in Parse!Completions : ~IsValid(j, t \o tail)

ParseInv ==
    Parse!TypeOK /\ Scanned(job, phase, number, rate, unit, parsed, text)

\* The invariant in the next state.
LEMMA ParseInvNext ==
    ASSUME Parse!TypeOK',
           Scanned(job', phase', number', rate', unit', parsed', text')
    PROVE  ParseInv'
<1>1. Scanned(job, phase, number, rate, unit, parsed, text)'
        = Scanned(job', phase', number', rate', unit', parsed', text')
  BY Zenon DEF Scanned, IsValid, NoRate, RateRead, PeriodRead, Parse!ValueOf,
         Parse!IsU32, Parse!IsRate, Parse!AllDigits, Parse!Period,
         Parse!Factor, Parse!Units, Parse!Marks, Parse!Completions, Parse!Mark
<1>2. QED
  BY <1>1, Zenon DEF ParseInv

\* A character that is refused makes every completion invalid.
LEMMA RefusedForGood ==
    ASSUME NEW s \in Seq(Characters), NEW c \in Characters,
           NEW j \in {"u32", "rate"},
           NEW p \in {"first", "slash", "window", "unit"},
           NEW v \in Nat, NEW r, NEW u, NEW o, Scanned(j, p, v, r, u, o, s),
           p = "first" =>
               \/ c.is = "digit" /\ 10 * v + c.d > NumberMax
               \/ c.is # "digit" /\ (j = "u32" \/ c.is # "r" \/ v = 0),
           p = "slash" => c.is # "/",
           p = "window" => c.is = "digit" /\ 10 * v + c.d > NumberMax
    PROVE  \A tail \in Parse!Completions : ~IsValid(j, Append(s, c) \o tail)
<1> SUFFICES ASSUME NEW tail \in Parse!Completions
             PROVE  ~IsValid(j, Append(s, c) \o tail)
  OBVIOUS
<1> DEFINE t == Append(s, c) \o tail
<1>1. t \in Seq(Characters) /\ Completed(Append(s, c), t)
  <2>1. Append(s, c) \in Seq(Characters)
    OBVIOUS
  <2>2. QED
    BY <2>1, CompletionsComplete, Zenon
<1> HIDE DEF t
<1>2. CASE j = "u32"
  <2>1. p = "first" /\ v = Parse!ValueOf(s)
    BY <1>2 DEF Scanned
  <2>2. ~Parse!IsU32(t)
    BY <1>1, <2>1, NoNumber
  <2>3. QED
    BY <1>2, <2>2 DEF IsValid, t
<1>3. CASE j = "rate"
  <2>1. CASE p = "first"
    <3>1. v = Parse!ValueOf(s) /\ \A k \in 1..Len(s) : s[k].is = "digit"
      BY <2>1 DEF Scanned
    <3>2. NoRate(t)
      BY <1>1, <1>3, <2>1, <3>1, NoRateFirst
    <3>3. QED
      BY <1>3, <3>2 DEF IsValid, t
  <2>2. CASE p = "slash"
    <3>1. PICK i : RateRead(s, i, r) /\ Len(s) = i + 1
      BY <2>2 DEF Scanned
    <3>2. NoRate(t)
      BY <1>1, <2>2, <3>1, NoRateSlash
    <3>3. QED
      BY <1>3, <3>2 DEF IsValid, t
  <2>3. CASE p = "window"
    <3>1. PICK i : RateRead(s, i, r) /\ PeriodRead(s, i, Len(s), v)
      BY <2>3 DEF Scanned
    <3>2. NoRate(t)
      BY <1>1, <2>3, <3>1, NoRateWindow
    <3>3. QED
      BY <1>3, <3>2 DEF IsValid, t
  <2>4. CASE p = "unit"
    <3>1. PICK i : RateRead(s, i, r) /\ PeriodRead(s, i, Len(s) - 1, v)
      BY <2>4 DEF Scanned
    <3>2. s[Len(s)].is # "digit"
      BY <2>4 DEF Scanned, Parse!Marks, Parse!Units
    <3>3. NoRate(t)
      BY <1>1, <3>1, <3>2, NoRateUnit
    <3>4. QED
      BY <1>3, <3>3 DEF IsValid, t
  <2>5. QED
    BY <2>1, <2>2, <2>3, <2>4
<1>4. QED
  BY <1>2, <1>3

\* The variables' types, one by one.
LEMMA ParseTypes ==
    ASSUME ParseInv
    PROVE  /\ job \in {"u32", "rate"}
           /\ phase \in {"first", "slash", "window", "unit",
                         "accepted", "rejected", "incomplete"}
           /\ number \in 0..NumberMax /\ rate \in 0..NumberMax
           /\ number \in Nat
           /\ unit \in Parse!Marks \cup {""}
           /\ parsed \in Seq(0..NumberMax) /\ Len(parsed) <= 2
           /\ text \in Seq(Characters)
           /\ Scanned(job, phase, number, rate, unit, parsed, text)
<1>1. number \in 0..NumberMax => number \in Nat
  BY ParseFacts
<1>2. QED
  BY <1>1, Zenon DEF ParseInv, Parse!TypeOK, Characters

\* A character that is refused.
LEMMA RejectInv ==
    ASSUME ParseInv, NEW c \in Characters, Parse!Scanning, Parse!Reject,
           text' = Append(text, c), job' = job,
           phase = "first" =>
               \/ c.is = "digit" /\ 10 * number + c.d > NumberMax
               \/ c.is # "digit" /\ (job = "u32" \/ c.is # "r" \/ number = 0),
           phase = "slash" => c.is # "/",
           phase = "window" => c.is = "digit" /\ 10 * number + c.d > NumberMax
    PROVE  ParseInv'
<1>1. /\ phase' = "rejected" /\ number' = number /\ rate' = rate
      /\ unit' = unit /\ parsed' = parsed
  BY DEF Parse!Reject
<1>2. text' \in Seq(Characters)
  <2>1. text \in Seq(Characters)
    BY ParseTypes, Zenon
  <2>2. QED
    BY <2>1
<1>3. Parse!TypeOK'
  BY <1>1, <1>2, ParseTypes, Zenon DEF Parse!TypeOK, Characters
<1>4. phase \in {"first", "slash", "window", "unit"}
  BY ParseTypes, Zenon DEF Parse!Scanning
<1>5. \A tail \in Parse!Completions : ~IsValid(job', text' \o tail)
  BY <1>4, ParseTypes, RefusedForGood, Zenon
<1>6. Scanned(job', phase', number', rate', unit', parsed', text')
  BY <1>1, <1>5 DEF Scanned
<1>7. QED
  BY <1>3, <1>6, ParseInvNext

\* A digit.
LEMMA ReadDigitInv ==
    ASSUME ParseInv, NEW d \in Digits, Parse!ReadDigit(d)
    PROVE  ParseInv'
<1> DEFINE c == Parse!Digit(d)
           n == Len(text)
<1>1. d \in 0..9 /\ c \in Characters /\ c.is = "digit" /\ c.d = d
  BY ParseFacts DEF Parse!Digit, Characters
<1>2. Parse!Scanning /\ text' = Append(text, c) /\ job' = job
  BY DEF Parse!ReadDigit, Parse!Reading
<1> HIDE DEF c
<1>3. Parse!DigitFits(number, d) <=> 10 * number + d <= NumberMax
  BY <1>1, ParseTypes, DigitExact, Zenon
<1>4. 10 * number + d \in Nat
  <2>1. number \in Nat
    BY ParseTypes, Zenon
  <2>2. QED
    BY <1>1, <2>1
<1>5. CASE (phase \in {"first", "window"} => ~Parse!DigitFits(number, d))
           /\ Parse!Reject
  <2>1. phase \in {"first", "window"} => 10 * number + c.d > NumberMax
    BY <1>1, <1>3, <1>4, <1>5, ParseFacts
  <2>2. QED
    BY <1>1, <1>2, <1>5, <2>1, RejectInv
<1>6. CASE /\ phase \in {"first", "window"} /\ Parse!DigitFits(number, d)
           /\ number' = Parse!AddDigit(number, d)
           /\ UNCHANGED <<phase, rate, unit, parsed>>
  <2>1. number' = 10 * number + d /\ number' \in 0..NumberMax
    BY <1>1, <1>6, ParseTypes, DigitExact, Zenon
  <2>2. text \in Seq(Characters)
    BY ParseTypes, Zenon
  <2>3. /\ text' \in Seq(Characters) /\ Len(text') = n + 1 /\ n \in Nat
        /\ text'[n + 1] = c /\ \A k \in 1..n : text'[k] = text[k]
    BY <1>1, <1>2, <2>2
  <2>4. Parse!TypeOK'
    BY <1>2, <1>6, <2>1, <2>3, ParseTypes, Zenon DEF Parse!TypeOK, Characters
  <2>5. Scanned(job', phase', number', rate', unit', parsed', text')
    <3>1. CASE phase = "first"
      <4>1. /\ number = Parse!ValueOf(text)
            /\ \A k \in 1..n : text[k].is = "digit"
        BY <3>1 DEF ParseInv, Scanned
      <4>2. number' = Parse!ValueOf(text')
        BY <1>1, <1>2, <2>1, <2>2, <4>1, ValueAppend
      <4>3. ASSUME NEW k \in 1..Len(text')
            PROVE  text'[k].is = "digit"
        <5>1. k = n + 1 \/ k \in 1..n
          BY <2>3
        <5>2. QED
          BY <1>1, <2>3, <4>1, <5>1
      <4>4. phase' = "first"
        BY <1>6, <3>1
      <4>5. QED
        BY <4>2, <4>3, <4>4 DEF Scanned
    <3>2. CASE phase = "window"
      <4>1. PICK i : RateRead(text, i, rate) /\ PeriodRead(text, i, n, number)
        BY <3>2 DEF ParseInv, Scanned
      <4>2. job = "rate"
        BY <3>2 DEF ParseInv, Scanned
      <4>3. Begins(text, text')
        BY <2>3 DEF Begins
      <4>4. RateRead(text', i, rate)
        BY <2>2, <2>3, <4>1, <4>3, RateKept
      <4>5. /\ i \in 1..n - 1 /\ n \in i + 2..n /\ text[i + 2].is = "/"
            /\ \A k \in i + 3..n : text[k].is = "digit"
            /\ number = Parse!ValueOf(SubSeq(text, i + 3, n))
        BY <4>1 DEF RateRead, PeriodRead
      <4>6. /\ i + 3 \in 1..n + 1 /\ i + 2 \in 1..n /\ n + 1 \in i + 2..n + 1
            /\ \A k \in i + 3..n : k \in 1..n
        BY <2>3, <4>5
      <4>7. number' = Parse!ValueOf(SubSeq(text', i + 3, n + 1))
        BY <1>1, <1>2, <2>1, <2>2, <4>5, <4>6, GrowingPart, ValueAppend
      <4>8. ASSUME NEW k \in i + 3..n + 1
            PROVE  text'[k].is = "digit"
        <5>1. k = n + 1 \/ k \in i + 3..n
          BY <2>3, <4>5
        <5>2. QED
          BY <1>1, <2>3, <4>5, <4>6, <5>1
      <4>9. PeriodRead(text', i, Len(text'), number')
        BY <2>3, <4>5, <4>6, <4>7, <4>8 DEF PeriodRead
      <4>10. phase' = "window" /\ rate' = rate
        BY <1>6, <3>2
      <4>11. QED
        BY <1>2, <4>2, <4>4, <4>9, <4>10 DEF Scanned
    <3>3. QED
      BY <1>6, <3>1, <3>2
  <2>6. QED
    BY <2>4, <2>5, ParseInvNext
<1>7. QED
  BY <1>5, <1>6 DEF Parse!ReadDigit

\* Anything else.
LEMMA ReadMarkInv ==
    ASSUME ParseInv, NEW m \in Parse!Marks, Parse!ReadMark(m)
    PROVE  ParseInv'
<1> DEFINE c == Parse!Mark(m)
           n == Len(text)
<1>1. c \in Characters /\ c.is = m /\ c.is # "digit"
  BY DEF Parse!Mark, Characters, Parse!Marks, Parse!Units
<1>2. Parse!Scanning /\ text' = Append(text, c) /\ job' = job
  BY DEF Parse!ReadMark, Parse!Reading
<1> HIDE DEF c
<1>3. text \in Seq(Characters)
  BY ParseTypes, Zenon
<1>4. /\ text' \in Seq(Characters) /\ Len(text') = n + 1 /\ n \in Nat
      /\ text'[n + 1] = c /\ \A k \in 1..n : text'[k] = text[k]
  BY <1>1, <1>2, <1>3
<1>5. Begins(text, text')
  BY <1>4 DEF Begins
<1>6. CASE /\ Parse!RateEnds(m) /\ phase' = "slash" /\ rate' = number
           /\ UNCHANGED <<number, unit, parsed>>
  <2>1. job = "rate" /\ phase = "first" /\ number # 0 /\ m = "r"
    BY <1>6 DEF Parse!RateEnds
  <2>2. number = Parse!ValueOf(text) /\ \A k \in 1..n : text[k].is = "digit"
    BY <2>1 DEF ParseInv, Scanned
  <2>3. n # 0
    <3>1. SUFFICES ASSUME n = 0 PROVE FALSE
      OBVIOUS
    <3>2. text = <<>>
      BY <1>3, <3>1
    <3>3. QED
      BY <2>1, <2>2, <3>2, ValueNat
  <2>4. SubSeq(text', 1, n) = text
    <3>1. SubSeq(text, 1, n) = text
      BY <1>3
    <3>2. n <= Len(text) /\ 1 \in Nat \ {0}
      BY <1>4
    <3>3. QED
      BY <1>3, <1>4, <1>5, <3>1, <3>2, SamePart
  <2>5. n \in 1..Len(text') - 1
    BY <1>4, <2>3
  <2>6. RateRead(text', n, rate')
    BY <1>1, <1>4, <1>6, <2>1, <2>2, <2>4, <2>5 DEF RateRead
  <2>7. Scanned(job', phase', number', rate', unit', parsed', text')
    BY <1>2, <1>4, <1>6, <2>1, <2>6 DEF Scanned
  <2>8. Parse!TypeOK'
    BY <1>2, <1>4, <1>6, ParseTypes, Zenon DEF Parse!TypeOK, Characters
  <2>9. QED
    BY <2>7, <2>8, ParseInvNext
<1>7. CASE /\ Parse!PeriodBegins(m) /\ phase' = "window" /\ number' = 0
           /\ UNCHANGED <<rate, unit, parsed>>
  <2>1. phase = "slash" /\ m = "/"
    BY <1>7 DEF Parse!PeriodBegins
  <2>2. job = "rate"
    BY <2>1 DEF ParseInv, Scanned
  <2>3. PICK i : RateRead(text, i, rate) /\ n = i + 1
    BY <2>1 DEF ParseInv, Scanned
  <2>4. RateRead(text', i, rate)
    BY <1>3, <1>4, <1>5, <2>3, RateKept
  <2>5. i \in 1..n - 1
    BY <2>3 DEF RateRead
  <2>6. n + 1 = i + 2 /\ n + 1 \in i + 2..n + 1 /\ i + 3 > n + 1
    BY <1>4, <2>3, <2>5
  <2>7. SubSeq(text', i + 3, n + 1) = <<>>
    BY <1>4, <2>5, <2>6
  <2>8. \A k \in i + 3..n + 1 : FALSE
    BY <1>4, <2>5, <2>6
  <2>9. PeriodRead(text', i, Len(text'), number')
    BY <1>1, <1>4, <1>7, <2>1, <2>6, <2>7, <2>8, ValueNat DEF PeriodRead
  <2>10. Scanned(job', phase', number', rate', unit', parsed', text')
    BY <1>2, <1>7, <2>2, <2>4, <2>9 DEF Scanned
  <2>11. number' \in 0..NumberMax
    BY <1>7, ParseFacts
  <2>12. Parse!TypeOK'
    BY <1>2, <1>4, <1>7, <2>11, ParseTypes, Zenon DEF Parse!TypeOK, Characters
  <2>13. QED
    BY <2>10, <2>12, ParseInvNext
<1>8. CASE /\ Parse!PeriodEnds(m) /\ phase' = "unit" /\ unit' = m
           /\ UNCHANGED <<number, rate, parsed>>
  <2>1. phase = "window"
    BY <1>8 DEF Parse!PeriodEnds
  <2>2. job = "rate"
    BY <2>1 DEF ParseInv, Scanned
  <2>3. PICK i : RateRead(text, i, rate) /\ PeriodRead(text, i, n, number)
    BY <2>1 DEF ParseInv, Scanned
  <2>4. RateRead(text', i, rate)
    BY <1>3, <1>4, <1>5, <2>3, RateKept
  <2>5. i \in Nat \ {0}
    BY <2>3 DEF RateRead
  <2>6. PeriodRead(text', i, n, number)
    BY <1>3, <1>4, <1>5, <2>3, <2>5, PeriodKept
  <2>7. Len(text') - 1 = n
    BY <1>4
  <2>8. Scanned(job', phase', number', rate', unit', parsed', text')
    BY <1>1, <1>2, <1>4, <1>8, <2>2, <2>4, <2>6, <2>7 DEF Scanned
  <2>9. Parse!TypeOK'
    BY <1>2, <1>4, <1>8, ParseTypes, Zenon DEF Parse!TypeOK, Characters
  <2>10. QED
    BY <2>8, <2>9, ParseInvNext
<1>9. CASE /\ Parse!Reject
           /\ ~(Parse!RateEnds(m) \/ Parse!PeriodBegins(m) \/ Parse!PeriodEnds(m))
  <2>1. /\ phase = "first" => job = "u32" \/ c.is # "r" \/ number = 0
        /\ phase = "slash" => c.is # "/"
        /\ phase # "window"
    BY <1>1, <1>9, ParseTypes, Zenon
    DEF Parse!RateEnds, Parse!PeriodBegins, Parse!PeriodEnds
  <2>2. QED
    BY <1>1, <1>2, <1>9, <2>1, RejectInv
<1>10. QED
  BY <1>6, <1>7, <1>8, <1>9 DEF Parse!ReadMark

\* The text ends and is accepted.
LEMMA AcceptInv ==
    ASSUME ParseInv, Parse!Scanning, Parse!EndAccepts, UNCHANGED <<job, text>>
    PROVE  ParseInv'
<1>1. /\ text \in Seq(Characters) /\ number \in 0..NumberMax
      /\ rate \in 0..NumberMax /\ job \in {"u32", "rate"}
  BY ParseTypes, Zenon
<1>2. phase \in {"first", "slash", "window", "unit"}
  BY ParseTypes, Zenon DEF Parse!Scanning
<1>3. /\ phase' = "accepted" /\ job' = job /\ text' = text
      /\ number' = number /\ rate' = rate /\ unit' = unit
  BY DEF Parse!EndAccepts, Parse!Accept
<1>4. SUFFICES /\ parsed' \in Seq(0..NumberMax) /\ Len(parsed') <= 2
               /\ Scanned(job', phase', number', rate', unit', parsed', text')
  <2>1. ASSUME parsed' \in Seq(0..NumberMax), Len(parsed') <= 2
        PROVE  Parse!TypeOK'
    BY <1>1, <1>3, <2>1, ParseTypes, Zenon DEF Parse!TypeOK, Characters
  <2>2. QED
    BY <2>1, ParseInvNext
<1>5. CASE job = "u32" /\ text # <<>> /\ Parse!Accept(<<number>>)
  <2>1. phase = "first"
    BY <1>2, <1>5 DEF ParseInv, Scanned
  <2>2. /\ number = Parse!ValueOf(text)
        /\ \A k \in 1..Len(text) : text[k].is = "digit"
    BY <2>1 DEF ParseInv, Scanned
  <2>3. parsed' = <<number>>
    BY <1>5 DEF Parse!Accept
  <2>4. Parse!AllDigits(text)
    BY <1>1, <2>2 DEF Parse!AllDigits
  <2>5. Parse!IsU32(text)
    BY <1>1, <1>5, <2>2, <2>4, ParseFacts DEF Parse!IsU32
  <2>6. Scanned(job', phase', number', rate', unit', parsed', text')
    BY <1>3, <1>5, <2>2, <2>3, <2>5 DEF Scanned
  <2>7. <<number>> \in Seq(0..NumberMax) /\ Len(<<number>>) = 1 /\ 1 <= 2
    BY <1>1
  <2>8. QED
    BY <2>3, <2>6, <2>7
<1>6. CASE /\ phase = "unit" /\ unit \in Parse!Units
           /\ Parse!WindowFits(Parse!Window, Parse!Factor(unit))
           /\ Parse!Accept(<<rate, Parse!Trunc(Parse!Window * Parse!Factor(unit))>>)
  <2> DEFINE w == IF number = 0 THEN 1 ELSE number
             f == Parse!Factor(unit)
  <2>1. job = "rate" /\ text[Len(text)].is = unit
    BY <1>6 DEF ParseInv, Scanned
  <2>2. PICK i : /\ RateRead(text, i, rate)
                 /\ PeriodRead(text, i, Len(text) - 1, number)
    BY <1>6 DEF ParseInv, Scanned
  <2>3. w \in Nat /\ f \in Nat \ {0} /\ Parse!Window = w
    BY <1>1, <1>6, ParseFacts DEF Parse!Window
  <2>4. w * f <= NumberMax
    BY <1>6, <2>3, WindowExact
  <2>5. w * f \in 0..NumberMax
    BY <2>3, <2>4, ParseFacts
  <2>6. Parse!Trunc(w * f) = w * f
    BY <2>5, ParseFacts
  <2>7. parsed' = <<rate, w * f>>
    BY <1>6, <2>3, <2>6 DEF Parse!Accept
  <2>8. /\ i \in 1..Len(text) /\ Parse!IsRate(text, i)
        /\ Parse!ValueOf(SubSeq(text, 1, i)) = rate
        /\ Parse!Period(SubSeq(text, i + 3, Len(text) - 1)) = w
    BY <1>1, <1>6, <2>1, <2>2, <2>4, ReadInFull
  <2> HIDE DEF w, f
  <2>9. parsed' = <<Parse!ValueOf(SubSeq(text, 1, i)),
                    Parse!Period(SubSeq(text, i + 3, Len(text) - 1))
                        * Parse!Factor(text[Len(text)].is)>>
    BY <2>1, <2>7, <2>8 DEF f
  <2>10. Scanned(job', phase', number', rate', unit', parsed', text')
    BY <1>3, <2>1, <2>8, <2>9 DEF Scanned
  <2>11. /\ <<rate, w * f>> \in Seq(0..NumberMax)
         /\ Len(<<rate, w * f>>) = 2 /\ 2 <= 2
    BY <1>1, <2>5
  <2>12. QED
    BY <2>7, <2>10, <2>11
<1>7. QED
  BY <1>5, <1>6 DEF Parse!EndAccepts

\* The text ends and is refused.
LEMMA IncompleteInv ==
    ASSUME ParseInv, Parse!Scanning, Parse!EndRejects, UNCHANGED <<job, text>>
    PROVE  ParseInv'
<1>1. /\ text \in Seq(Characters) /\ number \in 0..NumberMax
      /\ rate \in 0..NumberMax /\ job \in {"u32", "rate"}
  BY ParseTypes, Zenon
<1>2. phase \in {"first", "slash", "window", "unit"}
  BY ParseTypes, Zenon DEF Parse!Scanning
<1>3. /\ phase' = "incomplete" /\ job' = job /\ text' = text
      /\ number' = number /\ rate' = rate /\ unit' = unit /\ parsed' = parsed
  BY DEF Parse!EndRejects
<1>4. Parse!TypeOK'
  BY <1>1, <1>3, ParseTypes, Zenon DEF Parse!TypeOK, Characters
<1>5. ~IsValid(job, text)
  <2>1. CASE job = "u32"
    BY <2>1 DEF Parse!EndRejects, IsValid, Parse!IsU32
  <2>2. CASE job = "rate" /\ phase # "unit"
    <3>1. NoRate(text)
      <4>1. CASE phase = "first"
        BY <1>1, <4>1, NoRateYet DEF ParseInv, Scanned
      <4>2. CASE phase = "slash"
        BY <1>1, <4>2, NoRateYet DEF ParseInv, Scanned
      <4>3. CASE phase = "window"
        BY <1>1, <4>3, NoRateYet DEF ParseInv, Scanned
      <4>4. QED
        BY <1>2, <2>2, <4>1, <4>2, <4>3
    <3>2. QED
      BY <2>2, <3>1 DEF IsValid
  <2>3. CASE job = "rate" /\ phase = "unit"
    <3>1. text[Len(text)].is = unit
      BY <2>3 DEF ParseInv, Scanned
    <3>2. PICK i : /\ RateRead(text, i, rate)
                   /\ PeriodRead(text, i, Len(text) - 1, number)
      BY <2>3 DEF ParseInv, Scanned
    <3>3. unit \in Parse!Units =>
              ~Parse!WindowFits(Parse!Window, Parse!Factor(unit))
      BY <2>3 DEF Parse!EndRejects
    <3>4. SUFFICES ASSUME NEW k \in 1..Len(text), Parse!IsRate(text, k)
                   PROVE  FALSE
      BY <2>3 DEF IsValid, NoRate
    <3>5. unit \in Parse!Units
      BY <1>1, <3>1, <3>4, RateLooks
    <3>6. k = i
      BY <1>1, <3>2, <3>4, OneRate
    <3> DEFINE w == IF number = 0 THEN 1 ELSE number
    <3>7. w \in Nat /\ Parse!Window = w
      BY <1>1, ParseFacts DEF Parse!Window
    <3>8. w * Parse!Factor(unit) <= NumberMax
      BY <1>1, <3>1, <3>2, <3>4, <3>5, <3>6, ReadInFull
    <3>9. Parse!WindowFits(w, Parse!Factor(unit))
      BY <3>5, <3>7, <3>8, WindowExact
    <3>10. QED
      BY <3>3, <3>5, <3>7, <3>9
  <2>4. QED
    BY <1>1, <2>1, <2>2, <2>3
<1>6. Scanned(job', phase', number', rate', unit', parsed', text')
  BY <1>3, <1>5 DEF Scanned
<1>7. QED
  BY <1>4, <1>6, ParseInvNext

\* Nothing has been read.
LEMMA ParseInit == Parse!Init => ParseInv
<1> SUFFICES ASSUME Parse!Init PROVE ParseInv
  OBVIOUS
<1>1. job \in {"u32", "rate"} /\ phase = "first" /\ unit = ""
  BY Zenon DEF Parse!Init
<1>2. number = 0 /\ rate = 0
  BY Zenon DEF Parse!Init
<1>3. parsed = <<>> /\ text = <<>>
  BY Zenon DEF Parse!Init
<1>4. /\ parsed \in Seq(0..NumberMax) /\ Len(parsed) = 0
      /\ text \in Seq(Characters) /\ Len(text) = 0
  BY <1>3
<1>5. number \in 0..NumberMax /\ rate \in 0..NumberMax /\ Len(parsed) <= 2
  BY <1>2, <1>4, ParseFacts
<1>6. Parse!TypeOK
  BY <1>1, <1>4, <1>5, Zenon DEF Parse!TypeOK, Characters
<1>7. number = Parse!ValueOf(text)
  BY <1>2, <1>3, ValueNat
<1>8. Scanned(job, phase, number, rate, unit, parsed, text)
  <2>1. \A k \in 1..Len(text) : text[k].is = "digit"
    BY <1>4
  <2>2. QED
    BY <1>1, <1>7, <2>1, Zenon DEF Scanned
<1>9. QED
  BY <1>6, <1>8 DEF ParseInv

\* Each step keeps the numbers those of the text.
LEMMA ParseStep ==
    ASSUME ParseInv, [Parse!Next]_(Parse!vars)
    PROVE  ParseInv'
<1>1. ASSUME NEW d \in Digits, Parse!ReadDigit(d) PROVE ParseInv'
  BY <1>1, ReadDigitInv
<1>2. ASSUME NEW c \in Parse!Marks, Parse!ReadMark(c) PROVE ParseInv'
  BY <1>2, ReadMarkInv
<1>3. CASE Parse!EndOfText
  BY <1>3, AcceptInv, IncompleteInv DEF Parse!EndOfText
<1>4. CASE UNCHANGED Parse!vars
  <2>1. Parse!TypeOK'
    BY <1>4, Zenon DEF ParseInv, Parse!TypeOK, Parse!vars
  <2>2. Scanned(job', phase', number', rate', unit', parsed', text')
    BY <1>4 DEF ParseInv, Parse!vars
  <2>3. QED
    BY <2>1, <2>2, ParseInvNext
<1>5. QED
  BY <1>1, <1>2, <1>3, <1>4 DEF Parse!Next

\* The numbers are those of the text in every state.
LEMMA ParseInvariant == PartsSpec => []ParseInv
<1>1. ParseInv /\ [Parse!Next]_(Parse!vars) => ParseInv'
  BY ParseStep
<1>2. Parse!Spec => []ParseInv
  BY <1>1, ParseInit, PTL DEF Parse!Spec
<1>3. QED
  BY <1>2, PartsRun, PTL

(***************************************************************************)
(* rn_numeric_parse_u32 and rn_numeric_parse_rate accept exactly the       *)
(* numbers and rates in range and store exactly what they denote, for      *)
(* texts of any length and numbers of any width.                           *)
(***************************************************************************)
THEOREM NumbersStayExact == PartsSpec => []NumbersExact
<1>1. ASSUME ParseInv PROVE NumbersExact
  <2>1. text \in Seq(Characters) /\ job \in {"u32", "rate"}
    BY <1>1, ParseTypes, Zenon
  <2>2. \A t : Parse!Valid(t) <=> IsValid(job, t)
    BY DEF Parse!Valid, IsValid, NoRate
  <2>3. Parse!RejectsExactly
    BY <1>1, <2>2 DEF ParseInv, Scanned, Parse!RejectsExactly
  <2>4. ASSUME phase = "accepted"
        PROVE  /\ Parse!Valid(text)
               /\ job = "u32" => parsed = <<Parse!ValueOf(text)>>
               /\ job = "rate" =>
                    LET i == CHOOSE i \in 1..Len(text) : Parse!IsRate(text, i)
                    IN  parsed = <<Parse!ValueOf(SubSeq(text, 1, i)),
                                   Parse!Period(SubSeq(text, i + 3, Len(text) - 1))
                                       * Parse!Factor(text[Len(text)].is)>>
    <3>1. CASE job = "u32"
      BY <1>1, <2>2, <2>4, <3>1 DEF ParseInv, Scanned, IsValid
    <3>2. CASE job = "rate"
      <4>1. PICK k \in 1..Len(text) :
                /\ Parse!IsRate(text, k)
                /\ parsed = <<Parse!ValueOf(SubSeq(text, 1, k)),
                              Parse!Period(SubSeq(text, k + 3, Len(text) - 1))
                                  * Parse!Factor(text[Len(text)].is)>>
        BY <1>1, <2>4, <3>2 DEF ParseInv, Scanned
      <4> DEFINE i == CHOOSE i \in 1..Len(text) : Parse!IsRate(text, i)
      <4>2. i \in 1..Len(text) /\ Parse!IsRate(text, i)
        BY <4>1, Zenon
      <4>3. i = k
        BY <2>1, <4>1, <4>2, RateUnique
      <4>4. Parse!Valid(text)
        BY <2>2, <3>2, <4>1 DEF IsValid, NoRate
      <4> HIDE DEF i
      <4>5. parsed = <<Parse!ValueOf(SubSeq(text, 1, i)),
                       Parse!Period(SubSeq(text, i + 3, Len(text) - 1))
                           * Parse!Factor(text[Len(text)].is)>>
        BY <4>1, <4>3, Zenon
      <4>6. QED
        BY <3>2, <4>4, <4>5, Zenon DEF i
    <3>3. QED
      BY <2>1, <3>1, <3>2
  <2>5. Parse!AcceptsExactly
    BY <2>4, Zenon DEF Parse!AcceptsExactly
  <2>6. QED
    BY <2>3, <2>5 DEF NumbersExact
<1>2. QED
  BY <1>1, ParseInvariant, PTL

(***************************************************************************)
(* Types and buffers: no number leaves its width, and neither names[] of   *)
(* rn_create_system_dns_resolver nor the argument made of a line is        *)
(* overrun.                                                                *)
(***************************************************************************)
THEOREM TypesStay == PartsSpec => []TypesOK
<1>1. /\ ParseInv => Parse!TypeOK
      /\ LatencyInv => Latency!TypeOK
      /\ SystemDnsInv => SystemDns!TypeOK
  BY DEF ParseInv, LatencyInv, SystemDnsInv
<1>2. ResolvConfInv => ResolvConf!TypeOK
  BY ResolvConfTypes
<1>3. Parse!TypeOK /\ Latency!TypeOK /\ TypeOK
      /\ ResolvConf!TypeOK /\ SystemDns!TypeOK => TypesOK
  BY DEF TypesOK
<1>4. QED
  BY <1>1, <1>2, <1>3, ParseInvariant, LatencyInvariant, TypeCorrect,
     ResolvConfInvariant, SystemDnsInvariant, PartsRun, PTL
=============================================================================
