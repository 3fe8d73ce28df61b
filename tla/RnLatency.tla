------------------------------ MODULE RnLatency ------------------------------
(***************************************************************************)
(* The latency sample of a request.  nginx notes the wall clock when the   *)
(* request begins (r->start_sec, r->start_msec); the log handler reads it  *)
(* again and reports the difference.  The wall clock is not monotonic: it  *)
(* may be set back or forward while the request runs.                      *)
(***************************************************************************)
EXTENDS RnNumeric

CONSTANTS
    Steps,      \* by how much the clock advances or is set, in milliseconds
    MaxClock    \* bound: the largest reading of the clock, and the longest
                \* a request takes

\* Proper values of the constants.
LatencyConstants ==
    NumericConstants /\ Steps \subseteq Nat /\ MaxClock \in Nat

VARIABLES
    sec, msec,              \* ngx_timeofday()
    start_sec, start_msec,  \* r->start_sec, r->start_msec
    sample,                 \* observed_latency of the report, 0 before it
    elapsed,                \* history: how long the request took
    steady                  \* history: the clock was not set meanwhile

vars == <<sec, msec, start_sec, start_msec, sample, elapsed, steady>>

Millis(s, m) == s * SecondMs + m

Reading(n) == sec' = n \div SecondMs /\ msec' = n % SecondMs

\* A request begins at any time.
Init ==
    /\ sec \in 0..MaxClock \div SecondMs
    /\ msec \in 0..SecondMs - 1
    /\ start_sec = sec /\ start_msec = msec
    /\ sample = 0 /\ elapsed = 0 /\ steady = TRUE

Open == sample = 0

Advance(d) ==
    /\ Open /\ Millis(sec, msec) + d <= MaxClock
    /\ elapsed + d <= MaxClock
    /\ Reading(Millis(sec, msec) + d)
    /\ elapsed' = elapsed + d
    /\ UNCHANGED <<start_sec, start_msec, sample, steady>>

SetClock(n) ==
    /\ Open
    /\ Reading(n)
    /\ steady' = FALSE
    /\ UNCHANGED <<start_sec, start_msec, sample, elapsed>>

\* ngx_http_rn_log_handler.
Log ==
    /\ Open
    /\ sample' = ObservedLatency(Millis(start_sec, start_msec),
                                 Millis(sec, msec))
    /\ UNCHANGED <<sec, msec, start_sec, start_msec, elapsed, steady>>

Next ==
    \/ \E d \in Steps : Advance(d)
    \/ \E n \in Steps : SetClock(n)
    \/ Log

Spec == Init /\ [][Next]_vars

(***************************************************************************)
(* Properties                                                              *)
(***************************************************************************)

\* Every variable keeps its type; msec is below a second.
TypeOK ==
    /\ sec \in Nat /\ start_sec \in Nat
    /\ msec \in 0..SecondMs - 1 /\ start_msec \in 0..SecondMs - 1
    /\ sample \in 0..U32Max /\ elapsed \in Nat /\ steady \in BOOLEAN

\* With a steady clock the sample is the time the request took, raised to one
\* millisecond and lowered to the 32-bit limit.
SampleIsLatency ==
    sample # 0 /\ steady =>
        \/ sample = elapsed
        \/ elapsed = 0 /\ sample = 1
        \/ elapsed > U32Max /\ sample = U32Max

\* A clock set back while the request ran never makes its sample zero, which
\* satisfies every guard, nor an enormous one.
SetBackIsHarmless ==
    sample # 0 /\ Millis(sec, msec) <= Millis(start_sec, start_msec)
        => sample = 1
=============================================================================
