----------------------------- MODULE RnNumeric -----------------------------
(***************************************************************************)
(* The checked 32-bit arithmetic of src/rn_numeric.c and of the log        *)
(* handler's latency sample.  The operators keep the width: a value that   *)
(* does not fit is reduced as the C type reduces it, and it is for the     *)
(* guards to see that this never happens.  The width is a parameter, so    *)
(* that TLC reaches the limit with small numbers.                          *)
(*                                                                         *)
(* A definition marked "Fault" is not used: it is the definition after it  *)
(* with a plausible mistake, which a property of a module that uses it     *)
(* rules out.                                                              *)
(***************************************************************************)
EXTENDS Integers

CONSTANTS
    U32Max,     \* UINT32_MAX
    SecondMs    \* milliseconds in a second, scaled down with U32Max

\* Proper values of the constants.
NumericConstants ==
    /\ U32Max \in Nat /\ U32Max >= 9
    /\ SecondMs \in Nat \ {0}

U32 == 0..U32Max

\* What a uint32_t keeps of n.
Trunc(n) == n % (U32Max + 1)

\* Fault: the last number that fits is refused.
DigitFitsStrictly(value, digit) == value < (U32Max - digit) \div 10

\* The guard of the digit loops: one more digit after value.
DigitFits(value, digit) == value <= (U32Max - digit) \div 10

AddDigit(value, digit) == Trunc(value * 10 + digit)

\* Milliseconds in a unit of a rate's period.
Factor(unit) == CASE unit = "s" -> SecondMs
                  [] unit = "m" -> 60 * SecondMs
                  [] unit = "h" -> 3600 * SecondMs

\* The guard of the period's conversion to milliseconds.
WindowFits(window, factor) == window <= U32Max \div factor

\* rn_numeric_u32_from_u64 accepts n.
FitsU32(n) == n <= U32Max

\* Fault: a lifetime that is too long wraps.
TtlMsUntilWrapping(expires, now) ==
    IF expires <= now THEN 0 ELSE Trunc((expires - now) * SecondMs)

\* rn_numeric_ttl_ms_until: seconds left, in milliseconds, saturated.
TtlMsUntil(expires, now) ==
    IF expires <= now THEN 0
    ELSE IF expires - now > U32Max \div SecondMs THEN U32Max
    ELSE Trunc((expires - now) * SecondMs)

\* Fault: the difference of the clock readings as it is.
ObservedLatencyRaw(start, end) == Trunc(end - start)

\* The sample of a request: never 0, which would satisfy every guard.
ObservedLatency(start, end) ==
    LET elapsed == IF end > start THEN end - start ELSE 0
        observed == IF elapsed = 0 THEN 1 ELSE elapsed
    IN  Trunc(IF observed > U32Max THEN U32Max ELSE observed)
=============================================================================
