------------------------------ MODULE RnParse ------------------------------
(***************************************************************************)
(* rn_numeric_parse_rate and rn_numeric_parse_u32, which read numbers and  *)
(* rates from the configuration and, for templates with variables, from    *)
(* rendered request data.  A text is read character by character; the      *)
(* scan ends at the text's end or, like the code, at the first character   *)
(* it rejects.  `text' records what was read, for the properties.          *)
(***************************************************************************)
EXTENDS RnNumeric, Sequences, FiniteSets

CONSTANTS
    Digits,     \* digits that occur in texts
    MaxLen      \* bound: length of a text

\* Proper values of the constants.
ParseConstants ==
    NumericConstants /\ Digits \subseteq 0..9 /\ MaxLen \in Nat

VARIABLES
    job,        \* "u32" or "rate": the function that runs
    phase,      \* where in it; "rejected" by a character, "incomplete" at the
                \* end of the text: the function returns -1 for both
    value,      \* the number being read
    rate,       \* the rate, when it has been read
    unit,       \* the character after the period, "" before it
    out,        \* what the function stored
    text        \* history: the characters read

vars == <<job, phase, value, rate, unit, out, text>>

Units == {"s", "m", "h"}
Marks == Units \cup {"r", "/", "other"}

Digit(d) == [is |-> "digit", d |-> d]
Mark(c) == [is |-> c, d |-> 0]

Init ==
    /\ job \in {"u32", "rate"}
    /\ phase = "first"
    /\ value = 0 /\ rate = 0 /\ unit = ""
    /\ out = <<>> /\ text = <<>>

Scanning == phase \notin {"accepted", "rejected", "incomplete"}

Reading == Scanning /\ Len(text) < MaxLen

Reject ==
    /\ phase' = "rejected"
    /\ UNCHANGED <<value, rate, unit, out>>

\* One round of a digit loop, or a digit where none may be.
ReadDigit(d) ==
    /\ Reading
    /\ text' = Append(text, Digit(d))
    /\ \/ /\ phase \in {"first", "window"}
          /\ DigitFits(value, d)
          /\ value' = AddDigit(value, d)
          /\ UNCHANGED <<phase, rate, unit, out>>
       \/ /\ phase \in {"first", "window"} => ~DigitFits(value, d)
          /\ Reject
    /\ UNCHANGED job

\* The character that ends the digits of a rate.
RateEnds(c) == job = "rate" /\ phase = "first" /\ value # 0 /\ c = "r"

PeriodBegins(c) == phase = "slash" /\ c = "/"

\* The first character after the period: only the last one is looked at.
PeriodEnds(c) == phase = "window"

ReadMark(c) ==
    /\ Reading
    /\ text' = Append(text, Mark(c))
    /\ \/ /\ RateEnds(c)
          /\ phase' = "slash" /\ rate' = value
          /\ UNCHANGED <<value, unit, out>>
       \/ /\ PeriodBegins(c)
          /\ phase' = "window" /\ value' = 0
          /\ UNCHANGED <<rate, unit, out>>
       \/ /\ PeriodEnds(c)
          /\ phase' = "unit" /\ unit' = c
          /\ UNCHANGED <<value, rate, out>>
       \/ /\ ~(RateEnds(c) \/ PeriodBegins(c) \/ PeriodEnds(c))
          /\ Reject
    /\ UNCHANGED job

\* A period of zero, or none, is one unit.
Window == IF value = 0 THEN 1 ELSE value

Accept(result) ==
    /\ phase' = "accepted" /\ out' = result
    /\ UNCHANGED <<value, rate, unit>>

EndAccepts ==
    \/ /\ job = "u32" /\ text # <<>>
       /\ Accept(<<value>>)
    \/ /\ phase = "unit" /\ unit \in Units
       /\ WindowFits(Window, Factor(unit))
       /\ Accept(<<rate, Trunc(Window * Factor(unit))>>)

EndRejects ==
    /\ IF job = "u32" THEN text = <<>>
       ELSE phase = "unit" /\ unit \in Units
               => ~WindowFits(Window, Factor(unit))
    /\ phase' = "incomplete"
    /\ UNCHANGED <<value, rate, unit, out>>

EndOfText ==
    /\ Scanning
    /\ EndAccepts \/ EndRejects
    /\ UNCHANGED <<job, text>>

Next ==
    \/ \E d \in Digits : ReadDigit(d)
    \/ \E c \in Marks : ReadMark(c)
    \/ EndOfText

Spec == Init /\ [][Next]_vars

(***************************************************************************)
(* Properties                                                              *)
(***************************************************************************)

\* Every variable keeps its type: no number leaves 32 bits.
TypeOK ==
    /\ job \in {"u32", "rate"}
    /\ phase \in {"first", "slash", "window", "unit",
                  "accepted", "rejected", "incomplete"}
    /\ value \in 0..U32Max /\ rate \in 0..U32Max
    /\ unit \in Marks \cup {""}
    /\ out \in Seq(0..U32Max) /\ Len(out) <= 2
    /\ text \in Seq([is : Marks \cup {"digit"}, d : 0..9])

AllDigits(s) == \A i \in DOMAIN s : s[i].is = "digit"

\* The number a sequence of digits denotes, without a limit.
ValueOf(s) ==
    LET v[i \in 0..Len(s)] == IF i = 0 THEN 0 ELSE 10 * v[i - 1] + s[i].d
    IN  v[Len(s)]

Period(s) == IF ValueOf(s) = 0 THEN 1 ELSE ValueOf(s)

\* The grammar <rate>r/<period><unit> that t is an instance of, with the rate
\* in i digits: the numbers denoted are in range.
IsRate(t, i) ==
    LET n == Len(t)
        period == SubSeq(t, i + 3, n - 1)
    IN  /\ n >= i + 3
        /\ AllDigits(SubSeq(t, 1, i)) /\ AllDigits(period)
        /\ t[i + 1].is = "r" /\ t[i + 2].is = "/" /\ t[n].is \in Units
        /\ ValueOf(SubSeq(t, 1, i)) \in 1..U32Max
        /\ ValueOf(period) <= U32Max
        /\ Period(period) * Factor(t[n].is) <= U32Max

IsU32(t) == t # <<>> /\ AllDigits(t) /\ ValueOf(t) <= U32Max

Valid(t) == IF job = "u32" THEN IsU32(t)
            ELSE \E i \in 1..Len(t) : IsRate(t, i)

\* Texts that complete a beginning of a rate.
Completions == {<<>>, <<Mark("s")>>, <<Mark("/"), Mark("s")>>,
                <<Mark("r"), Mark("/"), Mark("s")>>}

\* What is accepted is a number, or a rate, in range, and what is stored are
\* the values it denotes, exactly.
AcceptsExactly ==
    phase = "accepted" =>
        /\ Valid(text)
        /\ job = "u32" => out = <<ValueOf(text)>>
        /\ job = "rate" =>
              LET i == CHOOSE i \in 1..Len(text) : IsRate(text, i)
              IN  out = <<ValueOf(SubSeq(text, 1, i)),
                          Period(SubSeq(text, i + 3, Len(text) - 1))
                              * Factor(text[Len(text)].is)>>

\* Nothing in range is rejected: a text that is refused at its end is not a
\* number or rate the documentation allows, and neither is any completion of a
\* beginning that is refused at once.
RejectsExactly ==
    /\ phase = "incomplete" => ~Valid(text)
    /\ phase = "rejected" => \A tail \in Completions : ~Valid(text \o tail)
=============================================================================
