------------------------------ MODULE RnPolicy ------------------------------
(***************************************************************************)
(* The request policy: the directive ratelimitly_policy with its options   *)
(* (ngx_http_rn_set_policy, rn_parse_policy_schedule), and the horizon of  *)
(* the schedule (rn_policy_horizon_ms), computed once when the directive   *)
(* is read, with the limit of the wire field, and again when the           *)
(* configuration is complete, with the API key's dedup_ttl_ms_max.  The    *)
(* loops of the horizon are steps of the model, in 32-bit arithmetic.      *)
(*                                                                         *)
(* An option's value is what its text denotes; a number above U32Max and a *)
(* duration of 0 or above U32Max stand for texts that do not parse         *)
(* (RnParse shows which do).                                               *)
(*                                                                         *)
(* A definition marked "Fault" is not used: it is the definition after it  *)
(* with a plausible mistake, which one of the properties below rules out.  *)
(***************************************************************************)
EXTENDS RnNumeric, Sequences

CONSTANTS
    MaxReplays,     \* R_CLIENT_HA_MAX_REPLAY_COUNT
    DefaultUnit,    \* unit_ms of r_client_default_request_policy
    Durations,      \* what ngx_parse_time returns for unit= (external)
    Numbers,        \* numbers in options
    KeyTtls         \* dedup_ttl_ms_max of API keys, 0 for none

\* Proper values of the constants.
PolicyConstants ==
    /\ NumericConstants
    /\ MaxReplays \in 1..U32Max
    /\ DefaultUnit \in 1..U32Max
    /\ Durations \subseteq Nat /\ Numbers \subseteq Nat
    /\ KeyTtls \subseteq U32

ASSUME PolicyAssumption == PolicyConstants

VARIABLES
    request_policy,     \* mcf->request_policy
    request_policy_kind, request_policy_set,
    kind,               \* the name in the directive
    policy,             \* the policy the running function works on
    seen,               \* the options read so far
    step,               \* the next operation
    limit,              \* max_ttl_ms of the horizon call
    round, left, value, \* round, the inner loop's count, gap_units
    total,              \* total_units
    horizon,            \* *out_horizon_ms
    verdict             \* what the last horizon call returned

mcf == <<request_policy, request_policy_kind, request_policy_set>>
directive == <<mcf, kind, policy, seen>>
loop == <<round, left, value, total>>
vars == <<directive, step, limit, loop, horizon, verdict>>

(***************************************************************************)
(* Schedules and policies                                                  *)
(***************************************************************************)

Fixed(n) == [kind |-> "fixed", initial |-> n, growth |-> 0, max |-> n]

\* r_client_default_request_policy (external): one replay, one unit each.
StandardPolicy ==
    [unit |-> DefaultUnit, replays |-> 1, gap |-> Fixed(1), final |-> 1]

Names == {"standard", "single_round", "custom"}

\* The policy a directive starts from; custom starts from zeroed memory.
NamedPolicy(k) ==
    CASE k = "standard" -> StandardPolicy
      [] k = "single_round" -> [StandardPolicy EXCEPT !.replays = 0,
                                                      !.final = 0]
      [] k = "custom" -> [unit |-> 0, replays |-> 0, gap |-> Fixed(0),
                          final |-> 0]

\* A schedule's text: its keyword and the numbers between the colons.
ScheduleTexts == [kind : {"fixed", "linear", "exponential", "other"},
                  nums : UNION {[1..n -> Numbers] : n \in 1..3}]

\* rn_parse_policy_schedule accepts the text.
ScheduleParses(t) ==
    /\ \A i \in DOMAIN t.nums : FitsU32(t.nums[i])
    /\ \/ t.kind = "fixed" /\ Len(t.nums) = 1
       \/ /\ t.kind = "linear" /\ Len(t.nums) = 3
          /\ t.nums[2] # 0 /\ t.nums[1] <= t.nums[3]
       \/ /\ t.kind = "exponential" /\ Len(t.nums) = 3
          /\ t.nums[2] >= 2 /\ t.nums[1] <= t.nums[3]

Schedule(t) ==
    IF t.kind = "fixed" THEN Fixed(t.nums[1])
    ELSE [kind |-> t.kind, initial |-> t.nums[1],
          growth |-> t.nums[2], max |-> t.nums[3]]

Options == {"unit", "replays", "replay_gap", "final_wait_units",
            "completion_delivery"}

ValuesOf(option) ==
    CASE option = "unit" -> Durations
      [] option = "replay_gap" -> ScheduleTexts
      [] option = "completion_delivery" -> {"on", "off", "other"}
      [] OTHER -> Numbers

OptionValid(option, v) ==
    CASE option = "unit" -> v # 0 /\ FitsU32(v)
      [] option = "replays" -> v <= MaxReplays
      [] option = "replay_gap" -> ScheduleParses(v) /\ v.nums[1] # 0
      [] option = "final_wait_units" -> FitsU32(v)
      [] option = "completion_delivery" -> v \in {"on", "off"}

\* completion_delivery does not enter the horizon and is not kept.
WithOption(p, option, v) ==
    CASE option = "unit" -> [p EXCEPT !.unit = v]
      [] option = "replays" -> [p EXCEPT !.replays = v]
      [] option = "replay_gap" -> [p EXCEPT !.gap = Schedule(v)]
      [] option = "final_wait_units" -> [p EXCEPT !.final = v]
      [] option = "completion_delivery" -> p

Init ==
    /\ request_policy = StandardPolicy
    /\ request_policy_kind = "standard" /\ request_policy_set = FALSE
    /\ kind = "none" /\ policy = StandardPolicy /\ seen = {}
    /\ step = "idle" /\ limit = 0
    /\ round = 0 /\ left = 0 /\ value = 0 /\ total = 0
    /\ horizon = 0 /\ verdict = "none"

(***************************************************************************)
(* ngx_http_rn_set_policy                                                  *)
(***************************************************************************)

DirectiveBegins(k) ==
    /\ step = "idle" /\ ~request_policy_set
    /\ kind' = k /\ policy' = NamedPolicy(k) /\ seen' = {}
    /\ step' = "options" /\ verdict' = "none"
    /\ UNCHANGED <<mcf, limit, loop, horizon>>

\* A second directive, or an unknown name: the configuration is refused.
DirectiveRefused ==
    /\ step = "idle"
    /\ step' = "failed"
    /\ UNCHANGED <<directive, limit, loop, horizon, verdict>>

OptionRead(option, v) ==
    /\ step = "options"
    /\ IF /\ option \notin seen
          /\ option = "unit" \/ kind = "custom"
          /\ OptionValid(option, v)
       THEN /\ policy' = WithOption(policy, option, v)
            /\ seen' = seen \cup {option}
            /\ UNCHANGED step
       ELSE step' = "failed" /\ UNCHANGED <<policy, seen>>
    /\ UNCHANGED <<mcf, kind, limit, loop, horizon, verdict>>

Complete == kind = "custom" => seen = Options

OptionsEnd ==
    /\ step = "options"
    /\ IF Complete THEN step' = "check" /\ limit' = U32Max
                   ELSE step' = "failed" /\ UNCHANGED limit
    /\ UNCHANGED <<directive, loop, horizon, verdict>>

\* ngx_http_rn_init with an enabled location: the key's limit.
Postconfiguration(ttl) ==
    /\ step = "idle"
    /\ policy' = request_policy /\ kind' = "init"
    /\ step' = "check" /\ verdict' = "none"
    /\ limit' = IF ttl = 0 THEN U32Max ELSE ttl
    /\ UNCHANGED <<mcf, seen, loop, horizon>>

(***************************************************************************)
(* rn_policy_horizon_ms and rn_policy_schedule_units                       *)
(***************************************************************************)

MaxUnits == limit \div policy.unit

HorizonError ==
    /\ verdict' = "error" /\ step' = "failed"
    /\ UNCHANGED <<directive, limit, loop, horizon>>

CheckFails ==
    /\ step = "check"
    /\ \/ policy.unit = 0 \/ policy.unit > limit
       \/ policy.replays > MaxReplays \/ policy.gap.initial = 0
    /\ HorizonError

CheckPasses ==
    /\ step = "check"
    /\ policy.unit # 0 /\ policy.unit <= limit
    /\ policy.replays <= MaxReplays /\ policy.gap.initial # 0
    /\ round' = 0 /\ total' = 0 /\ step' = "gap"
    /\ UNCHANGED <<directive, limit, left, value, horizon, verdict>>

LinearGap(gap) ==
    IF round > (gap.max - gap.initial) \div gap.growth THEN gap.max
    ELSE Trunc(gap.initial + Trunc(round * gap.growth))

\* rn_policy_schedule_units can evaluate the schedule.
Sound(gap) ==
    /\ gap.initial <= gap.max
    /\ gap.kind = "linear" => gap.growth # 0
    /\ gap.kind = "exponential" => gap.growth >= 2

Gap ==
    /\ step = "gap" /\ round <= policy.replays
    /\ Sound(policy.gap)
    /\ value' = IF policy.gap.kind = "linear" THEN LinearGap(policy.gap)
                ELSE policy.gap.initial
    /\ left' = round
    /\ step' = IF policy.gap.kind = "exponential" THEN "grow" ELSE "add"
    /\ UNCHANGED <<directive, limit, round, total, horizon, verdict>>

\* One round of the inner loop, or its end.
Grow ==
    /\ step = "grow"
    /\ LET gap == policy.gap IN
       IF left > 0 /\ value < gap.max
       THEN /\ value' = IF value > gap.max \div gap.growth THEN gap.max
                        ELSE Trunc(value * gap.growth)
            /\ left' = left - 1
            /\ UNCHANGED step
       ELSE step' = "add" /\ UNCHANGED <<value, left>>
    /\ UNCHANGED <<directive, limit, round, total, horizon, verdict>>

\* Fault: each gap is compared with the whole limit.
ExceedsAlone(units) == units > MaxUnits

Exceeds(units) == units > MaxUnits - total

\* A gap cannot be computed or does not fit.
Unfit == IF step = "gap" THEN round <= policy.replays /\ ~Sound(policy.gap)
                         ELSE step = "add" /\ Exceeds(value)

RoundFails == Unfit /\ HorizonError

Add ==
    /\ step = "add" /\ ~Exceeds(value)
    /\ total' = total + value
    /\ round' = round + 1
    /\ step' = "gap"
    /\ UNCHANGED <<directive, limit, left, value, horizon, verdict>>

FinalFails ==
    /\ step = "gap" /\ round > policy.replays
    /\ Exceeds(policy.final) \/ total + policy.final = 0
    /\ HorizonError

\* The horizon fits: the directive stores its policy, or loading goes on.
Final ==
    /\ step = "gap" /\ round > policy.replays
    /\ ~Exceeds(policy.final) /\ total + policy.final # 0
    /\ total' = total + policy.final
    /\ horizon' = Trunc((total + policy.final) * policy.unit)
    /\ verdict' = "ok"
    /\ IF kind = "init"
       THEN step' = "loaded" /\ UNCHANGED mcf
       ELSE /\ request_policy' = policy
            /\ request_policy_kind' = kind /\ request_policy_set' = TRUE
            /\ step' = "idle"
    /\ UNCHANGED <<kind, policy, seen, limit, round, left, value>>

Next ==
    \/ \E k \in Names : DirectiveBegins(k)
    \/ DirectiveRefused
    \/ \E option \in Options : \E v \in ValuesOf(option) : OptionRead(option, v)
    \/ OptionsEnd
    \/ \E ttl \in KeyTtls : Postconfiguration(ttl)
    \/ CheckFails \/ CheckPasses
    \/ Gap \/ Grow \/ RoundFails \/ Add
    \/ FinalFails \/ Final

Spec == Init /\ [][Next]_vars

(***************************************************************************)
(* Properties                                                              *)
(***************************************************************************)

Schedules == [kind : {"fixed", "linear", "exponential"},
              initial : U32, growth : U32, max : U32]

Policies == [unit : U32, replays : U32, gap : Schedules, final : U32]

\* Every variable keeps its type.
TypeOK ==
    /\ request_policy \in Policies /\ request_policy_kind \in Names
    /\ request_policy_set \in BOOLEAN
    /\ kind \in Names \cup {"none", "init"}
    /\ policy \in Policies /\ seen \subseteq Options
    /\ step \in {"idle", "options", "check", "gap", "grow", "add", "failed",
                 "loaded"}
    /\ limit \in U32
    /\ round \in Nat /\ left \in Nat /\ value \in U32 /\ total \in Nat
    /\ horizon \in U32 /\ verdict \in {"none", "ok", "error"}

Least(a, b) == IF a < b THEN a ELSE b

\* b to the n.
Power(b, n) ==
    LET power[k \in Nat] == IF k = 0 THEN 1 ELSE power[k - 1] * b
    IN  power[n]

\* The gap of round k by the documentation's formulas, without widths.
GapOf(gap, k) ==
    CASE gap.kind = "fixed" -> gap.initial
      [] gap.kind = "linear" -> Least(gap.max, gap.initial + k * gap.growth)
      [] gap.kind = "exponential" ->
            Least(gap.max, gap.initial * Power(gap.growth, k))

\* The sum of the first n gaps.
UnitsOf(gap, n) ==
    LET sum[k \in Nat] == IF k = 0 THEN 0 ELSE sum[k - 1] + GapOf(gap, k - 1)
    IN  sum[n]

\* The documented horizon: U times the sum of the gaps and the final wait.
ExactHorizon(p) == p.unit * (UnitsOf(p.gap, p.replays + 1) + p.final)

\* A policy is accepted exactly when its documented horizon is within the
\* limit, and the horizon computed in 32 bits is that one: neither the growth
\* of a schedule nor the sum of many gaps wraps, and no policy that fits is
\* refused.
HorizonExact ==
    /\ verdict = "ok" => horizon = ExactHorizon(policy) /\ horizon \in 1..limit
    /\ verdict = "error" => ExactHorizon(policy) > limit

\* The policy a configuration is loaded with has the shape its directive names:
\* standard takes 3 units, single_round one, and a custom policy got every
\* option.
LoadedAsNamed ==
    step = "loaded" =>
        /\ request_policy_kind = "standard" => horizon = 3 * policy.unit
        /\ request_policy_kind = "single_round" => horizon = policy.unit
        /\ request_policy_kind = "custom" => seen = Options

\* rn_policy_horizon_ms accepts a policy exactly when the documented horizon
\* fits, and computes that horizon in 32 bits; the policy a configuration runs
\* with is the one its directive names, and within the API key's limit.
PolicyExact == HorizonExact /\ LoadedAsNamed
=============================================================================
