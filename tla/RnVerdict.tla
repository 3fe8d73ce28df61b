----------------------------- MODULE RnVerdict -----------------------------
(***************************************************************************)
(* The admission outcomes of rl-nginx and the pure part of rn_rate_cb: how *)
(* a completed RateLimitly check is turned into an nginx return code, an   *)
(* admission outcome and a completion cause.                               *)
(***************************************************************************)
EXTENDS Naturals, Sequences

\* rn_admission_outcome_t (RN_ADMISSION_xxx).
Outcomes == {"NONE", "WAITING", "VALID_ALLOW", "VALID_DENY", "FAIL_OPEN",
             "FAIL_CLOSE", "INTERNAL_ERROR", "ABORTED"}

\* rn_completion_cause_t (RN_COMPLETION_xxx).
Causes == {"NONE", "VALID_VERDICT", "START_FAILURE", "DEPENDENCY_ERROR",
           "TIMEOUT", "CARDINALITY_MISMATCH", "NGINX_ERROR", "CLIENT_ABORT"}

\* The nginx return codes a decision can have.  The handler also returns
\* "AGAIN", which is none.
Codes == {"OK", "DECLINED", "429", "500"}

\* What the C client can report with a completion (the RCLIENT_xxx status
\* codes, the ones the module does not tell apart folded into one).
Statuses == {"OK", "TIMEOUT", "ERROR"}

NoResult == [present |-> FALSE]

\* r_rate_limit_result_t: the server's own verdict, one flag per guard and
\* one token deficit per resource.
Result(success, guards, resources) ==
    [present |-> TRUE, success |-> success, guards |-> guards,
     resources |-> resources]

ResultType == [present : {TRUE}, success : BOOLEAN, guards : Seq(BOOLEAN),
               resources : Seq(Nat)]

\* ratelimitly_fail open|close: the code and the outcome of every check that
\* ended without a valid decision.
FailCode(fail_open) == IF fail_open THEN "OK" ELSE "429"

FailOutcome(fail_open) == IF fail_open THEN "FAIL_OPEN" ELSE "FAIL_CLOSE"

\* Fault: token deficits are not looked at.
AllowedOnGuards(result) ==
    /\ result.success
    /\ \A i \in 1..Len(result.guards) : result.guards[i]

\* The request is admitted only when the server says so, every guard passed
\* and no resource is short of tokens.
Allowed(result) ==
    /\ result.success
    /\ \A i \in 1..Len(result.guards) : result.guards[i]
    /\ \A i \in 1..Len(result.resources) : result.resources[i] = 0

\* The module asked for `guards' guards and `resources' resources: an answer
\* of any other shape is not a decision.
CardinalityMismatch(result, guards, resources) ==
    \/ Len(result.guards) # guards
    \/ Len(result.resources) # resources

\* rn_rate_cb's classification of a completion.
RateDecision(fail_open, guards, resources, status, result) ==
    IF status = "OK" /\ result.present
    THEN IF CardinalityMismatch(result, guards, resources)
         THEN [code |-> FailCode(fail_open), outcome |-> FailOutcome(fail_open),
               cause |-> "CARDINALITY_MISMATCH"]
         ELSE IF Allowed(result)
         THEN [code |-> "OK", outcome |-> "VALID_ALLOW",
               cause |-> "VALID_VERDICT"]
         ELSE [code |-> "429", outcome |-> "VALID_DENY",
               cause |-> "VALID_VERDICT"]
    ELSE [code |-> FailCode(fail_open), outcome |-> FailOutcome(fail_open),
          cause |-> IF status = "TIMEOUT" THEN "TIMEOUT"
                                          ELSE "DEPENDENCY_ERROR"]
=============================================================================
