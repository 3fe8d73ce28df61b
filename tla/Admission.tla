----------------------------- MODULE Admission -----------------------------
(***************************************************************************)
(* What the module promises about one main HTTP request (spec/behavior.md):*)
(* at most one RateLimitly check, one decision that later internal routing *)
(* reuses, and content of a protected location only after a decision that  *)
(* lets the request through.                                               *)
(***************************************************************************)
CONSTANT Requests

VARIABLES
    verdict,    \* per request: the state of its admission decision
    served      \* per request: content of a protected location is being served

vars == <<verdict, served>>

Decisions == {"admitted", "exempt", "refused"}

Init ==
    /\ verdict = [r \in Requests |-> "none"]
    /\ served = [r \in Requests |-> FALSE]

Open(r) ==
    /\ verdict[r] = "none"
    /\ verdict' = [verdict EXCEPT ![r] = "undecided"]
    /\ UNCHANGED served

Ask(r) ==
    /\ verdict[r] = "undecided"
    /\ verdict' = [verdict EXCEPT ![r] = "asking"]
    /\ UNCHANGED served

\* By the answer, or by the failure policy before or after asking.
Decide(r, d, serve) ==
    /\ verdict[r] \in {"undecided", "asking"}
    /\ verdict' = [verdict EXCEPT ![r] = d]
    /\ serve => d = "admitted"
    /\ served' = [served EXCEPT ![r] = serve]

\* Entering and leaving protected content later, through internal redirects.
Serve(r) ==
    /\ verdict[r] \in {"admitted", "exempt"}
    /\ served' = [served EXCEPT ![r] = TRUE]
    /\ UNCHANGED verdict

Leave(r) ==
    /\ served' = [served EXCEPT ![r] = FALSE]
    /\ UNCHANGED verdict

Close(r) ==
    /\ verdict' = [verdict EXCEPT ![r] = "none"]
    /\ served' = [served EXCEPT ![r] = FALSE]

Next ==
    \E r \in Requests :
        \/ Open(r) \/ Ask(r) \/ Serve(r) \/ Leave(r) \/ Close(r)
        \/ \E d \in Decisions, serve \in BOOLEAN : Decide(r, d, serve)

Spec == Init /\ [][Next]_vars
=============================================================================
