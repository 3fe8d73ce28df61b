----------------------------- MODULE SourcePort -----------------------------
(***************************************************************************)
(* What the module promises about its UDP source port (spec/behavior.md,   *)
(* "Source-port steering"): a server may ask for a new source port at any  *)
(* time; the port changes only on such a request and never while a         *)
(* RateLimitly check that was sent from the current port is outstanding.   *)
(***************************************************************************)
EXTENDS Naturals

CONSTANT Checks             \* identities a check may have

VARIABLES
    outstanding,            \* checks that have been sent and not ended
    port,                   \* the current source port, numbered in order
    wanted                  \* a new port was asked for

vars == <<outstanding, port, wanted>>

Init == outstanding = {} /\ port = 1 /\ wanted = FALSE

Send(c) ==
    /\ c \notin outstanding
    /\ outstanding' = outstanding \cup {c}
    /\ UNCHANGED <<port, wanted>>

End(c) ==
    /\ c \in outstanding
    /\ outstanding' = outstanding \ {c}
    /\ UNCHANGED <<port, wanted>>

Ask == wanted' = TRUE /\ UNCHANGED <<outstanding, port>>

Change ==
    /\ wanted /\ outstanding = {}
    /\ port' = port + 1
    /\ wanted' = FALSE
    /\ UNCHANGED outstanding

Next == Ask \/ Change \/ \E c \in Checks : Send(c) \/ End(c)

Spec == Init /\ [][Next]_vars
=============================================================================
