----------------------------- MODULE RnResolve -----------------------------
(***************************************************************************)
(* The DNS adapter between the C client and nginx's resolver:              *)
(* rn_resolve_srv, rn_resolve_addrs, their handlers and rn_resolve_cancel. *)
(* nginx may call the handler while ngx_resolve_name is still running      *)
(* (a cached answer), later, or never (the lookup is cancelled); the       *)
(* client's callback may start and cancel other lookups.  rn_async_state_t *)
(* decides who frees the request and whether an identifier is published.   *)
(*                                                                         *)
(* `stack' holds the lookups whose adapter code is on the C stack, the     *)
(* innermost first.  nginx's resolver and the client are external.         *)
(*                                                                         *)
(* A definition marked "Fault" is not used: it is the definition after it  *)
(* with a plausible mistake, which one of the properties below rules out.  *)
(***************************************************************************)
EXTENDS Naturals, Sequences

CONSTANTS
    Lookups,    \* lookups that may exist at the same time (slots, reused)
    MaxDepth    \* bound: adapter calls nested through client callbacks

ASSUME MaxDepthAssumption == MaxDepth \in Nat \ {0}

VARIABLES
    kind,       \* what is looked up: "srv", "plain" (an SRV name without a
                \* service part) or "addr"
    at,         \* the next operation of the lookup
    mem,        \* blocks of the lookup that exist: "rctx" is nginx's
    data,       \* rctx->data points to the request
    starting,   \* start_state.starting
    completed,  \* start_state.completed
    id,         \* the client holds a nonzero identifier of the lookup
    calls,      \* history: callbacks the client got
    ret,        \* history: what the start returned (0, -1, or "running")
    stack,
    client      \* the C client: "live", "destroying" or "gone"

vars == <<kind, at, mem, data, starting, completed, id, calls, ret, stack, client>>

Init ==
    /\ kind \in [Lookups -> {"addr"}]
    /\ at = [l \in Lookups |-> "none"]
    /\ mem = [l \in Lookups |-> {}]
    /\ data = [l \in Lookups |-> FALSE]
    /\ starting = [l \in Lookups |-> FALSE]
    /\ completed = [l \in Lookups |-> FALSE]
    /\ id = [l \in Lookups |-> FALSE]
    /\ calls = [l \in Lookups |-> 0]
    /\ ret = [l \in Lookups |-> "none"]
    /\ stack = <<>>
    /\ client = "live"

Top(l) == stack # <<>> /\ Head(stack) = l

\* The client runs: from its own timers and datagrams, or in a callback.
ClientRuns ==
    stack # <<>> => at[Head(stack)] \in {"callback", "cancel_callback"}

\* Fault: the service buffer is forgotten.
ReqReleasedPartly(m) == m \ {"name", "req"}

\* rn_dns_req_release: both buffers and the request.
ReqReleased(m) == m \ {"name", "service", "req"}

(***************************************************************************)
(* rn_resolve_srv and rn_resolve_addrs up to ngx_resolve_name              *)
(***************************************************************************)

\* ngx_resolve_start gives a resolver context ...
Begin(l, k) ==
    /\ ClientRuns /\ client = "live" /\ Len(stack) < MaxDepth
    /\ at[l] = "none"
    /\ kind' = [kind EXCEPT ![l] = k]
    /\ at' = [at EXCEPT ![l] = "req"]
    /\ mem' = [mem EXCEPT ![l] = {"rctx"}]
    /\ data' = [data EXCEPT ![l] = FALSE]
    /\ calls' = [calls EXCEPT ![l] = 0]
    /\ ret' = [ret EXCEPT ![l] = "running"]
    /\ stack' = <<l>> \o stack
    /\ UNCHANGED <<starting, completed, id, client>>

\* ... or not: the start fails with nothing allocated.
BeginFails(l) ==
    /\ ClientRuns /\ client = "live"
    /\ at[l] = "none"
    /\ calls' = [calls EXCEPT ![l] = 0]
    /\ ret' = [ret EXCEPT ![l] = "-1"]
    /\ UNCHANGED <<kind, at, mem, data, starting, completed, id, stack, client>>

\* Fault: every name is split.
FollowingSplit(l) ==
    CASE at[l] = "req" -> "name"
      [] at[l] = "name" -> "service"
      [] at[l] = "service" -> "domain"
      [] at[l] = "domain" -> "resolve"

\* The allocations in order.  An SRV name is split in service and domain; the
\* domain's buffer takes the place of the name's.
Following(l) ==
    CASE at[l] = "req" -> "name"
      [] at[l] = "name" -> IF kind[l] = "srv" THEN "service" ELSE "resolve"
      [] at[l] = "service" -> "domain"
      [] at[l] = "domain" -> "resolve"

Allocation(l) == at[l] \in {"req", "name", "service", "domain"}

Allocate(l) ==
    /\ Top(l) /\ Allocation(l)
    /\ mem' = [mem EXCEPT ![l] = @ \cup
                 {IF at[l] = "domain" THEN "name" ELSE at[l]}]
    /\ at' = [at EXCEPT ![l] = Following(l)]
    /\ data' = [data EXCEPT ![l] = Following(l) = "resolve"]
    /\ UNCHANGED <<kind, starting, completed, id, calls, ret, stack, client>>

\* rn_dns_discard_unstarted gives back the resolver context and the request.
AllocateFails(l) ==
    /\ Top(l) /\ Allocation(l)
    /\ mem' = [mem EXCEPT ![l] = ReqReleased(@ \ {"rctx"})]
    /\ at' = [at EXCEPT ![l] = "none"]
    /\ ret' = [ret EXCEPT ![l] = "-1"]
    /\ stack' = Tail(stack)
    /\ UNCHANGED <<kind, data, starting, completed, id, calls, client>>

(***************************************************************************)
(* ngx_resolve_name, between rn_async_state_begin and _finish              *)
(***************************************************************************)

\* The handler is called before ngx_resolve_name returns.
ResolveSynchronously(l) ==
    /\ Top(l) /\ at[l] = "resolve"
    /\ starting' = [starting EXCEPT ![l] = TRUE]
    /\ completed' = [completed EXCEPT ![l] = FALSE]
    /\ at' = [at EXCEPT ![l] = "handler"]
    /\ UNCHANGED <<kind, mem, data, id, calls, ret, stack, client>>

\* Fault: the handler's completion is overlooked.
StillPendingAnyway(ok, done) == ok

\* rn_async_state_finish: the lookup is still pending after a start that
\* succeeded exactly when the handler has not run.
StillPending(ok, done) == ok /\ ~done

\* Fault: the caller never learns the identifier.
PublishedNever(pending) == FALSE

\* *out_req_id is written for a lookup that is pending, and only then.
Published(pending) == pending

\* ngx_resolve_name has returned, at once or after the handler: NGX_OK, or
\* NGX_ERROR with nginx's context freed.  A lookup that is no longer pending
\* leaves only the adapter's own blocks to free.
StartReturns(l, ok) ==
    /\ Top(l) /\ at[l] \in {"resolve", "handled"}
    /\ ~ok => at[l] = "resolve"
    /\ LET done == at[l] = "handled" /\ completed[l]
           pending == StillPending(ok, done)
           left == IF ok THEN mem[l] ELSE mem[l] \ {"rctx"}
       IN  /\ id' = [id EXCEPT ![l] = Published(pending)]
           /\ at' = [at EXCEPT ![l] = IF pending THEN "pending" ELSE "none"]
           /\ mem' = [mem EXCEPT ![l] = IF pending THEN left
                                                   ELSE ReqReleased(left)]
           /\ completed' = [completed EXCEPT ![l] = done]
    /\ starting' = [starting EXCEPT ![l] = FALSE]
    /\ ret' = [ret EXCEPT ![l] = IF ok THEN "0" ELSE "-1"]
    /\ stack' = Tail(stack)
    /\ UNCHANGED <<kind, data, calls, client>>

(***************************************************************************)
(* rn_resolve_srv_handler and rn_resolve_addr_handler                      *)
(***************************************************************************)

\* nginx has the answer of a pending lookup, or its resolver timeout expired.
Answered(l) ==
    /\ stack = <<>> /\ client # "destroying"
    /\ at[l] = "pending" /\ "rctx" \in mem[l]
    /\ at' = [at EXCEPT ![l] = "handler"]
    /\ stack' = <<l>>
    /\ UNCHANGED <<kind, mem, data, starting, completed, id, calls, ret, client>>

\* The handler detaches the request, then calls back with the records or an
\* error.  The client forgets the identifier with the callback.
CallBack(l) ==
    /\ Top(l) /\ at[l] = "handler"
    /\ data[l]
    /\ data' = [data EXCEPT ![l] = FALSE]
    /\ completed' = [completed EXCEPT ![l] = TRUE]
    /\ calls' = [calls EXCEPT ![l] = @ + 1]
    /\ id' = [id EXCEPT ![l] = FALSE]
    /\ at' = [at EXCEPT ![l] = "callback"]
    /\ UNCHANGED <<kind, mem, starting, ret, stack, client>>

\* ngx_resolve_name_done, and the request unless its start is still running.
HandlerReturns(l) ==
    /\ Top(l) /\ at[l] = "callback"
    /\ mem' = [mem EXCEPT ![l] = IF starting[l] THEN @ \ {"rctx"}
                                 ELSE ReqReleased(@ \ {"rctx"})]
    /\ at' = [at EXCEPT ![l] = IF starting[l] THEN "handled" ELSE "none"]
    /\ stack' = IF starting[l] THEN stack ELSE Tail(stack)
    /\ UNCHANGED <<kind, data, starting, completed, id, calls, ret, client>>

(***************************************************************************)
(* rn_resolve_cancel                                                       *)
(***************************************************************************)

\* Fault: the client is not told.
CancelSilently(l) ==
    /\ ClientRuns /\ Len(stack) < MaxDepth
    /\ id[l] /\ data[l]
    /\ data' = [data EXCEPT ![l] = FALSE]
    /\ completed' = [completed EXCEPT ![l] = TRUE]
    /\ mem' = [mem EXCEPT ![l] = ReqReleased(@ \ {"rctx"})]
    /\ at' = [at EXCEPT ![l] = "none"]
    /\ id' = [id EXCEPT ![l] = FALSE]
    /\ UNCHANGED <<kind, starting, calls, ret, stack, client>>

\* Everything is released before the client is told.
Cancel(l) ==
    /\ ClientRuns /\ Len(stack) < MaxDepth
    /\ id[l] /\ data[l]
    /\ data' = [data EXCEPT ![l] = FALSE]
    /\ completed' = [completed EXCEPT ![l] = TRUE]
    /\ mem' = [mem EXCEPT ![l] = ReqReleased(@ \ {"rctx"})]
    /\ at' = [at EXCEPT ![l] = "cancel_callback"]
    /\ calls' = [calls EXCEPT ![l] = @ + 1]
    /\ id' = [id EXCEPT ![l] = FALSE]
    /\ stack' = <<l>> \o stack
    /\ UNCHANGED <<kind, starting, ret, client>>

CancelReturns(l) ==
    /\ Top(l) /\ at[l] = "cancel_callback"
    /\ at' = [at EXCEPT ![l] = "none"]
    /\ stack' = Tail(stack)
    /\ UNCHANGED <<kind, mem, data, starting, completed, id, calls, ret, client>>

(***************************************************************************)
(* The process exits                                                       *)
(***************************************************************************)

\* External: rn_worker_cleanup calls r_client_destroy, which cancels the
\* lookups it knows, one after the other, and starts none.
Destroy ==
    /\ client = "live" /\ stack = <<>>
    /\ client' = "destroying"
    /\ UNCHANGED <<kind, at, mem, data, starting, completed, id, calls, ret, stack>>

\* It has called rn_resolve_cancel for every identifier; without a request in
\* the resolver context that would have done nothing.
Destroyed ==
    /\ client = "destroying" /\ stack = <<>>
    /\ \A l \in Lookups : id[l] => ~data[l]
    /\ client' = "gone"
    /\ UNCHANGED <<kind, at, mem, data, starting, completed, id, calls, ret, stack>>

\* Another worker process starts from nothing.
Respawn ==
    /\ client = "gone" /\ stack = <<>>
    /\ client' = "live"
    /\ at' = [l \in Lookups |-> "none"]
    /\ mem' = [l \in Lookups |-> {}]
    /\ data' = [l \in Lookups |-> FALSE]
    /\ id' = [l \in Lookups |-> FALSE]
    /\ UNCHANGED <<kind, starting, completed, calls, ret, stack>>

Next ==
    \/ Destroy \/ Destroyed \/ Respawn
    \/ \E l \in Lookups :
        \/ \E k \in {"srv", "plain", "addr"} : Begin(l, k)
        \/ BeginFails(l)
        \/ Allocate(l) \/ AllocateFails(l)
        \/ ResolveSynchronously(l)
        \/ \E ok \in BOOLEAN : StartReturns(l, ok)
        \/ Answered(l) \/ CallBack(l) \/ HandlerReturns(l)
        \/ Cancel(l) \/ CancelReturns(l)

\* The resolver answers every query or times it out, what is on the C stack
\* runs, and a client that is being destroyed cancels its lookups.
Fairness ==
    \A l \in Lookups :
        /\ SF_vars(Answered(l))
        /\ WF_vars(client = "destroying" /\ Cancel(l))
        /\ WF_vars(Allocate(l) \/ AllocateFails(l) \/ StartReturns(l, TRUE)
                     \/ CallBack(l) \/ HandlerReturns(l) \/ CancelReturns(l))

Spec == Init /\ [][Next]_vars

FairSpec == Spec /\ Fairness

(***************************************************************************)
(* Properties                                                              *)
(***************************************************************************)

Places == {"none", "req", "name", "service", "domain", "resolve", "handler",
           "callback", "handled", "pending", "cancel_callback"}

\* Every variable keeps its type; only a split SRV name has a service buffer.
TypeOK ==
    /\ kind \in [Lookups -> {"srv", "plain", "addr"}]
    /\ at \in [Lookups -> Places]
    /\ mem \in [Lookups -> SUBSET {"rctx", "req", "name", "service"}]
    /\ data \in [Lookups -> BOOLEAN]
    /\ starting \in [Lookups -> BOOLEAN]
    /\ completed \in [Lookups -> BOOLEAN]
    /\ id \in [Lookups -> BOOLEAN]
    /\ calls \in [Lookups -> Nat]
    /\ ret \in [Lookups -> {"none", "running", "0", "-1"}]
    /\ stack \in Seq(Lookups)
    /\ client \in {"live", "destroying", "gone"}
    /\ \A l \in Lookups : "service" \in mem[l] => kind[l] = "srv"

\* An identifier the client holds names a lookup whose resolver
\* context is alive and still carries the request: rn_resolve_cancel never
\* dereferences a freed context, also after a synchronous answer.
IdentifierIsLive ==
    \A l \in Lookups : id[l] => /\ at[l] \in {"pending", "handler"}
                                /\ {"rctx", "req"} \subseteq mem[l]
                                /\ data[l]

\* A start that returned 0 is answered by exactly one callback, synchronous,
\* later or on cancellation; a start that returned -1 by none; never two.
OneCallback ==
    \A l \in Lookups :
        /\ calls[l] <= 1
        /\ at[l] = "none" /\ ret[l] = "0" => calls[l] = 1
        /\ ret[l] = "-1" => calls[l] = 0

\* When the adapter is done with a lookup, on any path, every block is freed,
\* and until then the blocks its code still uses exist.
FreedOnceAndInTime ==
    \A l \in Lookups :
        /\ at[l] = "none" => mem[l] = {}
        /\ at[l] \in {"resolve", "handler", "callback", "pending"}
              => {"rctx", "req", "name"} \subseteq mem[l]
        /\ at[l] = "handled" => {"req", "name"} \subseteq mem[l]

\* When the client is destroyed, no lookup is left that could call it back, and
\* nothing of one: every lookup that outlives its start is known to the client
\* by an identifier, and its cancellation leaves nothing behind.
NothingOutlivesClient ==
    client = "gone" =>
        \A l \in Lookups : at[l] = "none" /\ mem[l] = {} /\ ~id[l]

\* Every lookup that was started comes to an end.
LookupEnds == \A l \in Lookups : at[l] = "pending" ~> at[l] # "pending"
=============================================================================
