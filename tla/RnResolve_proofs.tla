-------------------------- MODULE RnResolve_proofs --------------------------
(***************************************************************************)
(* Machine-checked proofs about RnResolve, for any number of lookups and   *)
(* any depth of nested callbacks.                                          *)
(***************************************************************************)
EXTENDS RnResolve, SequenceTheorems, TLAPS

(***************************************************************************)
(* The inductive invariant                                                 *)
(***************************************************************************)

\* What rn_resolve_srv and rn_resolve_addrs have before ngx_resolve_name.
Starts(l) ==
    /\ ~id[l] /\ ~starting[l] /\ calls[l] = 0 /\ ret[l] = "running"
    /\ at[l] = "req" => mem[l] = {"rctx"}
    /\ at[l] = "name" => mem[l] = {"rctx", "req"}
    /\ at[l] = "service" => mem[l] = {"rctx", "req", "name"} /\ kind[l] = "srv"
    /\ at[l] = "domain" => {"rctx", "req", "name"} \subseteq mem[l]
                           /\ kind[l] = "srv"
    /\ at[l] = "resolve" => {"rctx", "req", "name"} \subseteq mem[l] /\ data[l]

\* The handler has not called back yet: either ngx_resolve_name is still
\* running and no identifier is out, or the client holds one.
Unanswered(l) ==
    /\ {"rctx", "req", "name"} \subseteq mem[l] /\ data[l] /\ calls[l] = 0
    /\ IF starting[l] THEN ret[l] = "running" /\ ~id[l] /\ at[l] = "handler"
                      ELSE ret[l] = "0" /\ id[l]

\* The handler is in the callback, or has returned to ngx_resolve_name.
InCallback(l) ==
    /\ {"req", "name"} \subseteq mem[l] /\ ~id[l]
    /\ calls[l] = 1 /\ completed[l]
    /\ ret[l] = IF starting[l] THEN "running" ELSE "0"
    /\ at[l] = "callback" => "rctx" \in mem[l]
    /\ at[l] = "handled" => "rctx" \notin mem[l] /\ starting[l]

\* A lookup that is over, or whose cancellation is telling the client so.
Over(l) ==
    /\ mem[l] = {} /\ ~id[l] /\ ~starting[l]
    /\ ret[l] = "0" => calls[l] = 1
    /\ ret[l] = "-1" => calls[l] = 0
    /\ calls[l] <= 1
    /\ at[l] = "cancel_callback" => ret[l] = "0"

\* The place of a lookup determines what exists of it.
LookupHolds(l) ==
    /\ at[l] \in {"req", "name", "service", "domain", "resolve"} => Starts(l)
    /\ at[l] \in {"handler", "pending"} => Unanswered(l)
    /\ at[l] \in {"callback", "handled"} => InCallback(l)
    /\ at[l] \in {"none", "cancel_callback"} => Over(l)

OnStack(l) == \E i \in 1..Len(stack) : stack[i] = l

\* Adapter code that has not returned is on the C stack.
StackHolds ==
    \A l \in Lookups : at[l] \notin {"none", "pending"} => OnStack(l)

Inv ==
    /\ TypeOK
    /\ \A l \in Lookups : LookupHolds(l)
    /\ StackHolds
    /\ client = "gone" => stack = <<>> /\ \A l \in Lookups : at[l] = "none"

(***************************************************************************)
(* The stack                                                               *)
(***************************************************************************)

\* A call puts its lookup on the stack and leaves the others there.
LEMMA Pushed ==
    ASSUME NEW l \in Lookups, stack \in Seq(Lookups), stack' = <<l>> \o stack
    PROVE  /\ stack' \in Seq(Lookups)
           /\ OnStack(l)'
           /\ \A m \in Lookups : OnStack(m) => OnStack(m)'
<1>1. /\ stack' \in Seq(Lookups) /\ Len(stack') = 1 + Len(stack)
      /\ Len(stack) \in Nat
      /\ \A i \in 1..1 + Len(stack) :
            stack'[i] = IF i <= 1 THEN l ELSE stack[i - 1]
  <2>1. <<l>> \in Seq(Lookups) /\ Len(<<l>>) = 1 /\ <<l>>[1] = l
    OBVIOUS
  <2>2. QED
    BY <2>1, ConcatProperties, LenProperties
<1>2. stack'[1] = l /\ 1 \in 1..Len(stack')
  BY <1>1
<1>3. ASSUME NEW m \in Lookups, NEW i \in 1..Len(stack), stack[i] = m
      PROVE  stack'[i + 1] = m /\ i + 1 \in 1..Len(stack')
  BY <1>1, <1>3
<1>4. QED
  BY <1>1, <1>2, <1>3 DEF OnStack

\* A return takes the innermost lookup off the stack and no other.
LEMMA Popped ==
    ASSUME NEW l \in Lookups, stack \in Seq(Lookups), Top(l),
           stack' = Tail(stack)
    PROVE  /\ stack' \in Seq(Lookups)
           /\ \A m \in Lookups \ {l} : OnStack(m) => OnStack(m)'
<1>1. /\ stack' \in Seq(Lookups) /\ Len(stack') = Len(stack) - 1
      /\ Len(stack) \in Nat
      /\ \A i \in 1..Len(stack') : stack'[i] = stack[i + 1]
      /\ stack[1] = l
  BY HeadTailProperties, LenProperties DEF Top
<1>2. ASSUME NEW m \in Lookups \ {l}, NEW i \in 1..Len(stack), stack[i] = m
      PROVE  i - 1 \in 1..Len(stack') /\ stack'[i - 1] = m
  BY <1>1, <1>2
<1>3. QED
  BY <1>1, <1>2 DEF OnStack

\* Every action keeps the types.
LEMMA TypeStep ==
    ASSUME Inv, [Next]_vars
    PROVE  TypeOK'
<1> USE DEF Inv, TypeOK, Places, Top, vars
<1>1. ASSUME NEW l \in Lookups, NEW k \in {"srv", "plain", "addr"}, Begin(l, k)
      PROVE  TypeOK'
  <2>1. stack' \in Seq(Lookups)
    BY <1>1, Pushed DEF Begin
  <2>2. QED
    BY <1>1, <2>1 DEF Begin
<1>2. ASSUME NEW l \in Lookups, BeginFails(l)
      PROVE  TypeOK'
  BY <1>2 DEF BeginFails
<1>3. ASSUME NEW l \in Lookups, Allocate(l)
      PROVE  TypeOK'
  <2>1. Following(l) \in {"name", "service", "domain", "resolve"}
    BY <1>3 DEF Allocate, Allocation, Following
  <2>2. at[l] = "service" => kind[l] = "srv"
    BY DEF LookupHolds, Starts
  <2>3. /\ at' = [at EXCEPT ![l] = Following(l)]
        /\ data' = [data EXCEPT ![l] = Following(l) = "resolve"]
        /\ UNCHANGED <<kind, starting, completed, id, calls, ret, stack, client>>
    BY <1>3 DEF Allocate
  <2>4. at' \in [Lookups -> Places] /\ data' \in [Lookups -> BOOLEAN]
    BY <2>1, <2>3
  <2>5. /\ mem' \in [Lookups -> SUBSET {"rctx", "req", "name", "service"}]
        /\ \A m \in Lookups : "service" \in mem'[m] => kind'[m] = "srv"
    BY <1>3, <2>2, <2>3 DEF Allocate, Allocation
  <2>6. QED
    BY <2>3, <2>4, <2>5
<1>4. ASSUME NEW l \in Lookups, AllocateFails(l)
      PROVE  TypeOK'
  <2>1. stack' \in Seq(Lookups)
    BY <1>4, Popped DEF AllocateFails
  <2>2. QED
    BY <1>4, <2>1 DEF AllocateFails, Allocation, ReqReleased
<1>5. ASSUME NEW l \in Lookups, ResolveSynchronously(l)
      PROVE  TypeOK'
  BY <1>5 DEF ResolveSynchronously
<1>6. ASSUME NEW l \in Lookups, Answered(l)
      PROVE  TypeOK'
  BY <1>6 DEF Answered
<1>7. ASSUME NEW l \in Lookups, CallBack(l)
      PROVE  TypeOK'
  BY <1>7 DEF CallBack
<1>8. ASSUME NEW l \in Lookups, HandlerReturns(l)
      PROVE  TypeOK'
  <2>1. stack' \in Seq(Lookups)
    BY <1>8, Popped DEF HandlerReturns
  <2>2. QED
    BY <1>8, <2>1 DEF HandlerReturns, ReqReleased
<1>9. ASSUME NEW l \in Lookups, Cancel(l)
      PROVE  TypeOK'
  <2>1. stack' \in Seq(Lookups)
    BY <1>9, Pushed DEF Cancel
  <2>2. QED
    BY <1>9, <2>1 DEF Cancel, ReqReleased
<1>10. ASSUME NEW l \in Lookups, CancelReturns(l)
      PROVE  TypeOK'
  <2>1. stack' \in Seq(Lookups)
    BY <1>10, Popped DEF CancelReturns
  <2>2. QED
    BY <1>10, <2>1 DEF CancelReturns
<1>11. ASSUME NEW l \in Lookups, NEW ok \in BOOLEAN, StartReturns(l, ok)
      PROVE  TypeOK'
  <2>1. stack' \in Seq(Lookups)
    BY <1>11, Popped DEF StartReturns
  <2>2. QED
    BY <1>11, <2>1 DEF StartReturns, ReqReleased, StillPending, Published
<1>12. CASE Destroy
  BY <1>12 DEF Destroy
<1>13. CASE Destroyed
  BY <1>13 DEF Destroyed
<1>14. CASE Respawn
  BY <1>14 DEF Respawn
<1>15. CASE UNCHANGED vars
  BY <1>15
<1>16. QED
  BY <1>1, <1>2, <1>3, <1>4, <1>5, <1>6, <1>7, <1>8, <1>9, <1>10, <1>11,
     <1>12, <1>13, <1>14, <1>15 DEF Next

\* Every action leaves each lookup with what its place calls for.
LEMMA LookupStep ==
    ASSUME Inv, [Next]_vars
    PROVE  \A m \in Lookups : LookupHolds(m)'
<1> USE DEF Inv, TypeOK, LookupHolds, Starts, Unanswered, InCallback, Over, Top, vars
<1>1. ASSUME NEW l \in Lookups, NEW k \in {"srv", "plain", "addr"}, Begin(l, k)
      PROVE  \A m \in Lookups : LookupHolds(m)'
  <2>1. LookupHolds(l)'
    BY <1>1 DEF Begin
  <2>2. ASSUME NEW m \in Lookups \ {l}
        PROVE  LookupHolds(m)'
    BY <1>1 DEF Begin
  <2>3. QED
    BY <2>1, <2>2
<1>2. ASSUME NEW l \in Lookups, BeginFails(l)
      PROVE  \A m \in Lookups : LookupHolds(m)'
  <2>1. LookupHolds(l)'
    BY <1>2 DEF BeginFails
  <2>2. ASSUME NEW m \in Lookups \ {l}
        PROVE  LookupHolds(m)'
    BY <1>2 DEF BeginFails
  <2>3. QED
    BY <2>1, <2>2
<1>3. ASSUME NEW l \in Lookups, Allocate(l)
      PROVE  \A m \in Lookups : LookupHolds(m)'
  <2>1. LookupHolds(l)'
    <3>1. Starts(l) /\ at'[l] = Following(l)
      BY <1>3 DEF Allocate, Allocation
    <3>2. CASE at[l] = "req"
      BY <1>3, <3>1, <3>2 DEF Allocate, Following
    <3>3. CASE at[l] = "name"
      <4>1. at'[l] = IF kind[l] = "srv" THEN "service" ELSE "resolve"
        BY <3>1, <3>3 DEF Following
      <4>2. data'[l] = (at'[l] = "resolve")
        BY <1>3, <3>1 DEF Allocate
      <4>3. mem'[l] = {"rctx", "req", "name"}
        BY <1>3, <3>1, <3>3 DEF Allocate
      <4>4. QED
        BY <1>3, <3>1, <4>1, <4>2, <4>3 DEF Allocate
    <3>4. CASE at[l] = "service"
      BY <1>3, <3>1, <3>4 DEF Allocate, Following
    <3>5. CASE at[l] = "domain"
      BY <1>3, <3>1, <3>5 DEF Allocate, Following
    <3>6. QED
      BY <1>3, <3>2, <3>3, <3>4, <3>5 DEF Allocate, Allocation
  <2>2. ASSUME NEW m \in Lookups \ {l}
        PROVE  LookupHolds(m)'
    BY <1>3 DEF Allocate
  <2>3. QED
    BY <2>1, <2>2
<1>4. ASSUME NEW l \in Lookups, AllocateFails(l)
      PROVE  \A m \in Lookups : LookupHolds(m)'
  <2>1. LookupHolds(l)'
    BY <1>4 DEF AllocateFails, Allocation, ReqReleased
  <2>2. ASSUME NEW m \in Lookups \ {l}
        PROVE  LookupHolds(m)'
    BY <1>4 DEF AllocateFails
  <2>3. QED
    BY <2>1, <2>2
<1>5. ASSUME NEW l \in Lookups, ResolveSynchronously(l)
      PROVE  \A m \in Lookups : LookupHolds(m)'
  <2>1. LookupHolds(l)'
    BY <1>5 DEF ResolveSynchronously
  <2>2. ASSUME NEW m \in Lookups \ {l}
        PROVE  LookupHolds(m)'
    BY <1>5 DEF ResolveSynchronously
  <2>3. QED
    BY <2>1, <2>2
<1>6. ASSUME NEW l \in Lookups, Answered(l)
      PROVE  \A m \in Lookups : LookupHolds(m)'
  <2>1. LookupHolds(l)'
    BY <1>6 DEF Answered
  <2>2. ASSUME NEW m \in Lookups \ {l}
        PROVE  LookupHolds(m)'
    BY <1>6 DEF Answered
  <2>3. QED
    BY <2>1, <2>2
<1>7. ASSUME NEW l \in Lookups, CallBack(l)
      PROVE  \A m \in Lookups : LookupHolds(m)'
  <2>1. LookupHolds(l)'
    BY <1>7 DEF CallBack
  <2>2. ASSUME NEW m \in Lookups \ {l}
        PROVE  LookupHolds(m)'
    BY <1>7 DEF CallBack
  <2>3. QED
    BY <2>1, <2>2
<1>8. ASSUME NEW l \in Lookups, HandlerReturns(l)
      PROVE  \A m \in Lookups : LookupHolds(m)'
  <2>1. LookupHolds(l)'
    BY <1>8 DEF HandlerReturns, ReqReleased
  <2>2. ASSUME NEW m \in Lookups \ {l}
        PROVE  LookupHolds(m)'
    BY <1>8 DEF HandlerReturns
  <2>3. QED
    BY <2>1, <2>2
<1>9. ASSUME NEW l \in Lookups, Cancel(l)
      PROVE  \A m \in Lookups : LookupHolds(m)'
  <2>1. LookupHolds(l)'
    <3>1. Unanswered(l) /\ ~starting[l]
      BY <1>9 DEF Cancel, Places
    <3>2. mem'[l] = {}
      BY <1>9 DEF Cancel, ReqReleased
    <3>3. /\ at'[l] = "cancel_callback" /\ ~id'[l] /\ calls'[l] = 1
          /\ ret'[l] = "0" /\ ~starting'[l]
      BY <1>9, <3>1 DEF Cancel
    <3>4. QED
      BY <3>2, <3>3
  <2>2. ASSUME NEW m \in Lookups \ {l}
        PROVE  LookupHolds(m)'
    BY <1>9 DEF Cancel
  <2>3. QED
    BY <2>1, <2>2
<1>10. ASSUME NEW l \in Lookups, CancelReturns(l)
      PROVE  \A m \in Lookups : LookupHolds(m)'
  <2>1. LookupHolds(l)'
    BY <1>10 DEF CancelReturns
  <2>2. ASSUME NEW m \in Lookups \ {l}
        PROVE  LookupHolds(m)'
    BY <1>10 DEF CancelReturns
  <2>3. QED
    BY <2>1, <2>2
<1>11. ASSUME NEW l \in Lookups, NEW ok \in BOOLEAN, StartReturns(l, ok)
      PROVE  \A m \in Lookups : LookupHolds(m)'
  <2>1. LookupHolds(l)'
    BY <1>11 DEF StartReturns, ReqReleased, StillPending, Published
  <2>2. ASSUME NEW m \in Lookups \ {l}
        PROVE  LookupHolds(m)'
    BY <1>11 DEF StartReturns
  <2>3. QED
    BY <2>1, <2>2
<1>12. CASE Destroy
  BY <1>12 DEF Destroy
<1>13. CASE Destroyed
  BY <1>13 DEF Destroyed
<1>14. CASE Respawn
  BY <1>14 DEF Respawn
<1>15. CASE UNCHANGED vars
  BY <1>15
<1>16. QED
  BY <1>1, <1>2, <1>3, <1>4, <1>5, <1>6, <1>7, <1>8, <1>9, <1>10, <1>11,
     <1>12, <1>13, <1>14, <1>15 DEF Next

\* Every action keeps unfinished adapter code on the stack.
LEMMA StackStep ==
    ASSUME Inv, [Next]_vars
    PROVE  StackHolds'
<1> USE DEF Inv, TypeOK, StackHolds, Top, vars
<1>1. ASSUME NEW l \in Lookups, NEW k \in {"srv", "plain", "addr"}, Begin(l, k)
      PROVE  StackHolds'
  BY <1>1, Pushed DEF Begin
<1>2. ASSUME NEW l \in Lookups, BeginFails(l)
      PROVE  StackHolds'
  BY <1>2 DEF BeginFails, OnStack
<1>3. ASSUME NEW l \in Lookups, Allocate(l)
      PROVE  StackHolds'
  BY <1>3 DEF Allocate, Allocation, Following, OnStack
<1>4. ASSUME NEW l \in Lookups, AllocateFails(l)
      PROVE  StackHolds'
  BY <1>4, Popped DEF AllocateFails
<1>5. ASSUME NEW l \in Lookups, ResolveSynchronously(l)
      PROVE  StackHolds'
  BY <1>5 DEF ResolveSynchronously, OnStack
<1>6. ASSUME NEW l \in Lookups, Answered(l)
      PROVE  StackHolds'
  BY <1>6 DEF Answered, OnStack
<1>7. ASSUME NEW l \in Lookups, CallBack(l)
      PROVE  StackHolds'
  BY <1>7 DEF CallBack, OnStack
<1>8. ASSUME NEW l \in Lookups, HandlerReturns(l)
      PROVE  StackHolds'
  <2>1. CASE starting[l]
    BY <1>8, <2>1 DEF HandlerReturns, OnStack
  <2>2. CASE ~starting[l]
    BY <1>8, <2>2, Popped DEF HandlerReturns
  <2>3. QED
    BY <2>1, <2>2
<1>9. ASSUME NEW l \in Lookups, Cancel(l)
      PROVE  StackHolds'
  BY <1>9, Pushed DEF Cancel
<1>10. ASSUME NEW l \in Lookups, CancelReturns(l)
      PROVE  StackHolds'
  BY <1>10, Popped DEF CancelReturns
<1>11. ASSUME NEW l \in Lookups, NEW ok \in BOOLEAN, StartReturns(l, ok)
      PROVE  StackHolds'
  BY <1>11, Popped DEF StartReturns
<1>12. CASE Destroy
  BY <1>12 DEF Destroy, OnStack
<1>13. CASE Destroyed
  BY <1>13 DEF Destroyed, OnStack
<1>14. CASE Respawn
  BY <1>14 DEF Respawn, OnStack
<1>15. CASE UNCHANGED vars
  BY <1>15 DEF OnStack
<1>16. QED
  BY <1>1, <1>2, <1>3, <1>4, <1>5, <1>6, <1>7, <1>8, <1>9, <1>10, <1>11,
     <1>12, <1>13, <1>14, <1>15 DEF Next

\* What rn_worker_cleanup relies on once the client is destroyed: no lookup is
\* left, so that nothing of the adapter can run.
LEMMA GoneStep ==
    ASSUME Inv, [Next]_vars, client' = "gone"
    PROVE  stack' = <<>> /\ \A m \in Lookups : at'[m] = "none"
<1>1. CASE Destroyed
  <2>1. stack' = <<>> /\ at' = at /\ \A l \in Lookups : id[l] => ~data[l]
    BY <1>1 DEF Destroyed
  <2>2. ASSUME NEW m \in Lookups PROVE at[m] = "none"
    <3>1. ~OnStack(m)
      BY <1>1 DEF Destroyed, OnStack
    <3>2. at[m] # "pending"
      BY <2>1 DEF Inv, TypeOK, LookupHolds, Unanswered
    <3>3. QED
      BY <3>1, <3>2 DEF Inv, StackHolds
  <2>3. QED
    BY <2>1, <2>2
<1>2. CASE ~Destroyed
  <2>1. client = "gone"
    BY <1>2 DEF Next, vars, Destroy, Respawn, Begin, BeginFails, Allocate,
       AllocateFails, ResolveSynchronously, StartReturns, Answered, CallBack,
       HandlerReturns, Cancel, CancelReturns
  <2>2. /\ stack = <<>> /\ \A m \in Lookups : at[m] = "none" /\ ~id[m]
    BY <2>1 DEF Inv, LookupHolds, Over
  <2>3. \A m \in Lookups : ~Top(m)
    BY <2>2 DEF Top
  <2>4. UNCHANGED vars
    BY <1>2, <2>1, <2>2, <2>3 DEF Next, Destroy, Respawn, Begin, BeginFails,
       Allocate, AllocateFails, ResolveSynchronously, StartReturns, Answered,
       CallBack, HandlerReturns, Cancel, CancelReturns
  <2>5. QED
    BY <2>2, <2>4 DEF vars
<1>3. QED
  BY <1>1, <1>2

\* The initial state satisfies the invariant.
LEMMA InvInit == Init => Inv
BY DEF Init, Inv, TypeOK, Places, LookupHolds, Starts, Unanswered, InCallback,
       Over, StackHolds

\* The invariant holds throughout.
LEMMA Invariant == Spec => []Inv
<1>1. Inv /\ [Next]_vars => Inv'
  BY TypeStep, LookupStep, StackStep, GoneStep DEF Inv
<1>2. QED
  BY <1>1, InvInit, PTL DEF Spec

(***************************************************************************)
(* What the adapter promises                                               *)
(***************************************************************************)

\* rn_resolve_srv, rn_resolve_addrs, their handlers and rn_resolve_cancel keep
\* every variable's type; only a split SRV name ever has a service buffer.
THEOREM TypeCorrect == Spec => []TypeOK
BY Invariant, PTL DEF Inv

\* An identifier that rn_resolve_cancel may be called with names a lookup whose
\* resolver context exists and still carries the request.
THEOREM ResolveIdentifierIsLive == Spec => []IdentifierIsLive
<1>1. Inv => IdentifierIsLive
  <2>1. SUFFICES ASSUME Inv, NEW l \in Lookups, id[l]
                 PROVE  /\ at[l] \in {"pending", "handler"}
                        /\ {"rctx", "req"} \subseteq mem[l] /\ data[l]
    BY DEF IdentifierIsLive
  <2>2. at[l] \in {"pending", "handler"}
    BY <2>1 DEF Inv, TypeOK, Places, LookupHolds, Starts, InCallback, Over
  <2>3. QED
    BY <2>1, <2>2 DEF Inv, LookupHolds, Unanswered
<1>2. QED
  BY <1>1, Invariant, PTL

\* A start that returned 0 gets exactly one callback, synchronous, later or on
\* cancellation; one that returned -1 gets none.
THEOREM ResolveOneCallback == Spec => []OneCallback
<1>1. Inv => OneCallback
  <2>1. SUFFICES ASSUME Inv, NEW l \in Lookups
                 PROVE  /\ calls[l] <= 1
                        /\ at[l] = "none" /\ ret[l] = "0" => calls[l] = 1
                        /\ ret[l] = "-1" => calls[l] = 0
    BY DEF OneCallback
  <2>2. at[l] \in Places /\ LookupHolds(l)
    BY <2>1 DEF Inv, TypeOK
  <2>3. CASE Starts(l) \/ Unanswered(l)
    BY <2>2, <2>3 DEF Places, LookupHolds, Starts, Unanswered, InCallback, Over
  <2>4. CASE InCallback(l) \/ Over(l)
    BY <2>2, <2>4 DEF Places, LookupHolds, Starts, Unanswered, InCallback, Over
  <2>5. QED
    BY <2>2, <2>3, <2>4 DEF Places, LookupHolds
<1>2. QED
  BY <1>1, Invariant, PTL

\* rn_dns_req_release and ngx_resolve_name_done free every block of a lookup
\* that is over, on any path, and none that its code still uses.
THEOREM ResolveFreedOnceAndInTime == Spec => []FreedOnceAndInTime
<1>1. Inv => FreedOnceAndInTime
  BY DEF Inv, FreedOnceAndInTime, LookupHolds, Starts, Unanswered, InCallback,
         Over
<1>2. QED
  BY <1>1, Invariant, PTL

\* When r_client_destroy has cancelled the lookups it knows, none is left that
\* could call the freed client back, and nothing of one.
THEOREM ResolveNothingOutlivesClient == Spec => []NothingOutlivesClient
<1>1. Inv => NothingOutlivesClient
  BY DEF Inv, NothingOutlivesClient, LookupHolds, Over
<1>2. QED
  BY <1>1, Invariant, PTL
=============================================================================
