----------------------------- MODULE RnRecords -----------------------------
(***************************************************************************)
(* What the handlers of the DNS adapter make of an answer of nginx's       *)
(* resolver: rn_resolve_srv_handler with src/rn_srv_records.c, and         *)
(* rn_resolve_addr_handler with src/rn_addr_records.c.  An answer is       *)
(* copied into arrays the client may read during its callback, and no      *)
(* longer.  Every allocation may fail.  RnResolve models when the handlers *)
(* run and what becomes of the lookup; here one answer follows another.    *)
(*                                                                         *)
(* A source is one element of the answer.  Proper sources are copied;      *)
(* Malformed ones have no target or an empty one (the DNS root), or an     *)
(* address that is absent, empty or longer than r_addr_t can hold.         *)
(*                                                                         *)
(* A definition marked "Fault" is not used: it is the definition after it  *)
(* with a plausible mistake, which one of the properties below rules out.  *)
(***************************************************************************)
EXTENDS RnNumeric, Sequences, FiniteSets

CONSTANTS
    Proper, Malformed,  \* sources
    MaxSources,         \* bound: sources in an answer
    MaxTime             \* bound: seconds

\* Proper values of the constants.
RecordsConstants ==
    /\ NumericConstants
    /\ MaxSources \in Nat \ {0} /\ MaxTime \in Nat /\ Proper \cap Malformed = {}

ASSUME RecordsAssumption == RecordsConstants

VARIABLES
    pc,         \* the next operation
    answer,     \* the sources of ctx, in order
    valid, now, \* when the answer expires, and the time, in seconds
    heap,       \* allocated blocks
    out,        \* rn_srv_records_t: its pointers, count and records
    arrays,     \* the handler's own pointers that are not NULL
    kept,       \* the addresses compacted so far
    i,          \* the loop index
    told,       \* history: the calls of the client's callback
    starved     \* history: an allocation failed

vars == <<pc, answer, valid, now, heap, out, arrays, kept, i, told, starved>>

\* Blocks are named by who points to them.
Array(name) == <<name, 0>>
Target(k) == <<"target", k>>

\* All zeroes, as ngx_memzero and memset leave it.
NoRecords == [records |-> FALSE, targets |-> FALSE, count |-> 0,
              target |-> {}, list |-> <<>>]

\* The blocks an rn_srv_records_t points to.
Held(o) ==
    (IF o.records THEN {Array("records")} ELSE {})
      \cup (IF o.targets THEN {Array("targets")} \cup {Target(k) : k \in o.target}
                         ELSE {})

Error == [rc |-> -1, list |-> <<>>]

\* As after an answer that failed.
Init ==
    /\ pc = "done" /\ answer = <<>> /\ valid = 0 /\ now = 0
    /\ heap = {} /\ out = NoRecords /\ arrays = {}
    /\ kept = <<>> /\ i = 0 /\ told = <<Error>> /\ starved = FALSE

Answers == UNION {[1..n -> Proper \cup Malformed] : n \in 0..MaxSources}

\* nginx calls a handler.  No answer is an error, whatever the reason.
Called(handler, a, v, t) ==
    /\ pc = "done"
    /\ answer' = a /\ valid' = v /\ now' = t
    /\ kept' = <<>> /\ i' = 1 /\ starved' = FALSE
    /\ told' = IF a = <<>> THEN <<Error>> ELSE <<>>
    /\ pc' = IF a = <<>> THEN "done" ELSE handler
    /\ UNCHANGED <<heap, out, arrays>>

(***************************************************************************)
(* rn_resolve_srv_handler                                                  *)
(***************************************************************************)

Sources(ok) ==
    /\ pc = "srv"
    /\ IF ok THEN /\ heap' = heap \cup {Array("sources")}
                  /\ arrays' = {Array("sources")}
                  /\ pc' = "records" /\ UNCHANGED told
             ELSE /\ told' = Append(told, Error) /\ pc' = "done"
                  /\ UNCHANGED <<heap, arrays>>
    /\ starved' = ~ok
    /\ UNCHANGED <<answer, valid, now, out, kept, i>>

\* Fault: the pointers are not cleared.
ClearedNot(o) == o

\* The memset that ends rn_srv_records_free: freeing again does nothing.
Cleared(o) == NoRecords

\* rn_srv_records_free: the targets below count, and the arrays.
Freed(o) ==
    Held(o) \ {Target(k) : k \in {j \in o.target : j > o.count}}

\* rn_srv_records_build fails: everything is given back.
BuildFails ==
    /\ heap' = heap \ Freed(out) /\ out' = Cleared(out)
    /\ pc' = "build_failed"
    /\ UNCHANGED <<answer, valid, now, arrays, kept, i, told>>

Records(ok) ==
    /\ pc = "records"
    /\ \/ /\ ok
          /\ heap' = heap \cup {Array("records")}
          /\ out' = [out EXCEPT !.records = TRUE]
          /\ pc' = "targets"
          /\ UNCHANGED <<answer, valid, now, arrays, kept, i, told>>
       \/ ~ok /\ BuildFails
    /\ starved' = ~ok

\* The count is set before the first target exists.
Count == Len(answer)

Targets(ok) ==
    /\ pc = "targets"
    /\ \/ /\ ok
          /\ heap' = heap \cup {Array("targets")}
          /\ out' = [out EXCEPT !.targets = TRUE, !.count = Count]
          /\ pc' = "copy"
          /\ UNCHANGED <<answer, valid, now, arrays, kept, i, told>>
       \/ ~ok /\ BuildFails
    /\ starved' = ~ok

\* The check at the head of the loop.
Copies(source) == source \in Proper

\* One record: its target is a copy of its own, its lifetime the answer's.
Copy(ok) ==
    /\ pc = "copy" /\ i <= Len(answer)
    /\ \/ /\ ok /\ Copies(answer[i])
          /\ heap' = heap \cup {Target(i)}
          /\ out' = [out EXCEPT !.target = @ \cup {i},
                                !.list = Append(@, [source |-> answer[i],
                                                    ttl |-> TtlMsUntil(valid, now)])]
          /\ i' = i + 1
          /\ UNCHANGED <<pc, answer, valid, now, arrays, kept, told>>
       \/ ~(ok /\ Copies(answer[i])) /\ BuildFails
    /\ starved' = (Copies(answer[i]) /\ ~ok)

\* The callback: the client reads the records, or learns of the failure.
SrvCallback ==
    /\ \/ /\ pc = "copy" /\ i > Len(answer)
          /\ told' = Append(told, [rc |-> 0, list |-> out.list])
       \/ /\ pc = "build_failed"
          /\ told' = Append(told, Error)
    /\ pc' = "srv_release"
    /\ UNCHANGED <<answer, valid, now, heap, out, arrays, kept, i, starved>>

\* rn_srv_records_free, for the second time when the build failed.
SrvRelease ==
    /\ pc = "srv_release"
    /\ heap' = heap \ (Freed(out) \cup arrays)
    /\ out' = Cleared(out) /\ arrays' = {}
    /\ pc' = "done"
    /\ UNCHANGED <<answer, valid, now, kept, i, told, starved>>

(***************************************************************************)
(* rn_resolve_addr_handler                                                 *)
(***************************************************************************)

\* Both arrays are asked for, whether or not the first was granted.
AddrArrays(granted) ==
    /\ pc = "addr"
    /\ heap' = heap \cup granted /\ arrays' = granted
    /\ \/ /\ granted = {Array("addrs"), Array("sources")}
          /\ pc' = "compact" /\ UNCHANGED <<told, starved>>
       \/ /\ granted # {Array("addrs"), Array("sources")}
          /\ pc' = "addr_release"
          /\ told' = Append(told, Error) /\ starved' = TRUE
    /\ UNCHANGED <<answer, valid, now, out, kept, i>>

\* rn_addr_records_compact: malformed addresses leave no gap.
Compact ==
    /\ pc = "compact" /\ i <= Len(answer)
    /\ kept' = IF Copies(answer[i]) THEN Append(kept, answer[i]) ELSE kept
    /\ i' = i + 1
    /\ UNCHANGED <<pc, answer, valid, now, heap, out, arrays, told, starved>>

\* No usable address is an error.
AddrResult(list) == IF list = <<>> THEN Error ELSE [rc |-> 0, list |-> list]

AddrCallback ==
    /\ pc = "compact" /\ i > Len(answer)
    /\ told' = Append(told, AddrResult(kept))
    /\ pc' = "addr_release"
    /\ UNCHANGED <<answer, valid, now, heap, out, arrays, kept, i, starved>>

AddrRelease ==
    /\ pc = "addr_release"
    /\ heap' = heap \ arrays /\ arrays' = {}
    /\ pc' = "done"
    /\ UNCHANGED <<answer, valid, now, out, kept, i, told, starved>>

Next ==
    \/ \E handler \in {"srv", "addr"}, a \in Answers, v, t \in 0..MaxTime :
          Called(handler, a, v, t)
    \/ \E ok \in BOOLEAN : Sources(ok) \/ Records(ok) \/ Targets(ok) \/ Copy(ok)
    \/ SrvCallback \/ SrvRelease
    \/ \E granted \in SUBSET {Array("addrs"), Array("sources")} : AddrArrays(granted)
    \/ Compact \/ AddrCallback \/ AddrRelease

Spec == Init /\ [][Next]_vars

(***************************************************************************)
(* Properties                                                              *)
(***************************************************************************)

Blocks == {Array(name) : name \in {"sources", "records", "targets", "addrs"}}
            \cup {Target(k) : k \in 1..MaxSources}

\* Every variable keeps its type; the count never exceeds the answer.
TypeOK ==
    /\ pc \in {"done", "srv", "records", "targets", "copy", "build_failed",
               "srv_release", "addr", "compact", "addr_release"}
    /\ valid \in 0..MaxTime /\ now \in 0..MaxTime
    /\ Len(answer) <= MaxSources
    /\ heap \subseteq Blocks /\ arrays \subseteq Blocks
    /\ out.records \in BOOLEAN /\ out.targets \in BOOLEAN
    /\ out.count \in 0..Len(answer)
    /\ out.target \subseteq 1..MaxSources
    /\ Len(kept) <= Len(answer)
    /\ i \in 0..MaxSources + 1
    /\ starved \in BOOLEAN

\* What a pointer points to is allocated, on every path through the failures:
\* nothing is freed twice, and the client reads live memory.
PointersAreLive == Held(out) \cup arrays \subseteq heap

\* When the handler returns, everything it allocated is freed, however far the
\* copying got, and no pointer is left.
NothingIsLeft == pc = "done" => heap = {} /\ out = NoRecords /\ arrays = {}

\* The elements among the first n of a that can be copied, in order.
CopyableOf(a, n) ==
    LET first[k \in 0..Len(a)] ==
            IF k = 0 THEN <<>>
            ELSE IF a[k] \in Proper THEN Append(first[k - 1], a[k])
                 ELSE first[k - 1]
    IN  first[n]

Copyable == CopyableOf(answer, Len(answer))

\* The client is called exactly once.  An SRV answer is delivered whole and in
\* order, or not at all; of an address answer, all that can be used is
\* delivered, in order.  Nothing but an allocation, a malformed SRV record or
\* the lack of any usable address makes an answer fail.
ToldOnceAndExactly ==
    /\ Len(told) <= 1
    /\ pc = "done" => Len(told) = 1
    /\ pc = "srv_release" =>
          IF told[1].rc = 0
          THEN [k \in DOMAIN told[1].list |-> told[1].list[k].source]
                 = answer /\ Copyable = answer
          ELSE starved \/ Copyable # answer
    /\ pc = "addr_release" =>
          IF told[1].rc = 0 THEN told[1].list = Copyable /\ Copyable # <<>>
                            ELSE starved \/ Copyable = <<>>

\* A record lives as long as the answer: never longer, and shorter only when
\* its remaining time does not fit 32 bits of milliseconds.
TtlExact ==
    pc = "srv_release" =>
        \A k \in DOMAIN told[1].list :
            LET left == IF valid > now THEN (valid - now) * SecondMs ELSE 0
            IN  told[1].list[k].ttl = IF left > U32Max THEN U32Max ELSE left

\* However far the copying of a DNS answer got, no pointer dangles and nothing
\* is freed twice, and in the end nothing is left.
RecordsOwned == PointersAreLive /\ NothingIsLeft

\* The client is told of a DNS answer once: of SRV records all or nothing, of
\* addresses the usable ones, in order, with lifetimes that saturate.
RecordsExact == ToldOnceAndExactly /\ TtlExact
=============================================================================
