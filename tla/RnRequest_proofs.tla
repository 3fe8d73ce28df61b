-------------------------- MODULE RnRequest_proofs --------------------------
(***************************************************************************)
(* Machine-checked proofs about RnRequest for any set of requests, any     *)
(* finite set of handles, any locations and any answers.                   *)
(***************************************************************************)
EXTENDS RnRequest, FiniteSetTheorems, SequenceTheorems, TLAPS

(***************************************************************************)
(* What the helper operators return.                                       *)
(***************************************************************************)

\* rn_schedule_rebind keeps the type of the worker and changes only the flag
\* of its timer.
LEMMA ScheduleRebindType ==
    ASSUME NEW w \in WorkerType
    PROVE  /\ ScheduleRebind(w) \in WorkerType
           /\ ScheduleRebind(w).inflight = w.inflight
           /\ ScheduleRebind(w).udp_fd = w.udp_fd
           /\ ScheduleRebind(w).rebind_pending = w.rebind_pending
           /\ w.rebind_pending /\ w.inflight = 0
                 => ScheduleRebind(w).rebind_scheduled
BY DEF ScheduleRebind, WorkerType

\* rn_request_teardown: the worker gives the request's share back once, and
\* looks at a pending rebind.
LEMMA TeardownWorkerType ==
    ASSUME NEW w \in WorkerType, NEW c \in CtxType
    PROVE  /\ TeardownWorker(w, c) \in WorkerType
           /\ TeardownWorker(w, c).inflight =
                 IF c.worker /\ c.inflight_counted /\ w.inflight > 0
                 THEN w.inflight - 1 ELSE w.inflight
           /\ TeardownWorker(w, c).udp_fd = w.udp_fd
           /\ TeardownWorker(w, c).rebind_pending = w.rebind_pending
           /\ c.worker /\ w.rebind_pending
                /\ TeardownWorker(w, c).inflight = 0
                 => TeardownWorker(w, c).rebind_scheduled
           /\ ~c.worker => TeardownWorker(w, c) = w
<1>1. CASE ~c.worker
  BY <1>1 DEF TeardownWorker, WorkerType
<1>2. CASE c.worker
  <2> DEFINE v == IF c.inflight_counted /\ w.inflight > 0
                  THEN [w EXCEPT !.inflight = @ - 1] ELSE w
  <2>1. /\ v \in WorkerType
        /\ v.inflight = IF c.inflight_counted /\ w.inflight > 0
                        THEN w.inflight - 1 ELSE w.inflight
        /\ v.udp_fd = w.udp_fd
        /\ v.rebind_pending = w.rebind_pending
    BY DEF WorkerType, CtxType
  <2>2. TeardownWorker(w, c) = ScheduleRebind(v)
    BY <1>2 DEF TeardownWorker
  <2> HIDE DEF v
  <2>3. QED
    BY <1>2, <2>1, <2>2, ScheduleRebindType
<1>3. QED
  BY <1>1, <1>2 DEF CtxType

\* rn_request_teardown never takes r->main->count below zero.
LEMMA TeardownCountType ==
    ASSUME NEW n \in Nat, NEW c \in CtxType
    PROVE  TeardownCount(n, c) \in Nat
BY DEF TeardownCount, CtxType

\* rn_request_teardown keeps the type of the context.
LEMMA TornDownType ==
    ASSUME NEW c \in CtxType
    PROVE  TornDown(c) \in CtxType
BY ConstantsAssumption DEF TornDown, CtxType

\* rn_request_cleanup keeps the type of the context.
LEMMA CleanedUpType ==
    ASSUME NEW c \in CtxType
    PROVE  CleanedUp(c) \in CtxType
<1> DEFINE t == TornDown(c)
<1>1. t \in CtxType
  BY TornDownType
<1>2. CleanedUp(c) = [t EXCEPT
                       !.outcome = IF c.outcome = "WAITING" THEN "ABORTED" ELSE @,
                       !.cause = IF c.outcome = "WAITING" THEN "CLIENT_ABORT"
                                                          ELSE @,
                       !.r = FALSE]
  BY DEF CleanedUp
<1> HIDE DEF t
<1>3. QED
  BY <1>1, <1>2 DEF CtxType, Outcomes, Causes

\* rn_rate_cb classifies every completion, whatever the client reports.
LEMMA RateDecisionType ==
    ASSUME NEW fail_open \in BOOLEAN, NEW guards, NEW resources,
           NEW status, NEW result
    PROVE  LET d == RateDecision(fail_open, guards, resources, status, result)
           IN  /\ d.code \in Codes
               /\ d.outcome \in Outcomes
               /\ d.cause \in Causes
BY DEF RateDecision, FailCode, FailOutcome, Codes, Outcomes, Causes

\* The contexts the handler builds are contexts.
LEMMA HandlerCtxType ==
    ASSUME TypeOK, NEW r \in Requests, NEW h \in Handles \cup {NoHandle},
           NEW reportBuilt \in BOOLEAN, NEW known \in BOOLEAN
    PROVE  /\ lcf(r).guards \in Nat /\ lcf(r).resources \in Nat
           /\ lcf(r).enabled \in BOOLEAN /\ lcf(r).report_enabled \in BOOLEAN
           /\ NewCtx(r) \in CtxType
           /\ WorkerCtx(r, reportBuilt) \in CtxType
           /\ StartedCtx(r, h, reportBuilt, known) \in CtxType
<1>1. /\ lcf(r).guards \in Nat /\ lcf(r).resources \in Nat
      /\ lcf(r).enabled \in BOOLEAN /\ lcf(r).report_enabled \in BOOLEAN
  BY ConstantsAssumption DEF TypeOK, HttpType, lcf
<1>2. NewCtx(r) \in CtxType
  BY DEF NewCtx, NullCtx, CtxType, Codes, Outcomes, Causes, FailOutcome
<1>3. WorkerCtx(r, reportBuilt) \in CtxType
  <2> DEFINE n == NewCtx(r)
  <2>1. WorkerCtx(r, reportBuilt) =
          [n EXCEPT !.worker = TRUE,
                    !.lat_report_enabled = lcf(r).report_enabled /\ reportBuilt]
    BY DEF WorkerCtx
  <2>2. n \in CtxType
    BY <1>2
  <2> HIDE DEF n
  <2>3. QED
    BY <1>1, <2>1, <2>2 DEF CtxType
<1>4. StartedCtx(r, h, reportBuilt, known) \in CtxType
  <2> DEFINE n == WorkerCtx(r, reportBuilt)
  <2>1. StartedCtx(r, h, reportBuilt, known) =
          [n EXCEPT !.guards = lcf(r).guards, !.resources = lcf(r).resources,
                    !.req = h, !.inflight_counted = TRUE, !.timer = known,
                    !.waiting = TRUE, !.outcome = "WAITING",
                    !.nginx_counted = TRUE]
    BY DEF StartedCtx
  <2>2. n \in CtxType
    BY <1>3
  <2> HIDE DEF n
  <2>3. QED
    BY <1>1, <2>1, <2>2 DEF CtxType, Outcomes
<1>5. QED
  BY <1>1, <1>2, <1>3, <1>4

\* What a handler return does to nginx's side of the request.
LEMMA ReturnType ==
    ASSUME TypeOK, NEW r \in Requests, NEW code, NEW slot \in BOOLEAN,
           NEW cln \in BOOLEAN, NEW count \in Nat,
           Return(r, code, slot, cln, count)
    PROVE  /\ http' \in [Requests -> HttpType]
           /\ fate' \in [Requests -> {"open", "refused", "lost"}]
<1>1. PhaseAfter(code) \in Phases
  BY DEF PhaseAfter, Phases
<1> DEFINE q == [http[r] EXCEPT !.phase = PhaseAfter(code), !.slot = slot,
                                !.cln = cln, !.count = count]
<1>2. http[r] \in HttpType
  BY DEF TypeOK
<1>3. q \in HttpType
  BY <1>1, <1>2 DEF HttpType
<1>4. http' = [http EXCEPT ![r] = q]
  BY DEF Return
<1> HIDE DEF q
<1>5. fate' \in [Requests -> {"open", "refused", "lost"}]
  BY DEF Return, TypeOK
<1>6. QED
  BY <1>3, <1>4, <1>5 DEF TypeOK

\* rn_rate_cb keeps the type of the context.
LEMMA DecidedType ==
    ASSUME NEW c \in CtxType, NEW fail_open \in BOOLEAN, NEW status, NEW result
    PROVE  Decided(c, RateDecision(fail_open, c.guards, c.resources, status,
                                   result)) \in CtxType
<1> DEFINE d == RateDecision(fail_open, c.guards, c.resources, status, result)
           t == TornDown(c)
<1>1. d.code \in Codes /\ d.outcome \in Outcomes /\ d.cause \in Causes
  BY RateDecisionType
<1>2. t \in CtxType
  BY TornDownType
<1>3. Decided(c, d) = [t EXCEPT !.outcome = d.outcome, !.cause = d.cause,
                                !.decision = d.code, !.done = TRUE]
  BY DEF Decided
<1> HIDE DEF d, t
<1>4. Decided(c, d) \in CtxType
  BY <1>1, <1>2, <1>3 DEF CtxType
<1>5. QED
  BY <1>4 DEF d

\* rn_rate_cb keeps the type of nginx's side of the request.
LEMMA ResumedType ==
    ASSUME NEW q \in HttpType, NEW c \in CtxType
    PROVE  Resumed(q, c) \in HttpType
BY TeardownCountType DEF Resumed, HttpType, Phases

\* A completion keeps the types of what it changes.
LEMMA RateCbType ==
    ASSUME TypeOK, NEW r \in Requests, NEW h, NEW status, NEW result,
           RateCb(r, h, status, result)
    PROVE  /\ http' \in [Requests -> HttpType]
           /\ ctx' \in [Requests -> CtxType]
           /\ worker' \in WorkerType
<1>1. CASE ~OwnsCallback(r, h)
  BY <1>1 DEF RateCb, TypeOK
<1>2. CASE OwnsCallback(r, h)
  <2> DEFINE c == Decided(ctx[r], RateDecision(mcf.fail_open, ctx[r].guards,
                                     ctx[r].resources, status, result))
             q == Resumed(http[r], ctx[r])
  <2>1. /\ ctx' = [ctx EXCEPT ![r] = c]
        /\ worker' = TeardownWorker(worker, ctx[r])
        /\ http' = [http EXCEPT ![r] = q]
    BY <1>2 DEF RateCb
  <2>2. ctx[r] \in CtxType /\ http[r] \in HttpType /\ mcf.fail_open \in BOOLEAN
    BY DEF TypeOK
  <2>3. c \in CtxType
    BY <2>2, DecidedType
  <2>4. q \in HttpType
    BY <2>2, ResumedType
  <2>5. worker' \in WorkerType
    BY <2>1, <2>2, TeardownWorkerType DEF TypeOK
  <2> HIDE DEF c, q
  <2>6. QED
    BY <2>1, <2>3, <2>4, <2>5 DEF TypeOK
<1>3. QED
  BY <1>1, <1>2

\* The C client forgets a request without touching the others.
LEMMA RetireType ==
    ASSUME TypeOK, NEW h, Retire(h)
    PROVE  /\ creq' \in [Handles -> CreqType]
           /\ \A k \in Handles : creq'[k] = IF k = h THEN DeadReq ELSE creq[k]
           /\ \A k \in Handles : creq'[k].live => creq'[k].user \in Requests
BY DEF Retire, TypeOK, CreqType, DeadReq

\* Running the cleanup list keeps the types.
LEMMA RunCleanupType ==
    ASSUME TypeOK, NEW r \in Requests, NEW count \in Nat, NEW error \in BOOLEAN,
           RunCleanup(r, count, error)
    PROVE  /\ http' \in [Requests -> HttpType]
           /\ ctx' \in [Requests -> CtxType]
           /\ worker' \in WorkerType
           /\ creq' \in [Handles -> CreqType]
           /\ \A h \in Handles : creq'[h].live => creq'[h].user \in Requests
           /\ fate' \in [Requests -> {"open", "refused", "lost"}]
<1> DEFINE n == IF http[r].cln THEN TeardownCount(count, ctx[r]) ELSE count
           c == CleanedUp(ctx[r])
<1>1. ctx[r] \in CtxType /\ http[r] \in HttpType
  BY DEF TypeOK
<1>2. n \in Nat /\ c \in CtxType
  BY <1>1, TeardownCountType, CleanedUpType
<1>3. http' = [http EXCEPT ![r] = [@ EXCEPT !.phase = "closing",
                 !.cln = FALSE, !.error = error, !.count = n]]
  BY DEF RunCleanup
<1>4. http' \in [Requests -> HttpType]
  <2> DEFINE q == [http[r] EXCEPT !.phase = "closing", !.cln = FALSE,
                                  !.error = error, !.count = n]
  <2>1. http' = [http EXCEPT ![r] = q]
    BY <1>3
  <2> HIDE DEF n
  <2>2. q \in HttpType
    BY <1>1, <1>2 DEF HttpType, Phases
  <2> HIDE DEF q
  <2>3. QED
    BY <2>1, <2>2 DEF TypeOK
<1>8. fate' \in [Requests -> {"open", "refused", "lost"}]
  BY DEF RunCleanup, TypeOK
<1>5. CASE http[r].cln
  <2>1. ctx' = [ctx EXCEPT ![r] = c] /\ worker' = TeardownWorker(worker, ctx[r])
        /\ Retire(ctx[r].req)
    BY <1>5 DEF RunCleanup
  <2>2. worker' \in WorkerType
    BY <1>1, <2>1, TeardownWorkerType DEF TypeOK
  <2>3. ctx' \in [Requests -> CtxType]
    <3> HIDE DEF c
    <3>1. QED
      BY <1>2, <2>1 DEF TypeOK
  <2>4. QED
    BY <1>4, <1>8, <2>1, <2>2, <2>3, RetireType
<1>6. CASE ~http[r].cln
  <2>1. UNCHANGED <<ctx, worker, creq>>
    BY <1>6 DEF RunCleanup
  <2>2. QED
    BY <1>4, <1>8, <2>1 DEF TypeOK
<1>7. QED
  BY <1>5, <1>6

\* Every path of the pre-content handler keeps the types.
LEMMA HandlerType ==
    ASSUME TypeOK, NEW r \in Requests, Handler(r)
    PROVE  TypeOK'
<1>1. /\ ctx[r] \in CtxType /\ http[r] \in HttpType
      /\ Found(r) \in BOOLEAN
  BY DEF TypeOK, Found, HttpType, CtxType
<1>2. http[r].cln \in BOOLEAN /\ http[r].count \in Nat
      /\ http[r].count + 1 \in Nat
  BY <1>1 DEF HttpType
<1>3. CASE HandlerBypass(r) \/ HandlerReuse(r) \/ HandlerNoMemory(r)
  <2>1. /\ http' \in [Requests -> HttpType]
        /\ fate' \in [Requests -> {"open", "refused", "lost"}]
    <3>1. CASE HandlerBypass(r)
      <4>1. Return(r, "DECLINED", Found(r), http[r].cln, http[r].count)
        BY <3>1 DEF HandlerBypass
      <4>2. QED
        BY <1>1, <1>2, <4>1, ReturnType
    <3>2. CASE HandlerReuse(r)
      <4> DEFINE code == IF ctx[r].done THEN ctx[r].decision ELSE "AGAIN"
      <4>1. Return(r, code, TRUE, http[r].cln, http[r].count)
        BY <3>2 DEF HandlerReuse
      <4> HIDE DEF code
      <4>2. QED
        BY <1>2, <4>1, ReturnType
    <3>3. CASE HandlerNoMemory(r)
      BY <1>1, <1>2, <3>3, ReturnType DEF HandlerNoMemory
    <3>4. QED
      BY <1>3, <3>1, <3>2, <3>3
  <2>2. UNCHANGED <<mcf, worker, creq, ctx, frame, answer, sent, reported>>
    BY <1>3 DEF HandlerBypass, HandlerReuse, HandlerNoMemory, history, exchange
  <2>3. QED
    BY <2>1, <2>2 DEF TypeOK
<1>4. CASE HandlerNoCleanup(r)
  <2> DEFINE n == NewCtx(r)
  <2>1. n \in CtxType
    BY HandlerCtxType
  <2>2. ctx' = [ctx EXCEPT ![r] = [n EXCEPT
                 !.outcome = "INTERNAL_ERROR", !.cause = "NGINX_ERROR",
                 !.done = TRUE]]
        /\ http' \in [Requests -> HttpType]
        /\ fate' \in [Requests -> {"open", "refused", "lost"}]
        /\ UNCHANGED <<mcf, worker, creq, frame, answer, sent, reported>>
    <3>1. /\ http' \in [Requests -> HttpType]
          /\ fate' \in [Requests -> {"open", "refused", "lost"}]
      <4>1. Return(r, "500", TRUE, http[r].cln, http[r].count)
        BY <1>4 DEF HandlerNoCleanup
      <4>2. QED
        BY <1>2, <4>1, ReturnType
    <3>2. QED
      BY <1>4, <3>1 DEF HandlerNoCleanup, history, exchange
  <2> HIDE DEF n
  <2>3. ctx' \in [Requests -> CtxType]
    BY <2>1, <2>2 DEF TypeOK, CtxType, Outcomes, Causes
  <2>4. QED
    BY <2>2, <2>3 DEF TypeOK
<1>5. CASE HandlerNoWorker(r)
  <2> DEFINE n == NewCtx(r)
             code == IF lcf(r).enabled THEN FailCode(mcf.fail_open)
                                       ELSE "DECLINED"
  <2>1. n \in CtxType /\ code \in Codes
    BY HandlerCtxType DEF FailCode, Codes
  <2>2. ctx' = [ctx EXCEPT ![r] = [n EXCEPT
                 !.done = TRUE, !.cause = "DEPENDENCY_ERROR",
                 !.decision = code]]
        /\ http' \in [Requests -> HttpType]
        /\ fate' \in [Requests -> {"open", "refused", "lost"}]
        /\ UNCHANGED <<mcf, worker, creq, frame, answer, sent, reported>>
    BY <1>1, <1>2, <1>5, ReturnType DEF HandlerNoWorker, history, exchange
  <2> HIDE DEF n, code
  <2>3. ctx' \in [Requests -> CtxType]
    BY <2>1, <2>2 DEF TypeOK, CtxType, Causes
  <2>4. QED
    BY <2>2, <2>3 DEF TypeOK
<1>6. ASSUME NEW reportBuilt \in BOOLEAN, HandlerReportOnly(r, reportBuilt)
      PROVE  TypeOK'
  <2> DEFINE n == WorkerCtx(r, reportBuilt)
  <2>1. n \in CtxType
    BY HandlerCtxType
  <2>2. ctx' = [ctx EXCEPT ![r] = [n EXCEPT !.done = TRUE]]
        /\ http' \in [Requests -> HttpType]
        /\ fate' \in [Requests -> {"open", "refused", "lost"}]
        /\ UNCHANGED <<worker, creq, frame, answer, sent, reported>>
        /\ mcf' = [mcf EXCEPT !.worker = TRUE]
    BY <1>1, <1>2, <1>6, ReturnType DEF HandlerReportOnly, history, exchange, Published
  <2> HIDE DEF n
  <2>3. ctx' \in [Requests -> CtxType]
    BY <2>1, <2>2 DEF TypeOK, CtxType
  <2>4. QED
    BY <2>2, <2>3 DEF TypeOK
<1>7. ASSUME NEW reportBuilt \in BOOLEAN,
             NEW cause \in {"DEPENDENCY_ERROR", "NGINX_ERROR", "START_FAILURE"},
             HandlerPreflight(r, reportBuilt, cause)
      PROVE  TypeOK'
  <2> DEFINE n == WorkerCtx(r, reportBuilt)
             code == IF cause = "NGINX_ERROR" THEN "500"
                                              ELSE FailCode(mcf.fail_open)
             outcome == IF cause = "NGINX_ERROR" THEN "INTERNAL_ERROR"
                        ELSE FailOutcome(mcf.fail_open)
             guards == IF cause = "START_FAILURE" THEN lcf(r).guards ELSE 0
             resources == IF cause = "START_FAILURE" THEN lcf(r).resources
                                                     ELSE 0
  <2>1. n \in CtxType /\ code \in Codes /\ outcome \in Outcomes
        /\ guards \in Nat /\ resources \in Nat
    BY HandlerCtxType DEF FailCode, FailOutcome, Codes, Outcomes
  <2>2. ctx' = [ctx EXCEPT ![r] = [n EXCEPT
                  !.decision = code, !.outcome = outcome, !.cause = cause,
                  !.done = TRUE, !.guards = guards, !.resources = resources]]
        /\ http' \in [Requests -> HttpType]
        /\ fate' \in [Requests -> {"open", "refused", "lost"}]
        /\ UNCHANGED <<worker, creq, frame, answer, sent, reported>>
        /\ mcf' = [mcf EXCEPT !.worker = TRUE]
    BY <1>1, <1>2, <1>7, ReturnType DEF HandlerPreflight, history, exchange, Published
  <2> HIDE DEF n, code, outcome, guards, resources
  <2>3. ctx' \in [Requests -> CtxType]
    BY <2>1, <2>2 DEF TypeOK, CtxType, Causes
  <2>4. QED
    BY <2>2, <2>3 DEF TypeOK
<1>8. ASSUME NEW reportBuilt \in BOOLEAN, NEW h \in Handles,
             NEW known \in DeadlineAnswers,
             HandlerStart(r, h, reportBuilt, known)
      PROVE  TypeOK'
  <2> USE ConstantsAssumption
  <2> DEFINE n == StartedCtx(r, h, reportBuilt, known)
  <2>1. n \in CtxType
    BY HandlerCtxType
  <2>2. /\ ctx' = [ctx EXCEPT ![r] = n]
        /\ http' \in [Requests -> HttpType]
        /\ fate' \in [Requests -> {"open", "refused", "lost"}]
        /\ worker' = [worker EXCEPT !.inflight = @ + 1]
        /\ creq' = [creq EXCEPT ![h] = [live |-> TRUE, user |-> r,
                                    src |-> worker.udp_fd, rounds |-> Rounds]]
        /\ sent' = [sent EXCEPT ![r] = @ + 1]
        /\ UNCHANGED <<frame, answer, reported>>
        /\ mcf' = [mcf EXCEPT !.worker = TRUE]
    BY <1>1, <1>2, <1>8, ReturnType DEF HandlerStart, Published
  <2> HIDE DEF n
  <2>3. ctx' \in [Requests -> CtxType] /\ worker' \in WorkerType
    BY <2>1, <2>2 DEF TypeOK, WorkerType
  <2>4. creq' \in [Handles -> CreqType] /\ sent' \in [Requests -> Nat]
    BY <2>2 DEF TypeOK, CreqType, WorkerType
  <2>5. \A k \in Handles : creq'[k].live => creq'[k].user \in Requests
    BY <2>2 DEF TypeOK
  <2>6. QED
    BY <2>2, <2>3, <2>4, <2>5 DEF TypeOK
<1>9. ASSUME NEW reportBuilt \in BOOLEAN,
             HandlerReadEventFailure(r, reportBuilt)
      PROVE  TypeOK'
  <2> DEFINE n == StartedCtx(r, NoHandle, reportBuilt, TRUE)
             t == TornDown(n)
             w == [worker EXCEPT !.inflight = @ + 1]
  <2>1. n \in CtxType /\ t \in CtxType /\ w \in WorkerType
    <3>1. n \in CtxType
      BY HandlerCtxType
    <3>2. t \in CtxType
      BY <3>1, TornDownType
    <3>3. w \in WorkerType
      BY DEF TypeOK, WorkerType
    <3>4. QED
      BY <3>1, <3>2, <3>3
  <2>2. TeardownWorker(w, n) \in WorkerType
        /\ TeardownCount(http[r].count + 1, n) \in Nat
    BY <1>2, <2>1, TeardownWorkerType, TeardownCountType
  <2>3. /\ ctx' = [ctx EXCEPT ![r] = [t EXCEPT
                     !.decision = "500", !.outcome = "INTERNAL_ERROR",
                     !.cause = "NGINX_ERROR", !.done = TRUE]]
        /\ http' \in [Requests -> HttpType]
        /\ fate' \in [Requests -> {"open", "refused", "lost"}]
        /\ worker' \in WorkerType
        /\ sent' = [sent EXCEPT ![r] = @ + 1]
        /\ UNCHANGED <<creq, frame, answer, reported>>
        /\ mcf' = [mcf EXCEPT !.worker = TRUE]
    BY <1>1, <1>2, <1>9, <2>2, ReturnType
       DEF HandlerReadEventFailure, Published
  <2> HIDE DEF n, t, w
  <2>4. ctx' \in [Requests -> CtxType]
    BY <2>1, <2>3 DEF TypeOK, CtxType, Codes, Outcomes, Causes
  <2>5. sent' \in [Requests -> Nat]
    BY <2>3 DEF TypeOK
  <2>6. QED
    BY <2>3, <2>4, <2>5 DEF TypeOK
<1>10. QED
  BY <1>3, <1>4, <1>5, <1>6, <1>7, <1>8, <1>9 DEF Handler

\* One datagram of the batch is used up.
LEMMA FrameLeftType ==
    ASSUME NEW f \in FrameType, f.left > 0, NEW u \in Requests \cup {NoRequest}
    PROVE  LET g == [f EXCEPT !.r = u, !.left = @ - 1]
           IN  g \in FrameType /\ g.kind = f.kind
<1> DEFINE n == f.left - 1
           g == [f EXCEPT !.r = u, !.left = n]
<1>1. n \in Nat
  BY DEF FrameType
<1> HIDE DEF n
<1>2. g \in FrameType /\ g.kind = f.kind
  BY <1>1 DEF FrameType
<1>3. QED
  BY <1>2 DEF n

\* The datagram handler keeps the types, also around a completion callback.
LEMMA UdpType ==
    ASSUME TypeOK, Udp
    PROVE  TypeOK'
<1>1. CASE UdpReadBegin
  BY <1>1, ConstantsAssumption
     DEF UdpReadBegin, TypeOK, WorkerType, FrameType, NoFrame, history, exchange
<1>2. ASSUME NEW h \in Handles, NEW c, UdpVerdict(h, c)
      PROVE  TypeOK'
  <2> DEFINE u == creq[h].user
  <2>1. u \in Requests
    BY <1>2 DEF UdpVerdict, TypeOK
  <2>2. /\ http' \in [Requests -> HttpType]
        /\ ctx' \in [Requests -> CtxType]
        /\ worker' \in WorkerType
    BY <1>2, <2>1, RateCbType DEF UdpVerdict
  <2>3. /\ creq' \in [Handles -> CreqType]
        /\ \A k \in Handles : creq'[k].live => creq'[k].user \in Requests
    BY <1>2, RetireType DEF UdpVerdict
  <2>4. answer' \in [Requests -> {"none", "allow", "deny"}]
    <3>1. AnswerOf(u, c[1], c[2]) \in {"none", "allow", "deny"}
      BY DEF AnswerOf
    <3>2. answer' = [answer EXCEPT ![u] = AnswerOf(u, c[1], c[2])]
      BY <1>2 DEF UdpVerdict
    <3>3. QED
      BY <3>1, <3>2 DEF TypeOK
  <2>5. frame' \in FrameType /\ frame'.kind = "udp"
    <3>1. frame' = [frame EXCEPT !.r = u, !.left = @ - 1]
          /\ frame.left > 0 /\ frame.kind = "udp"
      BY <1>2 DEF UdpVerdict
    <3> HIDE DEF u
    <3>2. QED
      BY <2>1, <3>1, FrameLeftType DEF TypeOK
  <2>6. UNCHANGED <<mcf, sent, reported, fate>>
    BY <1>2 DEF UdpVerdict
  <2>7. QED
    BY <2>2, <2>3, <2>4, <2>5, <2>6 DEF TypeOK
<1>3. CASE UdpOther
  <2>1. frame' = [frame EXCEPT !.r = NoRequest, !.left = @ - 1]
        /\ frame.left > 0 /\ frame.kind = "udp"
    BY <1>3 DEF UdpOther
  <2>2. frame' \in FrameType /\ frame'.kind = "udp"
    BY <2>1, FrameLeftType DEF TypeOK
  <2>3. QED
    BY <1>3, <2>2 DEF UdpOther, TypeOK, history, exchange
<1>4. ASSUME NEW keep_port \in BOOLEAN, UdpSteering(keep_port)
      PROVE  TypeOK'
  <2> DEFINE w == [worker EXCEPT !.rebind_pending = TRUE]
  <2>1. w \in WorkerType
    BY DEF TypeOK, WorkerType
  <2>2. ScheduleRebind(w) \in WorkerType
    BY <2>1, ScheduleRebindType
  <2>3. worker' \in WorkerType
    BY <1>4, <2>2 DEF UdpSteering, TypeOK
  <2>4. QED
    BY <1>4, <2>3 DEF UdpSteering, TypeOK, history, exchange
<1>5. CASE UdpReadEnd
  BY <1>5 DEF UdpReadEnd, TypeOK, WorkerType, FrameType, NoFrame, history, exchange
<1>6. QED
  BY <1>1, <1>2, <1>3, <1>4, <1>5 DEF Udp

\* A replay changes only the rounds left and the source socket.
LEMMA ReplayedType ==
    ASSUME NEW c \in CreqType, c.rounds > 0, worker.udp_fd \in Nat
    PROVE  /\ Replayed(c) \in CreqType
           /\ Replayed(c).live = c.live
           /\ Replayed(c).user = c.user
           /\ Replayed(c).src = worker.udp_fd
<1> DEFINE n == c.rounds - 1
<1>1. n \in Nat
  BY DEF CreqType
<1>2. Replayed(c) = [c EXCEPT !.rounds = n, !.src = worker.udp_fd]
  BY DEF Replayed
<1> HIDE DEF n
<1>3. QED
  BY <1>1, <1>2 DEF CreqType

\* Arming or stopping the timer of a context.
LEMMA TimerType ==
    ASSUME NEW c \in CtxType, NEW b \in BOOLEAN
    PROVE  [c EXCEPT !.timer = b] \in CtxType
BY DEF CtxType

\* The timer handler keeps the types, also around a completion callback.
LEMMA TimeoutType ==
    ASSUME TypeOK, Timeout
    PROVE  TypeOK'
<1>1. ASSUME NEW r \in Requests, TimeoutEarly(r)
      PROVE  TypeOK'
  BY <1>1 DEF TimeoutEarly, TypeOK, vars, history, exchange
<1>2. ASSUME NEW r \in Requests, NEW c, TimeoutCompletes(r, c)
      PROVE  TypeOK'
  <2> DEFINE h == ctx[r].req
  <2>1. h \in Handles
    BY <1>2 DEF TimeoutCompletes, TypeOK, CtxType
  <2>2. /\ http' \in [Requests -> HttpType]
        /\ ctx' \in [Requests -> CtxType]
        /\ worker' \in WorkerType
    BY <1>2, RateCbType DEF TimeoutCompletes
  <2>3. /\ creq' \in [Handles -> CreqType]
        /\ \A k \in Handles : creq'[k].live => creq'[k].user \in Requests
    BY <1>2, RetireType DEF TimeoutCompletes
  <2>4. answer' \in [Requests -> {"none", "allow", "deny"}]
    <3>1. AnswerOf(r, c[1], c[2]) \in {"none", "allow", "deny"}
      BY DEF AnswerOf
    <3>2. answer' = [answer EXCEPT ![r] = AnswerOf(r, c[1], c[2])]
      BY <1>2 DEF TimeoutCompletes
    <3>3. QED
      BY <3>1, <3>2 DEF TypeOK
  <2>5. frame' \in FrameType /\ frame'.r = r /\ frame'.h = h
    BY <1>2, <2>1
       DEF TimeoutCompletes, TypeOK, FrameType, NoFrame, ToldCompleted,
           OwnsCallback, HttpType, CtxType
  <2>6. UNCHANGED <<mcf, sent, reported, fate>>
    BY <1>2 DEF TimeoutCompletes
  <2>7. QED
    BY <2>1, <2>2, <2>3, <2>4, <2>5, <2>6 DEF TypeOK
<1>3. ASSUME NEW r \in Requests, NEW rc \in {"OK", "ERROR"},
             TimeoutContinues(r, rc)
      PROVE  TypeOK'
  <2> DEFINE h == ctx[r].req
  <2>1. h \in Handles
    BY <1>3 DEF TimeoutContinues, TypeOK, CtxType
  <2>2. /\ creq' \in [Handles -> CreqType]
        /\ \A k \in Handles : creq'[k].live = creq[k].live
                               /\ creq'[k].user = creq[k].user
    <3>1. CASE rc = "OK"
      <4>1. creq' = [creq EXCEPT ![h] = Replayed(creq[h])]
            /\ creq[h].rounds > 0
        BY <1>3, <3>1 DEF TimeoutContinues
      <4> HIDE DEF h
      <4>2. creq[h] \in CreqType /\ worker.udp_fd \in Nat
        BY <2>1 DEF TypeOK, WorkerType
      <4>3. /\ Replayed(creq[h]) \in CreqType
            /\ Replayed(creq[h]).live = creq[h].live
            /\ Replayed(creq[h]).user = creq[h].user
        BY <4>1, <4>2, ReplayedType
      <4>4. QED
        BY <2>1, <4>1, <4>3 DEF TypeOK
    <3>2. CASE rc # "OK"
      BY <1>3, <3>2 DEF TimeoutContinues, TypeOK
    <3>3. QED
      BY <3>1, <3>2
  <2>3. frame' \in FrameType /\ frame'.r = r /\ frame'.h = h
    BY <1>3, <2>1 DEF TimeoutContinues, TypeOK, FrameType, NoFrame
  <2>4. ctx' \in [Requests -> CtxType]
    <3> DEFINE c == [ctx[r] EXCEPT !.timer = FALSE]
    <3>1. ctx' = [ctx EXCEPT ![r] = c]
      BY <1>3 DEF TimeoutContinues
    <3>2. c \in CtxType
      BY TimerType DEF TypeOK
    <3> HIDE DEF c
    <3>3. QED
      BY <3>1, <3>2 DEF TypeOK
  <2>5. UNCHANGED <<mcf, worker, http, answer, sent, reported, fate>>
    BY <1>3 DEF TimeoutContinues, history, exchange
  <2>6. QED
    BY <2>1, <2>2, <2>3, <2>4, <2>5 DEF TypeOK
<1>4. CASE TimeoutReturn
  BY <1>4 DEF TimeoutReturn, TypeOK, FrameType, NoFrame, history, exchange
<1>5. CASE TimeoutRearm
  <2>1. ctx' \in [Requests -> CtxType]
    <3> DEFINE c == [ctx[frame.r] EXCEPT !.timer = TRUE]
    <3>1. ctx' = [ctx EXCEPT ![frame.r] = c] /\ frame.r \in Requests
      BY <1>5 DEF TimeoutRearm, TypeOK
    <3>2. c \in CtxType
      BY <3>1, TimerType DEF TypeOK
    <3> HIDE DEF c
    <3>3. QED
      BY <3>1, <3>2 DEF TypeOK
  <2>2. QED
    BY <1>5, <2>1 DEF TimeoutRearm, TypeOK, FrameType, NoFrame, history, exchange
<1>6. CASE TimeoutFails
  <2>1. frame.r \in Requests /\ frame.h \in Handles
    BY <1>6 DEF TimeoutFails, TypeOK
  <2>2. /\ http' \in [Requests -> HttpType]
        /\ ctx' \in [Requests -> CtxType]
        /\ worker' \in WorkerType
    BY <1>6, <2>1, RateCbType DEF TimeoutFails
  <2>3. /\ creq' \in [Handles -> CreqType]
        /\ \A k \in Handles : creq'[k].live => creq'[k].user \in Requests
    BY <1>6, RetireType DEF TimeoutFails
  <2>4. frame' \in FrameType /\ frame'.r = frame.r /\ frame'.h = frame.h
    BY <1>6 DEF TimeoutFails, TypeOK, FrameType
  <2>5. UNCHANGED <<mcf, answer, sent, reported, fate>>
    BY <1>6 DEF TimeoutFails, history, exchange
  <2>6. QED
    BY <2>1, <2>2, <2>3, <2>4, <2>5 DEF TypeOK
<1>7. QED
  BY <1>1, <1>2, <1>3, <1>4, <1>5, <1>6 DEF Timeout

\* The rebind timer changes only the worker, and keeps its type.
LEMMA AfterRebindTimerType ==
    ASSUME NEW w0 \in WorkerType, NEW opened \in BOOLEAN
    PROVE  /\ AfterRebindTimer(w0, opened) \in WorkerType
           /\ AfterRebindTimer(w0, opened).inflight = w0.inflight
           /\ \/ /\ AfterRebindTimer(w0, opened).udp_fd = w0.udp_fd
                 /\ AfterRebindTimer(w0, opened).rebind_pending
                       = w0.rebind_pending
              \/ /\ AfterRebindTimer(w0, opened).udp_fd = w0.udp_fd + 1
                 /\ ~AfterRebindTimer(w0, opened).rebind_pending
                 /\ w0.rebind_pending /\ w0.inflight = 0
           /\ AfterRebindTimer(w0, opened).rebind_pending /\ w0.inflight = 0
                 => AfterRebindTimer(w0, opened).rebind_scheduled
<1> DEFINE w == [w0 EXCEPT !.rebind_scheduled = FALSE]
           n == w.udp_fd + 1
           v == [w EXCEPT !.udp_fd = n, !.rebind_pending = FALSE]
<1>1. /\ w \in WorkerType /\ w.inflight = w0.inflight /\ w.udp_fd = w0.udp_fd
      /\ w.rebind_pending = w0.rebind_pending
  BY DEF WorkerType
<1>2. /\ AfterRebindTimer(w0, opened) =
           IF ~w.rebind_pending \/ w.inflight # 0 THEN w
           ELSE IF w.udp_read_active \/ ~opened THEN ScheduleRebind(w)
           ELSE v
  BY DEF AfterRebindTimer
<1>0. n \in Nat /\ n = w0.udp_fd + 1
  BY <1>1 DEF WorkerType
<1> HIDE DEF w, n
<1>3. /\ v \in WorkerType /\ v.inflight = w.inflight
      /\ v.udp_fd = n /\ ~v.rebind_pending
  BY <1>1, <1>0 DEF WorkerType
<1> HIDE DEF v
<1>4. CASE ~w.rebind_pending \/ w.inflight # 0
  BY <1>1, <1>2, <1>4
<1>5. CASE w.rebind_pending /\ w.inflight = 0
           /\ (w.udp_read_active \/ ~opened)
  BY <1>1, <1>2, <1>5, ScheduleRebindType
<1>6. CASE w.rebind_pending /\ w.inflight = 0
           /\ ~(w.udp_read_active \/ ~opened)
  BY <1>1, <1>2, <1>0, <1>3, <1>6
<1>7. QED
  BY <1>1, <1>4, <1>5, <1>6

\* An internal redirect keeps the type of nginx's side of the request.
LEMMA RedirectedType ==
    ASSUME NEW q \in HttpType, NEW loc \in Locations
    PROVE  Redirected(q, loc) \in HttpType
<1> DEFINE n == q.redirects + 1
<1>1. n \in Nat
  BY DEF HttpType
<1>2. Redirected(q, loc) = [q EXCEPT !.phase = "routing", !.loc = loc,
                                     !.slot = FALSE, !.redirects = n]
  BY DEF Redirected
<1> HIDE DEF n
<1>3. QED
  BY <1>1, <1>2 DEF HttpType, Phases

\* The steps of nginx, the cleanup and the log handler keep the types.
LEMMA NginxType ==
    ASSUME TypeOK, NEW r \in Requests, Nginx(r)
    PROVE  TypeOK'
<1>1. NoHttp \in HttpType
  BY ConstantsAssumption DEF NoHttp, HttpType, Phases
<1>2. NullCtx \in CtxType
  BY DEF NullCtx, CtxType, Codes, Outcomes, Causes
<1>3. ASSUME NEW loc \in Locations, Arrive(r, loc)
      PROVE  TypeOK'
  <2> DEFINE q == [NoHttp EXCEPT !.phase = "routing", !.loc = loc, !.count = 1]
  <2>1. q \in HttpType
    BY ConstantsAssumption DEF NoHttp, HttpType, Phases
  <2>2. http' = [http EXCEPT ![r] = q] /\ ctx' = [ctx EXCEPT ![r] = NullCtx]
    BY <1>3 DEF Arrive
  <2> HIDE DEF q
  <2>3. http' \in [Requests -> HttpType] /\ ctx' \in [Requests -> CtxType]
    BY <1>2, <2>1, <2>2 DEF TypeOK
  <2>4. QED
    BY <1>3, <2>3 DEF Arrive, TypeOK
<1>4. ASSUME NEW loc \in Locations, Redirect(r, loc)
      PROVE  TypeOK'
  <2>1. http' = [http EXCEPT ![r] = Redirected(http[r], loc)]
    BY <1>4 DEF Redirect
  <2>2. Redirected(http[r], loc) \in HttpType
    BY RedirectedType DEF TypeOK
  <2>3. http' \in [Requests -> HttpType]
    BY <2>1, <2>2 DEF TypeOK
  <2>4. QED
    BY <1>4, <2>3 DEF Redirect, TypeOK, history, exchange
<1>5. ASSUME NEW error \in BOOLEAN, Finish(r, error)
      PROVE  TypeOK'
  <2>1. RunCleanup(r, 0, error)
        /\ UNCHANGED <<mcf, frame, answer, sent, reported>>
    BY <1>5 DEF Finish, history, exchange
  <2>2. QED
    BY <2>1, RunCleanupType DEF TypeOK
<1>6. CASE ClientAbort(r)
  <2>1. RunCleanup(r, http[r].count, TRUE)
        /\ UNCHANGED <<mcf, frame, answer, sent, reported>>
    BY <1>6 DEF ClientAbort, history, exchange
  <2>2. http[r].count \in Nat
    BY DEF TypeOK, HttpType
  <2>3. QED
    BY <2>1, <2>2, RunCleanupType DEF TypeOK
<1>7. CASE VerdictVariable(r)
  <2>1. Found(r) \in BOOLEAN
    BY DEF Found, TypeOK, HttpType, CtxType
  <2>2. http' \in [Requests -> HttpType]
    BY <1>7, <2>1 DEF VerdictVariable, TypeOK, HttpType
  <2>3. QED
    BY <1>7, <2>2 DEF VerdictVariable, TypeOK, history, exchange
<1>8. CASE Log(r)
  <2>1. ReportEligible(r) \in BOOLEAN
    BY DEF ReportEligible
  <2>2. Destroyed(ctx[r]) \in CtxType
    BY <1>2 DEF Destroyed, TypeOK, CtxType, NullCtx
  <2>3. /\ ctx' = [ctx EXCEPT ![r] = Destroyed(ctx[r])]
        /\ http' = [http EXCEPT ![r] = NoHttp]
        /\ reported' = [reported EXCEPT ![r] = ReportEligible(r)]
    BY <1>8 DEF Log
  <2>4. /\ ctx' \in [Requests -> CtxType] /\ http' \in [Requests -> HttpType]
        /\ reported' \in [Requests -> BOOLEAN]
    BY <1>1, <2>1, <2>2, <2>3 DEF TypeOK
  <2>5. QED
    BY <1>8, <2>4 DEF Log, TypeOK
<1>9. QED
  BY <1>3, <1>4, <1>5, <1>6, <1>7, <1>8 DEF Nginx

\* Every step keeps the types.
LEMMA TypeStep ==
    ASSUME TypeOK, [Next]_vars
    PROVE  TypeOK'
<1>1. ASSUME NEW opened \in BOOLEAN, RebindHandler(opened)
      PROVE  TypeOK'
  <2>1. worker' \in WorkerType
    BY <1>1, AfterRebindTimerType DEF RebindHandler, TypeOK
  <2>2. QED
    BY <1>1, <2>1 DEF RebindHandler, TypeOK, history, exchange
<1>2. CASE UNCHANGED vars
  BY <1>2 DEF TypeOK, vars, history, exchange
<1>3. QED
  BY <1>1, <1>2, HandlerType, NginxType, UdpType, TimeoutType DEF Next

\* The initial state is well typed.
LEMMA TypeInit ==
    ASSUME Init
    PROVE  TypeOK
<1>1. NoHttp \in HttpType
  BY ConstantsAssumption DEF NoHttp, HttpType, Phases
<1>2. NullCtx \in CtxType
  BY DEF NullCtx, CtxType, Codes, Outcomes, Causes
<1>3. FreshWorker \in WorkerType /\ DeadReq \in CreqType
      /\ NoFrame \in FrameType /\ ~DeadReq.live /\ NoFrame.kind # "timeout"
  BY DEF FreshWorker, WorkerType, DeadReq, CreqType, NoFrame, FrameType
<1>4. QED
  BY <1>1, <1>2, <1>3 DEF Init, TypeOK

\* No sequence of handler calls, completions, timeouts, redirects, aborts and
\* rebinds takes a variable out of its type: neither the in-flight counter
\* nor the reference count of a request goes below zero.
THEOREM TypeCorrect == Spec => []TypeOK
BY TypeInit, TypeStep, PTL DEF Spec

(***************************************************************************)
(* The inductive invariant.  None of the safety properties is inductive    *)
(* alone: that inflight is exact needs that every live check is counted by *)
(* exactly one suspended request (HoldsWhileSuspended, Ownership), that a  *)
(* rebind meets no live check needs that inflight is exact, and that the   *)
(* timer handler's request is alive needs all of it.                       *)
(***************************************************************************)

Inv ==
    /\ TypeOK
    /\ HoldsWhileSuspended
    /\ Ownership
    /\ InflightExact
    /\ NoLostRebind
    /\ SameSourcePort
    /\ CountBalanced
    /\ FrameAlive

\* A context that holds nothing.
Unencumbered(c) ==
    /\ c.req = NoHandle /\ ~c.waiting /\ ~c.timer
    /\ ~c.inflight_counted /\ ~c.nginx_counted

\* nginx's side of a request that is not suspended.
Unsuspended(q) ==
    /\ q.phase # "suspended"
    /\ q.phase \in {"routing", "resumed", "content", "rejected"} => q.count = 1

\* A step as the abstract SourcePort specification sees it.
PortStep == [Port!Next]_(Port!vars)

\* The worker after a step that neither starts nor ends a check, nor asks for
\* or makes a rebind.
SteadyWorker(w) ==
    /\ w.inflight = worker.inflight
    /\ w.udp_fd = worker.udp_fd
    /\ w.rebind_pending = worker.rebind_pending
    /\ w.rebind_pending /\ w.inflight = 0 => w.rebind_scheduled

\* The number of live checks is a number, and zero only without any.
LEMMA LiveFinite ==
    /\ IsFiniteSet(Live) /\ Cardinality(Live) \in Nat
    /\ Cardinality(Live) = 0 <=> Live = {}
<1>1. IsFiniteSet(Live)
  BY ConstantsAssumption, FS_Subset DEF Live
<1>2. QED
  BY <1>1, FS_CardinalityType, FS_EmptySet

\* A step that touches one request which is not suspended, and leaves it not
\* suspended and its context holding nothing.
LEMMA NeutralStep ==
    ASSUME Inv, TypeOK', NEW r \in Requests, NEW q, NEW c,
           http[r].phase # "suspended",
           http' = [http EXCEPT ![r] = q], Unsuspended(q),
           ctx' = [ctx EXCEPT ![r] = c], Unencumbered(c),
           SteadyWorker(worker'), UNCHANGED <<creq, frame>>
    PROVE  Inv' /\ PortStep
<1>1. Live' = Live
  BY DEF Live
<1>2. \A s \in Requests : s # r => http'[s] = http[s] /\ ctx'[s] = ctx[s]
  BY DEF Inv, TypeOK
<1>3. http'[r] = q /\ ctx'[r] = c
  BY DEF Inv, TypeOK
<1>4. HoldsWhileSuspended'
  BY <1>1, <1>2, <1>3
     DEF Inv, HoldsWhileSuspended, Unsuspended, Unencumbered, lcf
<1>5. Ownership'
  <2>1. \A h \in Live : creq[h].user # r
    BY DEF Inv, Ownership
  <2>2. QED
    BY <1>1, <1>2, <1>3, <2>1 DEF Inv, Ownership, OwnsCallback, Unencumbered
<1>6. InflightExact' /\ NoLostRebind' /\ SameSourcePort'
  BY <1>1
     DEF Inv, InflightExact, NoLostRebind, SameSourcePort, SteadyWorker
<1>7. CountBalanced'
  BY <1>2, <1>3 DEF Inv, CountBalanced, Unsuspended
<1>8. FrameAlive'
  BY <1>1, <1>2 DEF Inv, FrameAlive, TypeOK
<1>9. PortStep
  BY <1>1 DEF SteadyWorker, PortStep, Port!vars, history, exchange
<1>10. QED
  BY <1>4, <1>5, <1>6, <1>7, <1>8, <1>9 DEF Inv

\* The end of a check, by rn_rate_cb or by the request cleanup: the request
\* gives everything back and the C client has retired the handle.
LEMMA EndStep ==
    ASSUME Inv, TypeOK', NEW r \in Requests, NEW q, NEW c,
           http[r].phase = "suspended",
           http' = [http EXCEPT ![r] = q], Unsuspended(q),
           ctx' = [ctx EXCEPT ![r] = c], Unencumbered(c),
           worker' = TeardownWorker(worker, ctx[r]), Retire(ctx[r].req),
           frame'.kind # "timeout" \/ frame'.completed
    PROVE  Inv' /\ PortStep
<1> DEFINE h == ctx[r].req
<1>1. /\ h \in Handles /\ h \in Live /\ creq[h].user = r
      /\ ctx[r].worker /\ ctx[r].inflight_counted /\ ctx[r] \in CtxType
      /\ h # NoHandle
  BY ConstantsAssumption DEF Inv, HoldsWhileSuspended, Ownership, TypeOK
<1>2. \A s \in Requests : s # r => http'[s] = http[s] /\ ctx'[s] = ctx[s]
  BY DEF Inv, TypeOK
<1>3. http'[r] = q /\ ctx'[r] = c
  BY DEF Inv, TypeOK
<1>4. \A k \in Handles : creq'[k] = IF k = h THEN DeadReq ELSE creq[k]
  BY RetireType DEF Inv
<1>5. Live' = Live \ {h}
  BY <1>1, <1>4 DEF Live, DeadReq
<1>6. \A s \in Requests : s # r => ctx[s].req # h
  BY <1>1 DEF Inv, Ownership
<1>7. Cardinality(Live') = Cardinality(Live) - 1
  BY <1>1, <1>5, LiveFinite, FS_RemoveElement
<1>8. worker.inflight = Cardinality(Live) /\ worker.inflight > 0
  BY <1>1, LiveFinite DEF Inv, InflightExact
<1>9. /\ worker'.inflight = worker.inflight - 1
      /\ worker'.udp_fd = worker.udp_fd
      /\ worker'.rebind_pending = worker.rebind_pending
      /\ worker.rebind_pending /\ worker'.inflight = 0
            => worker'.rebind_scheduled
  BY <1>1, <1>8, TeardownWorkerType DEF Inv, TypeOK
<1> HIDE DEF h
<1>10. HoldsWhileSuspended'
  BY <1>2, <1>3, <1>5, <1>6
     DEF Inv, HoldsWhileSuspended, Unsuspended, Unencumbered, lcf
<1>11. Ownership'
  <2>1. \A k \in Live' : k \in Live /\ k \in Handles /\ creq'[k] = creq[k]
                           /\ k # h
    BY <1>4, <1>5 DEF Live
  <2>2. \A k \in Live' : creq[k].user # r
    BY <1>1, <2>1 DEF Inv, Ownership, OwnsCallback, h
  <2>3. \A k \in Live' : /\ creq'[k].user \in Requests
                          /\ http'[creq'[k].user].slot
                          /\ ctx'[creq'[k].user].worker
                          /\ ctx'[creq'[k].user].req = k
                          /\ http'[creq'[k].user].phase = "suspended"
    BY <1>2, <2>1, <2>2 DEF Inv, Ownership, OwnsCallback
  <2>4. \A s \in Requests : ctx'[s].req # NoHandle =>
                /\ ctx'[s].req \in Live' /\ creq'[ctx'[s].req].user = s
    BY <1>2, <1>3, <1>5, <1>6, <2>1 DEF Inv, Ownership, Unencumbered
  <2>5. QED
    BY <2>3, <2>4 DEF Ownership, OwnsCallback
<1>12. InflightExact' /\ NoLostRebind'
  BY <1>7, <1>8, <1>9 DEF InflightExact, NoLostRebind
<1>13. SameSourcePort'
  BY <1>4, <1>5, <1>9 DEF Inv, SameSourcePort, Live
<1>14. CountBalanced'
  BY <1>2, <1>3 DEF Inv, CountBalanced, Unsuspended
<1>15. FrameAlive'
  BY DEF FrameAlive
<1>16. PortStep
  <2>1. Port!End(h)
    BY <1>1, <1>5, <1>9 DEF Port!End
  <2>2. QED
    BY <1>1, <2>1 DEF PortStep, Port!Next
<1>17. QED
  BY <1>10, <1>11, <1>12, <1>13, <1>14, <1>15, <1>16 DEF Inv

\* The start of a check by the handler, for a request not yet suspended.
LEMMA StartStep ==
    ASSUME Inv, TypeOK', NEW r \in Requests, NEW h \in Handles, NEW q, NEW c,
           http[r].phase # "suspended", ~creq[h].live,
           http' = [http EXCEPT ![r] = q],
           q.phase = "suspended", q.slot, q.cln, q.count = 2,
           q.loc = http[r].loc, lcf(r).enabled,
           ctx' = [ctx EXCEPT ![r] = c],
           c.r, c.worker, c.waiting, ~c.done, c.inflight_counted,
           c.nginx_counted, c.req = h,
           worker' = [worker EXCEPT !.inflight = @ + 1],
           creq' = [creq EXCEPT ![h] = [live |-> TRUE, user |-> r,
                      src |-> worker.udp_fd, rounds |-> Rounds]],
           UNCHANGED frame
    PROVE  Inv' /\ PortStep
<1>1. \A s \in Requests : s # r => http'[s] = http[s] /\ ctx'[s] = ctx[s]
  BY DEF Inv, TypeOK
<1>2. http'[r] = q /\ ctx'[r] = c
  BY DEF Inv, TypeOK
<1>3. /\ \A k \in Handles : k # h => creq'[k] = creq[k]
      /\ creq'[h].live /\ creq'[h].user = r /\ creq'[h].src = worker.udp_fd
  BY DEF Inv, TypeOK
<1>4. Live' = Live \cup {h} /\ h \notin Live
  BY <1>3 DEF Live
<1>5. Cardinality(Live') = Cardinality(Live) + 1
  BY <1>4, LiveFinite, FS_AddElement
<1>6. /\ worker'.inflight = worker.inflight + 1
      /\ worker'.udp_fd = worker.udp_fd
      /\ worker'.rebind_pending = worker.rebind_pending
      /\ worker.inflight \in Nat
  BY DEF Inv, TypeOK, WorkerType
<1>7. HoldsWhileSuspended'
  BY <1>1, <1>2, <1>4 DEF Inv, HoldsWhileSuspended, lcf
<1>8. Ownership'
  <2>1. \A k \in Live : /\ k # h /\ creq'[k] = creq[k] /\ creq[k].user # r
                         /\ creq[k].user \in Requests
    BY <1>3, <1>4 DEF Inv, Ownership, Live
  <2>2. \A k \in Live' : /\ creq'[k].user \in Requests
                          /\ http'[creq'[k].user].slot
                          /\ ctx'[creq'[k].user].worker
                          /\ ctx'[creq'[k].user].req = k
                          /\ http'[creq'[k].user].phase = "suspended"
    BY <1>1, <1>2, <1>3, <1>4, <2>1 DEF Inv, Ownership, OwnsCallback
  <2>3. \A s \in Requests : ctx'[s].req # NoHandle =>
                /\ ctx'[s].req \in Live' /\ creq'[ctx'[s].req].user = s
    BY <1>1, <1>2, <1>3, <1>4, <2>1 DEF Inv, Ownership
  <2>4. QED
    BY <2>2, <2>3 DEF Ownership, OwnsCallback
<1>9. InflightExact' /\ NoLostRebind'
  BY <1>5, <1>6 DEF Inv, InflightExact, NoLostRebind
<1>10. SameSourcePort'
  BY <1>3, <1>4, <1>6 DEF Inv, SameSourcePort, Live
<1>11. CountBalanced'
  BY <1>1, <1>2 DEF Inv, CountBalanced
<1>12. FrameAlive'
  BY <1>1, <1>4 DEF Inv, FrameAlive, TypeOK
<1>13. PortStep
  <2>1. Port!Send(h)
    BY <1>4, <1>6 DEF Port!Send
  <2>2. QED
    BY <2>1 DEF PortStep, Port!Next
<1>14. QED
  BY <1>7, <1>8, <1>9, <1>10, <1>11, <1>12, <1>13 DEF Inv

(***************************************************************************)
(* Every action is one of those steps, or changes none of the requests.    *)
(***************************************************************************)

\* After rn_request_teardown the context holds nothing of a check.
LEMMA TornDownUnencumbered ==
    ASSUME NEW c \in CtxType
    PROVE  Unencumbered(TornDown(c))
BY DEF TornDown, Unencumbered, CtxType

\* A fresh context holds nothing; a started one holds its check.
LEMMA HandlerCtxHolds ==
    ASSUME TypeOK, NEW r \in Requests, NEW h \in Handles \cup {NoHandle},
           NEW reportBuilt \in BOOLEAN, NEW known \in BOOLEAN
    PROVE  /\ Unencumbered(NewCtx(r))
           /\ Unencumbered(WorkerCtx(r, reportBuilt))
           /\ LET c == StartedCtx(r, h, reportBuilt, known)
              IN  /\ c.r /\ c.worker /\ c.waiting /\ ~c.done
                  /\ c.inflight_counted /\ c.nginx_counted /\ c.req = h
<1> DEFINE n == NewCtx(r)
           w == WorkerCtx(r, reportBuilt)
           c == StartedCtx(r, h, reportBuilt, known)
<1>1. n \in CtxType /\ w \in CtxType
  BY HandlerCtxType
<1>2. Unencumbered(n) /\ n.r /\ ~n.done
  BY DEF NewCtx, NullCtx, Unencumbered
<1>3. w = [n EXCEPT !.worker = TRUE,
             !.lat_report_enabled = lcf(r).report_enabled /\ reportBuilt]
  BY DEF WorkerCtx
<1>4. c = [w EXCEPT !.guards = lcf(r).guards, !.resources = lcf(r).resources,
             !.req = h, !.inflight_counted = TRUE, !.timer = known,
             !.waiting = TRUE, !.outcome = "WAITING", !.nginx_counted = TRUE]
  BY DEF StartedCtx
<1> HIDE DEF n, w, c
<1>5. Unencumbered(w) /\ w.r /\ w.worker /\ ~w.done
  BY <1>1, <1>2, <1>3 DEF Unencumbered, CtxType
<1>6. /\ c.r /\ c.worker /\ c.waiting /\ ~c.done
      /\ c.inflight_counted /\ c.nginx_counted /\ c.req = h
  BY <1>1, <1>4, <1>5 DEF CtxType
<1>7. QED
  BY <1>2, <1>5, <1>6 DEF n, w, c

\* The record a handler return leaves.
LEMMA ReturnShape ==
    ASSUME TypeOK, NEW r \in Requests, NEW code, NEW slot \in BOOLEAN,
           NEW cln \in BOOLEAN, NEW count \in Nat,
           Return(r, code, slot, cln, count)
    PROVE  \E q : /\ http' = [http EXCEPT ![r] = q]
                  /\ q.phase = PhaseAfter(code) /\ q.slot = slot
                  /\ q.cln = cln /\ q.count = count /\ q.loc = http[r].loc
<1> DEFINE q == [http[r] EXCEPT !.phase = PhaseAfter(code), !.slot = slot,
                                !.cln = cln, !.count = count]
<1>1. http' = [http EXCEPT ![r] = q]
  BY DEF Return
<1>2. /\ q.phase = PhaseAfter(code) /\ q.slot = slot
      /\ q.cln = cln /\ q.count = count /\ q.loc = http[r].loc
  BY DEF TypeOK, HttpType
<1> HIDE DEF q
<1>3. QED
  BY <1>1, <1>2

\* A handler path that ends without a suspension, worker and client unchanged.
LEMMA ReturnNeutral ==
    ASSUME Inv, TypeOK', NEW r \in Requests, NEW c, NEW code \in Codes,
           NEW slot \in BOOLEAN, NEW cln \in BOOLEAN,
           http[r].phase \in {"routing", "resumed"},
           Return(r, code, slot, cln, http[r].count),
           ctx' = [ctx EXCEPT ![r] = c], Unencumbered(c),
           UNCHANGED <<worker, creq, frame>>
    PROVE  Inv' /\ PortStep
<1>0. http[r].count \in Nat
  BY DEF Inv, TypeOK, HttpType
<1>1. PICK q : /\ http' = [http EXCEPT ![r] = q]
               /\ q.phase = PhaseAfter(code) /\ q.count = http[r].count
  BY <1>0, ReturnShape DEF Inv
<1>2. Unsuspended(q)
  BY <1>1 DEF Inv, CountBalanced, Unsuspended, PhaseAfter, Codes
<1>3. SteadyWorker(worker')
  BY DEF Inv, NoLostRebind, SteadyWorker
<1>4. QED
  BY <1>1, <1>2, <1>3, NeutralStep

\* Only a request on its way through the phases starts something new: a
\* suspended one finds its context waiting.
LEMMA FreshUnsuspended ==
    ASSUME Inv, NEW r \in Requests, HandlerFresh(r)
    PROVE  http[r].phase \in {"routing", "resumed"} /\ http[r].count = 1
<1>1. http[r].phase # "suspended"
  BY DEF Inv, HoldsWhileSuspended, HandlerFresh, Found
<1>2. QED
  BY <1>1 DEF Inv, CountBalanced, HandlerFresh, HandlerCalled

\* The pre-content handler, path by path.
LEMMA HandlerInv ==
    ASSUME Inv, NEW r \in Requests, Handler(r)
    PROVE  Inv' /\ PortStep
<1>1. TypeOK /\ TypeOK' /\ ctx[r] \in CtxType /\ http[r] \in HttpType
      /\ http[r].cln \in BOOLEAN /\ http[r].count + 1 \in Nat
  BY HandlerType DEF Inv, TypeOK, HttpType
<1>2. CASE http[r].phase # "suspended"
           /\ (HandlerBypass(r) \/ HandlerReuse(r) \/ HandlerNoMemory(r))
  <2>1. http[r].phase \in {"routing", "resumed"}
    BY <1>2 DEF HandlerBypass, HandlerReuse, HandlerNoMemory, HandlerFresh,
                HandlerCalled
  <2>2. Unencumbered(ctx[r])
    BY <1>2 DEF Inv, HoldsWhileSuspended, Unencumbered
  <2>3. ctx' = [ctx EXCEPT ![r] = ctx[r]] /\ UNCHANGED <<worker, creq, frame>>
    BY <1>1, <1>2 DEF HandlerBypass, HandlerReuse, HandlerNoMemory, TypeOK
  <2>4. PICK code \in Codes, slot \in BOOLEAN :
            /\ Return(r, code, slot, http[r].cln, http[r].count)
    <3>1. CASE HandlerBypass(r)
      <4>1. Return(r, "DECLINED", Found(r), http[r].cln, http[r].count)
        BY <3>1 DEF HandlerBypass
      <4>2. Found(r) \in BOOLEAN /\ "DECLINED" \in Codes
        BY <1>1 DEF Found, Codes, HttpType, CtxType
      <4>3. QED
        BY <4>1, <4>2
    <3>2. CASE HandlerReuse(r)
      <4>1. ctx[r].done /\ ctx[r].decision \in Codes
        BY <1>1, <2>2, <3>2 DEF HandlerReuse, Unencumbered, CtxType
      <4>2. Return(r, ctx[r].decision, TRUE, http[r].cln, http[r].count)
        BY <3>2, <4>1 DEF HandlerReuse
      <4>3. QED
        BY <4>1, <4>2
    <3>3. CASE HandlerNoMemory(r)
      <4>1. Return(r, "500", Found(r), http[r].cln, http[r].count)
        BY <3>3 DEF HandlerNoMemory
      <4>2. Found(r) \in BOOLEAN /\ "500" \in Codes
        BY <1>1 DEF Found, Codes, HttpType, CtxType
      <4>3. QED
        BY <4>1, <4>2
    <3>4. QED
      BY <1>2, <3>1, <3>2, <3>3
  <2>5. QED
    BY <1>1, <2>1, <2>2, <2>3, <2>4, ReturnNeutral
<1>3. CASE http[r].phase = "suspended"
           /\ (HandlerBypass(r) \/ HandlerReuse(r) \/ HandlerNoMemory(r))
  <2>1. /\ ctx[r].waiting /\ ~ctx[r].done /\ http[r].slot /\ http[r].cln
        /\ lcf(r).enabled /\ Found(r)
    BY <1>3 DEF Inv, HoldsWhileSuspended, Found
  <2>2. HandlerReuse(r)
    BY <1>3, <2>1 DEF HandlerBypass, HandlerNoMemory, HandlerFresh
  <2>3. Return(r, "AGAIN", TRUE, http[r].cln, http[r].count)
        /\ UNCHANGED <<mcf, worker, creq, ctx, frame>>
    BY <2>1, <2>2 DEF HandlerReuse
  <2>4. http' = http
    <3> DEFINE q == [http[r] EXCEPT !.phase = "suspended", !.slot = TRUE,
                       !.cln = http[r].cln, !.count = http[r].count]
    <3>1. http' = [http EXCEPT ![r] = q]
      BY <2>3 DEF Return, PhaseAfter
    <3>2. q = http[r]
      BY <1>1, <1>3, <2>1 DEF HttpType
    <3> HIDE DEF q
    <3>3. QED
      BY <1>1, <3>1, <3>2 DEF TypeOK
  <2>5. Live' = Live
    BY <2>3 DEF Live
  <2>6. Inv'
    BY <1>1, <2>3, <2>4, <2>5
       DEF Inv, HoldsWhileSuspended, Ownership, OwnsCallback, InflightExact,
           NoLostRebind, SameSourcePort, CountBalanced, FrameAlive, lcf
  <2>7. PortStep
    BY <2>3, <2>5 DEF PortStep, Port!vars, history, exchange
  <2>8. QED
    BY <2>6, <2>7
<1>4. CASE HandlerNoCleanup(r)
  <2> DEFINE n == NewCtx(r)
             c == [n EXCEPT !.outcome = "INTERNAL_ERROR",
                            !.cause = "NGINX_ERROR", !.done = TRUE]
  <2>1. n \in CtxType /\ Unencumbered(n)
    BY <1>1, HandlerCtxType, HandlerCtxHolds
  <2>2. /\ ctx' = [ctx EXCEPT ![r] = c] /\ HandlerFresh(r)
        /\ Return(r, "500", TRUE, http[r].cln, http[r].count)
        /\ UNCHANGED <<worker, creq, frame>>
    BY <1>4 DEF HandlerNoCleanup
  <2> HIDE DEF n
  <2>3. Unencumbered(c)
    BY <2>1 DEF Unencumbered, CtxType
  <2> HIDE DEF c
  <2>4. http[r].phase \in {"routing", "resumed"}
        /\ "500" \in Codes /\ "DECLINED" \in Codes
    BY <2>2, FreshUnsuspended DEF Codes
  <2>5. QED
    BY <1>1, <2>2, <2>3, <2>4, ReturnNeutral
<1>5. CASE HandlerNoWorker(r)
  <2> DEFINE n == NewCtx(r)
             code == IF lcf(r).enabled THEN FailCode(mcf.fail_open)
                                       ELSE "DECLINED"
             c == [n EXCEPT !.done = TRUE, !.cause = "DEPENDENCY_ERROR",
                            !.decision = code]
  <2>1. n \in CtxType /\ Unencumbered(n) /\ code \in Codes
    BY <1>1, HandlerCtxType, HandlerCtxHolds DEF FailCode, Codes
  <2>2. /\ ctx' = [ctx EXCEPT ![r] = c] /\ HandlerFresh(r)
        /\ Return(r, code, TRUE, TRUE, http[r].count)
        /\ UNCHANGED <<worker, creq, frame>>
    BY <1>5 DEF HandlerNoWorker
  <2> HIDE DEF n, code
  <2>3. Unencumbered(c)
    BY <2>1 DEF Unencumbered, CtxType
  <2> HIDE DEF c
  <2>4. http[r].phase \in {"routing", "resumed"}
        /\ "500" \in Codes /\ "DECLINED" \in Codes
    BY <2>2, FreshUnsuspended DEF Codes
  <2>5. QED
    BY <1>1, <2>1, <2>2, <2>3, <2>4, ReturnNeutral
<1>6. ASSUME NEW reportBuilt \in BOOLEAN, HandlerReportOnly(r, reportBuilt)
      PROVE  Inv' /\ PortStep
  <2> DEFINE n == WorkerCtx(r, reportBuilt)
             c == [n EXCEPT !.done = TRUE]
  <2>1. n \in CtxType /\ Unencumbered(n)
    BY <1>1, HandlerCtxType, HandlerCtxHolds
  <2>2. /\ ctx' = [ctx EXCEPT ![r] = c] /\ HandlerFresh(r)
        /\ Return(r, "DECLINED", TRUE, TRUE, http[r].count)
        /\ UNCHANGED <<worker, creq, frame>>
    BY <1>6 DEF HandlerReportOnly
  <2> HIDE DEF n
  <2>3. Unencumbered(c)
    BY <2>1 DEF Unencumbered, CtxType
  <2> HIDE DEF c
  <2>4. http[r].phase \in {"routing", "resumed"}
        /\ "500" \in Codes /\ "DECLINED" \in Codes
    BY <2>2, FreshUnsuspended DEF Codes
  <2>5. QED
    BY <1>1, <2>2, <2>3, <2>4, ReturnNeutral
<1>7. ASSUME NEW reportBuilt \in BOOLEAN,
             NEW cause \in {"DEPENDENCY_ERROR", "NGINX_ERROR", "START_FAILURE"},
             HandlerPreflight(r, reportBuilt, cause)
      PROVE  Inv' /\ PortStep
  <2> DEFINE n == WorkerCtx(r, reportBuilt)
             code == IF cause = "NGINX_ERROR" THEN "500"
                                              ELSE FailCode(mcf.fail_open)
             outcome == IF cause = "NGINX_ERROR" THEN "INTERNAL_ERROR"
                        ELSE FailOutcome(mcf.fail_open)
             guards == IF cause = "START_FAILURE" THEN lcf(r).guards ELSE 0
             resources == IF cause = "START_FAILURE" THEN lcf(r).resources
                                                     ELSE 0
             c == [n EXCEPT !.decision = code, !.outcome = outcome,
                            !.cause = cause, !.done = TRUE,
                            !.guards = guards, !.resources = resources]
  <2>1. n \in CtxType /\ Unencumbered(n) /\ code \in Codes
    BY <1>1, HandlerCtxType, HandlerCtxHolds DEF FailCode, Codes
  <2>2. /\ ctx' = [ctx EXCEPT ![r] = c] /\ HandlerFresh(r)
        /\ Return(r, code, TRUE, TRUE, http[r].count)
        /\ UNCHANGED <<worker, creq, frame>>
    BY <1>7 DEF HandlerPreflight
  <2> HIDE DEF n, code, outcome, guards, resources
  <2>3. Unencumbered(c)
    BY <2>1 DEF Unencumbered, CtxType
  <2> HIDE DEF c
  <2>4. http[r].phase \in {"routing", "resumed"}
        /\ "500" \in Codes /\ "DECLINED" \in Codes
    BY <2>2, FreshUnsuspended DEF Codes
  <2>5. QED
    BY <1>1, <2>1, <2>2, <2>3, <2>4, ReturnNeutral
<1>8. ASSUME NEW reportBuilt \in BOOLEAN, NEW h \in Handles,
             NEW known \in DeadlineAnswers,
             HandlerStart(r, h, reportBuilt, known)
      PROVE  Inv' /\ PortStep
  <2> DEFINE c == StartedCtx(r, h, reportBuilt, known)
             m == http[r].count + 1
  <2>1. /\ c.r /\ c.worker /\ c.waiting /\ ~c.done
        /\ c.inflight_counted /\ c.nginx_counted /\ c.req = h
    BY <1>1, ConstantsAssumption, HandlerCtxHolds
  <2>2. /\ HandlerFresh(r) /\ lcf(r).enabled /\ ~creq[h].live
        /\ ctx' = [ctx EXCEPT ![r] = c]
        /\ worker' = [worker EXCEPT !.inflight = @ + 1]
        /\ creq' = [creq EXCEPT ![h] = [live |-> TRUE, user |-> r,
                      src |-> worker.udp_fd, rounds |-> Rounds]]
        /\ Return(r, "AGAIN", TRUE, TRUE, m)
        /\ UNCHANGED frame
    BY <1>8 DEF HandlerStart
  <2>3. http[r].phase # "suspended" /\ m = 2 /\ m \in Nat
    BY <2>2, FreshUnsuspended
  <2> HIDE DEF m
  <2> DEFINE q == [http[r] EXCEPT !.phase = "suspended", !.slot = TRUE,
                                  !.cln = TRUE, !.count = m]
  <2>4. http' = [http EXCEPT ![r] = q]
    BY <2>2 DEF Return, PhaseAfter
  <2>5. /\ q.phase = "suspended" /\ q.slot /\ q.cln /\ q.count = 2
        /\ q.loc = http[r].loc
    BY <1>1, <2>3 DEF HttpType
  <2> HIDE DEF q
  <2> HIDE DEF c
  <2>6. QED
    BY <1>1, <2>1, <2>2, <2>3, <2>4, <2>5, StartStep
<1>9. ASSUME NEW reportBuilt \in BOOLEAN,
             HandlerReadEventFailure(r, reportBuilt)
      PROVE  Inv' /\ PortStep
  <2> DEFINE n == StartedCtx(r, NoHandle, reportBuilt, TRUE)
             t == TornDown(n)
             w == [worker EXCEPT !.inflight = @ + 1]
             m == TeardownCount(http[r].count + 1, n)
             c == [t EXCEPT !.decision = "500", !.outcome = "INTERNAL_ERROR",
                            !.cause = "NGINX_ERROR", !.done = TRUE]
  <2>1. n \in CtxType /\ n.worker /\ n.inflight_counted /\ n.nginx_counted
        /\ n.r
    BY <1>1, HandlerCtxType, HandlerCtxHolds
  <2>2. t \in CtxType /\ Unencumbered(t)
    BY <2>1, TornDownType, TornDownUnencumbered
  <2>3. w \in WorkerType /\ w.inflight = worker.inflight + 1
        /\ w.inflight > 0 /\ w.inflight - 1 = worker.inflight
        /\ w.udp_fd = worker.udp_fd
        /\ w.rebind_pending = worker.rebind_pending
    <3> DEFINE i == worker.inflight + 1
               v == [worker EXCEPT !.inflight = i]
    <3>1. i \in Nat /\ i > 0 /\ i - 1 = worker.inflight
          /\ worker \in WorkerType
      BY <1>1 DEF TypeOK, WorkerType
    <3>2. w = v
      OBVIOUS
    <3> HIDE DEF i, w
    <3>3. v \in WorkerType /\ v.inflight = i /\ v.udp_fd = worker.udp_fd
          /\ v.rebind_pending = worker.rebind_pending
      BY <3>1 DEF WorkerType
    <3> HIDE DEF v
    <3>4. QED
      BY <3>1, <3>2, <3>3 DEF i
  <2>4. /\ HandlerFresh(r)
        /\ ctx' = [ctx EXCEPT ![r] = c]
        /\ worker' = TeardownWorker(w, n)
        /\ Return(r, "500", TRUE, TRUE, m)
        /\ UNCHANGED <<creq, frame>>
    BY <1>9 DEF HandlerReadEventFailure
  <2>5. http[r].phase # "suspended" /\ m = 1 /\ m \in Nat
    BY <2>1, <2>4, FreshUnsuspended DEF TeardownCount
  <2> HIDE DEF n, t, w, m
  <2>6. SteadyWorker(worker')
    BY <2>1, <2>3, <2>4, TeardownWorkerType DEF SteadyWorker
  <2>7. Unencumbered(c)
    BY <2>2 DEF Unencumbered, CtxType
  <2> DEFINE q == [http[r] EXCEPT !.phase = "rejected", !.slot = TRUE,
                                  !.cln = TRUE, !.count = m]
  <2>8. http' = [http EXCEPT ![r] = q]
    BY <2>4 DEF Return, PhaseAfter
  <2>9. Unsuspended(q)
    BY <1>1, <2>5 DEF HttpType, Unsuspended
  <2> HIDE DEF q
  <2> HIDE DEF c
  <2>10. QED
    BY <1>1, <2>4, <2>5, <2>6, <2>7, <2>8, <2>9, NeutralStep
<1>10. QED
  BY <1>2, <1>3, <1>4, <1>5, <1>6, <1>7, <1>8, <1>9 DEF Handler

\* rn_rate_cb ends the check of a suspended request: it finds the context by
\* the slot and by the handle.
LEMMA RateCbInv ==
    ASSUME Inv, TypeOK', NEW r \in Requests, NEW status, NEW result,
           http[r].phase = "suspended",
           RateCb(r, ctx[r].req, status, result), Retire(ctx[r].req),
           frame'.kind # "timeout" \/ frame'.completed
    PROVE  Inv' /\ PortStep
<1> DEFINE d == RateDecision(mcf.fail_open, ctx[r].guards, ctx[r].resources,
                             status, result)
           t == TornDown(ctx[r])
           c == Decided(ctx[r], d)
           q == Resumed(http[r], ctx[r])
<1>1. ctx[r] \in CtxType /\ http[r] \in HttpType
  BY DEF Inv, TypeOK
<1>2. /\ OwnsCallback(r, ctx[r].req) /\ ctx[r].r /\ ctx[r].nginx_counted
      /\ http[r].count = 2
  BY DEF Inv, HoldsWhileSuspended, OwnsCallback
<1>3. /\ ctx' = [ctx EXCEPT ![r] = c] /\ http' = [http EXCEPT ![r] = q]
      /\ worker' = TeardownWorker(worker, ctx[r])
  BY <1>2 DEF RateCb
<1>4. Unsuspended(q)
  BY <1>1, <1>2 DEF Resumed, TeardownCount, Unsuspended, HttpType
<1>5. Unencumbered(c)
  <2>1. t \in CtxType /\ Unencumbered(t)
    BY <1>1, TornDownType, TornDownUnencumbered
  <2>2. c = [t EXCEPT !.outcome = d.outcome, !.cause = d.cause,
                      !.decision = d.code, !.done = TRUE]
    BY DEF Decided
  <2> HIDE DEF t, d, c
  <2>3. QED
    BY <2>1, <2>2 DEF Unencumbered, CtxType
<1> HIDE DEF c, q
<1>6. QED
  BY <1>3, <1>4, <1>5, EndStep

\* Arming or stopping the timer of a suspended request, with or without a
\* replay of its check.
LEMMA TimerStep ==
    ASSUME Inv, TypeOK', NEW r \in Requests, NEW c,
           http[r].phase = "suspended",
           ctx' = [ctx EXCEPT ![r] = c],
           c.r = ctx[r].r, c.worker = ctx[r].worker, c.req = ctx[r].req,
           c.waiting = ctx[r].waiting, c.done = ctx[r].done,
           c.inflight_counted = ctx[r].inflight_counted,
           c.nginx_counted = ctx[r].nginx_counted,
           \A k \in Handles : /\ creq'[k].live = creq[k].live
                              /\ creq'[k].user = creq[k].user
                              /\ creq'[k].src \in {creq[k].src, worker.udp_fd},
           UNCHANGED <<http, worker>>, FrameAlive'
    PROVE  Inv' /\ PortStep
<1>1. Live' = Live
  BY DEF Live
<1>2. \A s \in Requests : s # r => ctx'[s] = ctx[s]
  BY DEF Inv, TypeOK
<1>3. ctx'[r] = c
  BY DEF Inv, TypeOK
<1>4. \A s \in Requests : /\ ctx'[s].r = ctx[s].r
                           /\ ctx'[s].worker = ctx[s].worker
                           /\ ctx'[s].req = ctx[s].req
                           /\ ctx'[s].waiting = ctx[s].waiting
                           /\ ctx'[s].done = ctx[s].done
                           /\ ctx'[s].inflight_counted = ctx[s].inflight_counted
                           /\ ctx'[s].nginx_counted = ctx[s].nginx_counted
  BY <1>2, <1>3
<1>5. HoldsWhileSuspended'
  BY <1>1, <1>2, <1>4 DEF Inv, HoldsWhileSuspended, lcf
<1>6. Ownership'
  <2>1. \A k \in Live : /\ creq'[k].user = creq[k].user
                         /\ creq[k].user \in Requests
    BY DEF Inv, Ownership, Live
  <2>2. \A k \in Live : /\ creq'[k].user \in Requests
                         /\ http'[creq'[k].user].slot
                         /\ ctx'[creq'[k].user].worker
                         /\ ctx'[creq'[k].user].req = k
                         /\ http'[creq'[k].user].phase = "suspended"
    BY <1>4, <2>1 DEF Inv, Ownership, OwnsCallback
  <2>3. \A s \in Requests : ctx'[s].req # NoHandle =>
                /\ ctx'[s].req \in Live /\ creq'[ctx'[s].req].user = s
    BY <1>4, <2>1 DEF Inv, Ownership
  <2>4. QED
    BY <1>1, <2>2, <2>3 DEF Ownership, OwnsCallback
<1>7. InflightExact' /\ NoLostRebind'
  BY <1>1 DEF Inv, InflightExact, NoLostRebind
<1>8. SameSourcePort'
  BY <1>1 DEF Inv, SameSourcePort, Live
<1>9. CountBalanced'
  BY DEF Inv, CountBalanced
<1>10. PortStep
  BY <1>1 DEF PortStep, Port!vars, history, exchange
<1>11. QED
  BY <1>5, <1>6, <1>7, <1>8, <1>9, <1>10 DEF Inv

\* The end of a request: its cleanup cancels a check that is still running.
LEMMA RunCleanupInv ==
    ASSUME Inv, TypeOK', NEW r \in Requests, NEW count \in Nat,
           NEW error \in BOOLEAN,
           RunCleanup(r, count, error), UNCHANGED frame,
           http[r].phase # "suspended" \/ Idle
    PROVE  Inv' /\ PortStep
<1> DEFINE n == IF http[r].cln THEN TeardownCount(count, ctx[r]) ELSE count
           q == [http[r] EXCEPT !.phase = "closing", !.cln = FALSE,
                                !.error = error, !.count = n]
           t == TornDown(ctx[r])
           c == CleanedUp(ctx[r])
<1>1. ctx[r] \in CtxType /\ http[r] \in HttpType /\ worker \in WorkerType
  BY DEF Inv, TypeOK
<1>2. http' = [http EXCEPT ![r] = q]
  BY DEF RunCleanup
<1>3. Unsuspended(q)
  <2> HIDE DEF n
  <2>1. QED
    BY <1>1 DEF Unsuspended, HttpType
<1>4. Unencumbered(c)
  <2>1. t \in CtxType /\ Unencumbered(t)
    BY <1>1, TornDownType, TornDownUnencumbered
  <2>2. c = [t EXCEPT
               !.outcome = IF ctx[r].outcome = "WAITING" THEN "ABORTED" ELSE @,
               !.cause = IF ctx[r].outcome = "WAITING" THEN "CLIENT_ABORT"
                                                       ELSE @,
               !.r = FALSE]
    BY DEF CleanedUp
  <2> HIDE DEF t, c
  <2>3. QED
    BY <2>1, <2>2 DEF Unencumbered, CtxType
<1> HIDE DEF q
<1>5. CASE http[r].phase = "suspended"
  <2>1. http[r].cln /\ frame'.kind # "timeout"
    BY <1>5 DEF Inv, HoldsWhileSuspended, Idle
  <2>2. /\ ctx' = [ctx EXCEPT ![r] = c] /\ Retire(ctx[r].req)
        /\ worker' = TeardownWorker(worker, ctx[r])
    BY <2>1 DEF RunCleanup
  <2> HIDE DEF c
  <2>3. QED
    BY <1>2, <1>3, <1>4, <1>5, <2>1, <2>2, EndStep
<1>6. CASE http[r].phase # "suspended" /\ http[r].cln
  <2>1. Unencumbered(ctx[r])
    BY <1>6 DEF Inv, HoldsWhileSuspended, Unencumbered
  <2>2. /\ ctx' = [ctx EXCEPT ![r] = c] /\ Retire(ctx[r].req)
        /\ worker' = TeardownWorker(worker, ctx[r])
    BY <1>6 DEF RunCleanup
  <2>3. creq' = creq
    BY <2>1, <2>2, ConstantsAssumption DEF Retire, Unencumbered
  <2>4. SteadyWorker(worker')
    <3>1. NoLostRebind
      BY DEF Inv
    <3>2. QED
      BY <1>1, <2>1, <2>2, <3>1, TeardownWorkerType
         DEF SteadyWorker, Unencumbered, NoLostRebind
  <2> HIDE DEF c
  <2>5. QED
    BY <1>2, <1>3, <1>4, <1>6, <2>2, <2>3, <2>4, NeutralStep
<1>7. CASE http[r].phase # "suspended" /\ ~http[r].cln
  <2>1. Unencumbered(ctx[r])
    BY <1>7 DEF Inv, HoldsWhileSuspended, Unencumbered
  <2>2. ctx' = [ctx EXCEPT ![r] = ctx[r]] /\ UNCHANGED <<worker, creq>>
    BY <1>7 DEF RunCleanup, Inv, TypeOK
  <2>3. SteadyWorker(worker')
    BY <2>2 DEF Inv, NoLostRebind, SteadyWorker
  <2>4. QED
    BY <1>2, <1>3, <1>7, <2>1, <2>2, <2>3, NeutralStep
<1>8. QED
  BY <1>5, <1>6, <1>7

\* nginx's own steps on a request.
LEMMA NginxInv ==
    ASSUME Inv, NEW r \in Requests, Nginx(r)
    PROVE  Inv' /\ PortStep
<1>1. TypeOK /\ TypeOK' /\ ctx[r] \in CtxType /\ http[r] \in HttpType
  BY NginxType DEF Inv, TypeOK
<1>2. ASSUME UNCHANGED worker PROVE SteadyWorker(worker')
  BY <1>2 DEF Inv, NoLostRebind, SteadyWorker
<1>3. http[r].phase # "suspended" => Unencumbered(ctx[r])
  BY DEF Inv, HoldsWhileSuspended, Unencumbered
<1>4. UNCHANGED ctx => ctx' = [ctx EXCEPT ![r] = ctx[r]]
  BY <1>1 DEF TypeOK
<1>5. ASSUME NEW loc \in Locations, Arrive(r, loc)
      PROVE  Inv' /\ PortStep
  <2> DEFINE q == [NoHttp EXCEPT !.phase = "routing", !.loc = loc, !.count = 1]
  <2>1. /\ http' = [http EXCEPT ![r] = q] /\ ctx' = [ctx EXCEPT ![r] = NullCtx]
        /\ http[r].phase = "free" /\ UNCHANGED <<worker, creq, frame>>
    BY <1>5 DEF Arrive
  <2>2. Unsuspended(q) /\ Unencumbered(NullCtx)
    BY DEF NoHttp, Unsuspended, NullCtx, Unencumbered
  <2> HIDE DEF q
  <2>3. http[r].phase # "suspended" /\ SteadyWorker(worker')
    BY <1>2, <2>1
  <2>4. QED
    BY <1>1, <2>1, <2>2, <2>3, NeutralStep
<1>6. ASSUME NEW loc \in Locations, Redirect(r, loc)
      PROVE  Inv' /\ PortStep
  <2> DEFINE q == Redirected(http[r], loc)
  <2>1. /\ http' = [http EXCEPT ![r] = q] /\ UNCHANGED <<worker, creq, frame, ctx>>
        /\ http[r].phase \in {"content", "rejected"}
    BY <1>6 DEF Redirect
  <2>2. Unsuspended(q)
    BY <1>1, <2>1 DEF Inv, CountBalanced, Redirected, Unsuspended, HttpType
  <2> HIDE DEF q
  <2>3. http[r].phase # "suspended" /\ SteadyWorker(worker')
    BY <1>2, <2>1
  <2>4. QED
    BY <1>1, <1>3, <1>4, <2>1, <2>2, <2>3, NeutralStep
<1>7. ASSUME NEW error \in BOOLEAN, Finish(r, error)
      PROVE  Inv' /\ PortStep
  <2>1. RunCleanup(r, 0, error) /\ UNCHANGED frame
        /\ http[r].phase # "suspended"
    BY <1>7 DEF Finish
  <2>2. QED
    BY <1>1, <2>1, RunCleanupInv
<1>8. CASE ClientAbort(r)
  <2>1. RunCleanup(r, http[r].count, TRUE) /\ UNCHANGED frame /\ Idle
    BY <1>8 DEF ClientAbort
  <2>2. http[r].count \in Nat
    BY <1>1 DEF HttpType
  <2>3. QED
    BY <1>1, <2>1, <2>2, RunCleanupInv
<1>9. CASE VerdictVariable(r)
  <2> DEFINE q == [http[r] EXCEPT !.slot = Found(r)]
  <2>1. /\ http' = [http EXCEPT ![r] = q] /\ UNCHANGED <<worker, creq, frame, ctx>>
        /\ http[r].phase \in {"routing", "content", "rejected", "closing"}
    BY <1>9 DEF VerdictVariable
  <2>2. Unsuspended(q)
    BY <1>1, <2>1 DEF Inv, CountBalanced, Unsuspended, HttpType
  <2> HIDE DEF q
  <2>3. http[r].phase # "suspended" /\ SteadyWorker(worker')
    BY <1>2, <2>1
  <2>4. QED
    BY <1>1, <1>3, <1>4, <2>1, <2>2, <2>3, NeutralStep
<1>10. CASE Log(r)
  <2> DEFINE c == Destroyed(ctx[r])
  <2>1. /\ http' = [http EXCEPT ![r] = NoHttp] /\ ctx' = [ctx EXCEPT ![r] = c]
        /\ http[r].phase = "closing" /\ UNCHANGED <<worker, creq, frame>>
    BY <1>10 DEF Log
  <2>2. http[r].phase # "suspended" /\ SteadyWorker(worker')
    BY <1>2, <2>1
  <2>3. Unsuspended(NoHttp)
    BY DEF NoHttp, Unsuspended
  <2>4. Unencumbered(c)
    BY <1>3, <2>2 DEF Destroyed, NullCtx, Unencumbered
  <2> HIDE DEF c
  <2>5. QED
    BY <1>1, <2>1, <2>2, <2>3, <2>4, NeutralStep
<1>11. QED
  BY <1>5, <1>6, <1>7, <1>8, <1>9, <1>10 DEF Nginx

\* A step that changes neither requests nor checks, and of the worker only
\* flags that decide when the port changes.
LEMMA FlagStep ==
    ASSUME Inv, TypeOK', UNCHANGED <<creq, http, ctx>>,
           worker'.inflight = worker.inflight,
           worker'.udp_fd = worker.udp_fd \/ worker.inflight = 0,
           NoLostRebind', FrameAlive'
    PROVE  Inv' /\ Live' = Live
<1>1. Live' = Live
  BY DEF Live
<1>2. HoldsWhileSuspended' /\ CountBalanced'
  BY <1>1 DEF Inv, HoldsWhileSuspended, CountBalanced, lcf
<1>3. Ownership'
  BY <1>1 DEF Inv, Ownership, OwnsCallback
<1>4. InflightExact'
  BY <1>1 DEF Inv, InflightExact
<1>5. SameSourcePort'
  <2>1. CASE worker'.udp_fd = worker.udp_fd
    BY <1>1, <2>1 DEF Inv, SameSourcePort
  <2>2. CASE worker.inflight = 0
    BY <1>1, <2>2, LiveFinite DEF Inv, InflightExact, SameSourcePort
  <2>3. QED
    BY <2>1, <2>2
<1>6. QED
  BY <1>1, <1>2, <1>3, <1>4, <1>5 DEF Inv

\* The datagram handler.
LEMMA UdpInv ==
    ASSUME Inv, Udp
    PROVE  Inv' /\ PortStep
<1>1. TypeOK /\ TypeOK' /\ worker \in WorkerType /\ NoLostRebind
  BY UdpType DEF Inv, TypeOK
<1>2. CASE UdpReadBegin \/ UdpReadEnd
  <2>1. /\ UNCHANGED <<creq, http, ctx>>
        /\ \/ worker' = [worker EXCEPT !.udp_read_active = TRUE]
           \/ worker' = [worker EXCEPT !.udp_read_active = FALSE]
        /\ frame'.kind # "timeout"
    <3>1. CASE UdpReadBegin
      BY <3>1 DEF UdpReadBegin, NoFrame
    <3>2. CASE UdpReadEnd
      BY <3>2 DEF UdpReadEnd, NoFrame
    <3>3. QED
      BY <1>2, <3>1, <3>2
  <2>2. /\ worker'.inflight = worker.inflight /\ worker'.udp_fd = worker.udp_fd
        /\ worker'.rebind_pending = worker.rebind_pending
        /\ worker'.rebind_scheduled = worker.rebind_scheduled
    BY <1>1, <2>1 DEF WorkerType
  <2>3. NoLostRebind' /\ FrameAlive'
    BY <1>1, <2>1, <2>2 DEF NoLostRebind, FrameAlive
  <2>4. Inv' /\ Live' = Live
    BY <1>1, <2>1, <2>2, <2>3, FlagStep
  <2>5. QED
    BY <2>2, <2>4 DEF PortStep, Port!vars, history, exchange
<1>3. ASSUME NEW h \in Handles, NEW c, UdpVerdict(h, c)
      PROVE  Inv' /\ PortStep
  <2> DEFINE u == creq[h].user
  <2>1. u \in Requests /\ http[u].phase = "suspended" /\ ctx[u].req = h
    BY <1>3 DEF UdpVerdict, Inv, Ownership, OwnsCallback, Live
  <2>2. /\ Retire(ctx[u].req) /\ RateCb(u, ctx[u].req, c[1], c[2])
    BY <1>3, <2>1 DEF UdpVerdict
  <2>3. frame'.kind # "timeout"
    <3>1. frame' = [frame EXCEPT !.r = u, !.left = @ - 1]
          /\ frame.left > 0 /\ frame.kind = "udp"
      BY <1>3 DEF UdpVerdict
    <3> HIDE DEF u
    <3>2. QED
      BY <1>1, <2>1, <3>1, FrameLeftType DEF TypeOK
  <2> HIDE DEF u
  <2>4. QED
    BY <1>1, <2>1, <2>2, <2>3, RateCbInv
<1>4. CASE UdpOther
  <2>1. frame' = [frame EXCEPT !.r = NoRequest, !.left = @ - 1]
        /\ frame.left > 0 /\ frame.kind = "udp"
        /\ UNCHANGED <<creq, http, ctx, worker>>
    BY <1>4 DEF UdpOther
  <2>2. frame'.kind # "timeout"
    BY <1>1, <2>1, FrameLeftType DEF TypeOK
  <2>3. NoLostRebind' /\ FrameAlive'
    BY <1>1, <2>1, <2>2 DEF NoLostRebind, FrameAlive
  <2>4. Inv' /\ Live' = Live
    BY <1>1, <2>1, <2>3, FlagStep
  <2>5. QED
    BY <2>1, <2>4 DEF PortStep, Port!vars, history, exchange
<1>5. ASSUME NEW keep_port \in BOOLEAN, UdpSteering(keep_port)
      PROVE  Inv' /\ PortStep
  <2> DEFINE w == [worker EXCEPT !.rebind_pending = TRUE]
  <2>1. /\ w \in WorkerType /\ w.inflight = worker.inflight
        /\ w.udp_fd = worker.udp_fd /\ w.rebind_pending = TRUE
    BY <1>1 DEF WorkerType
  <2>2. /\ UNCHANGED <<creq, http, ctx, frame>> /\ frame.kind = "udp"
        /\ worker' = worker \/ worker' = ScheduleRebind(w)
    BY <1>5 DEF UdpSteering
  <2> HIDE DEF w
  <2>3. /\ worker'.inflight = worker.inflight /\ worker'.udp_fd = worker.udp_fd
        /\ worker'.rebind_pending = worker.rebind_pending
              \/ worker'.rebind_pending = TRUE
        /\ NoLostRebind'
    BY <1>1, <2>1, <2>2, ScheduleRebindType DEF NoLostRebind
  <2>4. FrameAlive'
    BY <2>2 DEF FrameAlive
  <2>5. Inv' /\ Live' = Live
    BY <1>1, <2>2, <2>3, <2>4, FlagStep
  <2>6. PortStep
    BY <2>3, <2>5 DEF PortStep, Port!vars, history, exchange, Port!Next, Port!Ask
  <2>7. QED
    BY <2>5, <2>6
<1>6. QED
  BY <1>2, <1>3, <1>4, <1>5 DEF Udp

\* The timer handler.
LEMMA TimeoutInv ==
    ASSUME Inv, Timeout
    PROVE  Inv' /\ PortStep
<1>1. TypeOK /\ TypeOK' /\ worker \in WorkerType /\ NoLostRebind
      /\ FrameAlive
  BY TimeoutType DEF Inv, TypeOK
<1>2. ASSUME NEW r \in Requests, TimeoutEarly(r)
      PROVE  Inv' /\ PortStep
  <2>1. UNCHANGED vars
    BY <1>2 DEF TimeoutEarly
  <2>2. UNCHANGED <<creq, http, ctx, worker, frame>>
    BY <2>1 DEF vars, history, exchange
  <2>3. NoLostRebind' /\ FrameAlive'
    BY <1>1, <2>2 DEF NoLostRebind, FrameAlive, Live
  <2>4. Inv' /\ Live' = Live
    BY <1>1, <2>2, <2>3, FlagStep
  <2>5. QED
    BY <2>2, <2>4 DEF PortStep, Port!vars, history, exchange
<1>3. ASSUME NEW r \in Requests, NEW c, TimeoutCompletes(r, c)
      PROVE  Inv' /\ PortStep
  <2>1. http[r].phase = "suspended" /\ OwnsCallback(r, ctx[r].req)
    BY <1>3 DEF TimeoutCompletes, Inv, HoldsWhileSuspended, OwnsCallback
  <2>2. /\ Retire(ctx[r].req) /\ RateCb(r, ctx[r].req, c[1], c[2])
        /\ frame' = [NoFrame EXCEPT !.kind = "timeout", !.r = r,
                       !.h = ctx[r].req,
                       !.completed = ToldCompleted(r, ctx[r].req)]
    BY <1>3 DEF TimeoutCompletes
  <2>3. frame'.completed
    BY <2>1, <2>2 DEF ToldCompleted, NoFrame
  <2>4. QED
    BY <1>1, <2>1, <2>2, <2>3, RateCbInv
<1>4. ASSUME NEW r \in Requests, NEW rc \in {"OK", "ERROR"},
             TimeoutContinues(r, rc)
      PROVE  Inv' /\ PortStep
  <2> DEFINE h == ctx[r].req
             c == [ctx[r] EXCEPT !.timer = FALSE]
  <2>1. http[r].phase = "suspended" /\ h \in Handles /\ h \in Live
    BY <1>4 DEF TimeoutContinues, Inv, HoldsWhileSuspended
  <2>2. /\ ctx' = [ctx EXCEPT ![r] = c] /\ UNCHANGED <<http, worker>>
        /\ frame' = [NoFrame EXCEPT !.kind = "timeout", !.r = r, !.h = h,
                                     !.rc = rc]
    BY <1>4 DEF TimeoutContinues
  <2>3. /\ c.r = ctx[r].r /\ c.worker = ctx[r].worker /\ c.req = ctx[r].req
        /\ c.waiting = ctx[r].waiting /\ c.done = ctx[r].done
        /\ c.inflight_counted = ctx[r].inflight_counted
        /\ c.nginx_counted = ctx[r].nginx_counted
    <3>1. ctx[r] \in CtxType
      BY <1>1 DEF TypeOK
    <3>2. QED
      BY <3>1 DEF CtxType
  <2>4. \A k \in Handles : /\ creq'[k].live = creq[k].live
                            /\ creq'[k].user = creq[k].user
                            /\ creq'[k].src \in {creq[k].src, worker.udp_fd}
    <3>1. CASE rc = "OK"
      <4>1. creq' = [creq EXCEPT ![h] = Replayed(creq[h])]
            /\ creq[h].rounds > 0
        BY <1>4, <3>1 DEF TimeoutContinues
      <4> HIDE DEF h
      <4>2. creq[h] \in CreqType /\ worker.udp_fd \in Nat
        BY <1>1, <2>1 DEF TypeOK, WorkerType
      <4>3. /\ Replayed(creq[h]).live = creq[h].live
            /\ Replayed(creq[h]).user = creq[h].user
            /\ Replayed(creq[h]).src = worker.udp_fd
        BY <4>1, <4>2, ReplayedType
      <4>4. QED
        BY <1>1, <2>1, <4>1, <4>3 DEF TypeOK
    <3>2. CASE rc # "OK"
      BY <1>4, <3>2 DEF TimeoutContinues
    <3>3. QED
      BY <3>1, <3>2
  <2>5. FrameAlive'
    <3>1. frame'.r = r /\ frame'.h = h
      BY <2>2 DEF NoFrame
    <3>2. ctx'[r].req = h /\ http'[r].phase = "suspended"
      BY <1>1, <2>1, <2>2, <2>3 DEF TypeOK
    <3>3. h \in Live'
      BY <2>1, <2>4 DEF Live
    <3> HIDE DEF h
    <3>4. QED
      BY <3>1, <3>2, <3>3 DEF FrameAlive
  <2> HIDE DEF c, h
  <2>6. QED
    BY <1>1, <2>1, <2>2, <2>3, <2>4, <2>5, TimerStep
<1>5. CASE TimeoutReturn
  <2>1. UNCHANGED <<creq, http, ctx, worker>> /\ frame'.kind # "timeout"
    BY <1>5 DEF TimeoutReturn, NoFrame
  <2>2. NoLostRebind' /\ FrameAlive'
    BY <1>1, <2>1 DEF NoLostRebind, FrameAlive
  <2>3. Inv' /\ Live' = Live
    BY <1>1, <2>1, <2>2, FlagStep
  <2>4. QED
    BY <2>1, <2>3 DEF PortStep, Port!vars, history, exchange
<1>6. CASE TimeoutRearm
  <2> DEFINE r == frame.r
             c == [ctx[r] EXCEPT !.timer = TRUE]
  <2>1. r \in Requests /\ http[r].phase = "suspended"
    BY <1>1, <1>6 DEF TimeoutRearm, TypeOK, FrameAlive
  <2>2. /\ ctx' = [ctx EXCEPT ![r] = c] /\ UNCHANGED <<http, worker, creq>>
        /\ frame'.kind # "timeout"
    BY <1>6 DEF TimeoutRearm, NoFrame
  <2> HIDE DEF r
  <2>3. /\ c.r = ctx[r].r /\ c.worker = ctx[r].worker /\ c.req = ctx[r].req
        /\ c.waiting = ctx[r].waiting /\ c.done = ctx[r].done
        /\ c.inflight_counted = ctx[r].inflight_counted
        /\ c.nginx_counted = ctx[r].nginx_counted
    <3>1. ctx[r] \in CtxType
      BY <1>1, <2>1 DEF TypeOK
    <3>2. QED
      BY <3>1 DEF CtxType
  <2>4. FrameAlive'
    BY <2>2 DEF FrameAlive
  <2> HIDE DEF c
  <2>5. QED
    BY <1>1, <2>1, <2>2, <2>3, <2>4, TimerStep
<1>7. CASE TimeoutFails
  <2>1. /\ frame.r \in Requests /\ http[frame.r].phase = "suspended"
        /\ frame.h = ctx[frame.r].req
    BY <1>1, <1>7 DEF TimeoutFails, TypeOK, FrameAlive
  <2>2. /\ Retire(ctx[frame.r].req)
        /\ RateCb(frame.r, ctx[frame.r].req, "ERROR", NoResult)
    BY <1>7, <2>1 DEF TimeoutFails
  <2>3. frame'.completed
    BY <1>1, <1>7 DEF TimeoutFails, TypeOK, FrameType
  <2>4. QED
    BY <1>1, <2>1, <2>2, <2>3, RateCbInv
<1>8. QED
  BY <1>2, <1>3, <1>4, <1>5, <1>6, <1>7 DEF Timeout

\* The rebind timer.
LEMMA RebindInv ==
    ASSUME Inv, NEW opened \in BOOLEAN, RebindHandler(opened)
    PROVE  Inv' /\ PortStep
<1>1. TypeOK /\ worker \in WorkerType /\ frame.kind # "timeout"
      /\ UNCHANGED <<mcf, creq, http, ctx, frame, answer, sent, reported, fate>>
      /\ worker' = AfterRebindTimer(worker, opened)
  BY DEF Inv, TypeOK, RebindHandler, Idle, history, exchange
<1>2. TypeOK'
  BY <1>1, AfterRebindTimerType DEF TypeOK
<1>3. /\ worker'.inflight = worker.inflight
      /\ \/ /\ worker'.udp_fd = worker.udp_fd
            /\ worker'.rebind_pending = worker.rebind_pending
         \/ /\ worker'.udp_fd = worker.udp_fd + 1 /\ ~worker'.rebind_pending
            /\ worker.rebind_pending /\ worker.inflight = 0
      /\ NoLostRebind' /\ FrameAlive'
  BY <1>1, AfterRebindTimerType DEF NoLostRebind, FrameAlive
<1>4. Inv' /\ Live' = Live
  BY <1>1, <1>2, <1>3, FlagStep
<1>5. PortStep
  <2>1. CASE /\ worker'.udp_fd = worker.udp_fd
             /\ worker'.rebind_pending = worker.rebind_pending
    BY <1>4, <2>1 DEF PortStep, Port!vars, history, exchange
  <2>2. CASE /\ worker'.udp_fd = worker.udp_fd + 1 /\ ~worker'.rebind_pending
             /\ worker.rebind_pending /\ worker.inflight = 0
    <3>1. Live = {}
      BY <2>2, LiveFinite DEF Inv, InflightExact
    <3>2. worker'.rebind_pending = FALSE
      BY <1>2, <2>2 DEF TypeOK, WorkerType
    <3>3. Port!Change
      BY <1>4, <2>2, <3>1, <3>2 DEF Port!Change
    <3>4. QED
      BY <3>3 DEF PortStep, Port!Next
  <2>3. QED
    BY <1>3, <2>1, <2>2
<1>6. QED
  BY <1>4, <1>5

\* The inductive invariant holds initially.
LEMMA InvInit ==
    ASSUME Init
    PROVE  Inv /\ Port!Init
<1>1. TypeOK
  BY TypeInit
<1>2. Live = {}
  BY DEF Init, Live, DeadReq
<1>3. \A r \in Requests : http[r] = NoHttp /\ ctx[r] = NullCtx
  BY DEF Init
<1>0. NoHttp.phase = "free" /\ Unencumbered(NullCtx)
  BY DEF NoHttp, NullCtx, Unencumbered
<1>4. HoldsWhileSuspended
  BY <1>3, <1>0 DEF HoldsWhileSuspended, Unencumbered
<1>5. Ownership /\ SameSourcePort
  BY <1>2, <1>3 DEF Ownership, SameSourcePort, NullCtx
<1>6. InflightExact
  BY <1>2, FS_EmptySet DEF InflightExact, Init, FreshWorker
<1>7. NoLostRebind /\ FrameAlive
  BY DEF NoLostRebind, FrameAlive, Init, FreshWorker, NoFrame
<1>8. CountBalanced
  BY <1>3, <1>0 DEF CountBalanced
<1>9. Port!Init
  BY <1>2 DEF Port!Init, Init, FreshWorker
<1>10. QED
  BY <1>1, <1>4, <1>5, <1>6, <1>7, <1>8, <1>9 DEF Inv

\* Every step keeps the inductive invariant.
LEMMA InvStep ==
    ASSUME Inv, [Next]_vars
    PROVE  Inv' /\ PortStep
<1>1. CASE UNCHANGED vars
  <2>1. UNCHANGED <<creq, http, ctx, worker, frame>> /\ TypeOK'
    BY <1>1 DEF vars, history, exchange, Inv, TypeOK
  <2>2. NoLostRebind' /\ FrameAlive'
    BY <2>1 DEF Inv, NoLostRebind, FrameAlive, Live
  <2>3. Inv' /\ Live' = Live
    BY <2>1, <2>2, FlagStep
  <2>4. QED
    BY <2>1, <2>3 DEF PortStep, Port!vars, history, exchange
<1>2. QED
  BY <1>1, HandlerInv, NginxInv, UdpInv, TimeoutInv, RebindInv DEF Next

\* The inductive invariant holds throughout.
LEMMA Invariant == Spec => []Inv
<1>1. Init => Inv
  BY InvInit
<1>2. Inv /\ [Next]_vars => Inv'
  BY InvStep
<1>3. QED
  BY <1>1, <1>2, PTL DEF Spec

(***************************************************************************)
(* The theorems.                                                           *)
(***************************************************************************)

\* rn_rate_cb always finds the request a live check belongs to, and no context
\* keeps a handle the client has released, although addresses are reused.
THEOREM OwnershipHolds == Spec => []Ownership
<1>1. Inv => Ownership
  BY DEF Inv
<1>2. QED
  BY <1>1, Invariant, PTL

\* The worker's counter is the number of checks the client really runs.
THEOREM InflightHolds == Spec => []InflightExact
<1>1. Inv => InflightExact
  BY DEF Inv
<1>2. QED
  BY <1>1, Invariant, PTL

\* A requested source-port change never waits for a timer nobody armed.
THEOREM RebindNotLost == Spec => []NoLostRebind
<1>1. Inv => NoLostRebind
  BY DEF Inv
<1>2. QED
  BY <1>1, Invariant, PTL

\* A rebind never takes the source socket away from a check in flight.
THEOREM SourcePortKept == Spec => []SameSourcePort
<1>1. Inv => SameSourcePort
  BY DEF Inv
<1>2. QED
  BY <1>1, Invariant, PTL

\* A suspended request holds all its resources, any other none; so nothing
\* outside a request refers to it once it is closed.
THEOREM ResourcesHeld == Spec => []HoldsWhileSuspended
<1>1. Inv => HoldsWhileSuspended
  BY DEF Inv
<1>2. QED
  BY <1>1, Invariant, PTL

\* The reference the module takes on a suspended request is given back once.
THEOREM CountHolds == Spec => []CountBalanced
<1>1. Inv => CountBalanced
  BY DEF Inv
<1>2. QED
  BY <1>1, Invariant, PTL

\* rn_request_timeout_handler never touches a freed context after
\* r_client_on_timeout returned.
THEOREM FrameHolds == Spec => []FrameAlive
<1>1. Inv => FrameAlive
  BY DEF Inv
<1>2. QED
  BY <1>1, Invariant, PTL

\* The counter, the flags and the deferred timer implement the abstract
\* promise about the source port, step by step.
THEOREM SourcePortRefinement == Spec => ImplementsSourcePort
<1>1. Init => Port!Init
  BY InvInit
<1>2. Inv /\ [Next]_vars => [Port!Next]_(Port!vars)
  BY InvStep DEF PortStep
<1>3. QED
  BY <1>1, <1>2, Invariant, PTL DEF Spec, ImplementsSourcePort, Port!Spec

(***************************************************************************)
(* The decisions: one check and one decision for every request, where the  *)
(* decision comes from, what it admits and what it lets be reported, and   *)
(* that the detailed model implements Admission.  They rest on Inv, which  *)
(* says what a request holds, and need an invariant of their own, request  *)
(* by request.                                                             *)
(***************************************************************************)

\* nginx is at work on the request and has not run its cleanup yet.
Active(q) == q.phase \notin {"free", "closing"}

\* The decision of a context and its outcome say the same.
Agree(decision, outcome) ==
    \/ decision = "OK" /\ outcome \in {"VALID_ALLOW", "FAIL_OPEN"}
    \/ decision = "429" /\ outcome \in {"VALID_DENY", "FAIL_CLOSE"}
    \/ decision = "500" /\ outcome = "INTERNAL_ERROR"
    \/ decision = "DECLINED" /\ outcome = "NONE"

\* A registered context is decided unless it waits; without a registered
\* context nothing was asked, and only the request that was just refused for
\* want of memory finds one in its slot.
Registered(q, c, a, s) ==
    /\ ~Active(q) => ~q.cln
    /\ q.phase = "resumed" => q.cln
    /\ q.phase = "suspended" => c.outcome = "WAITING" /\ a = "none"
    /\ Active(q) /\ q.cln /\ q.phase # "suspended" =>
          c.r /\ c.done /\ Agree(c.decision, c.outcome)
    /\ Active(q) /\ ~q.cln =>
          /\ s = 0 /\ a = "none" /\ c.outcome \in {"NONE", "INTERNAL_ERROR"}
          /\ q.phase # "rejected" => ~q.slot

\* The outcome of a context tells what the server and the policy said.
Truthful(c, a, s, open) ==
    /\ (c.outcome = "VALID_ALLOW") <=> (a = "allow")
    /\ (c.outcome = "VALID_DENY") <=> (a = "deny")
    /\ c.outcome = "FAIL_OPEN" => open
    /\ c.outcome = "NONE" => s = 0

\* The content of a protected location is reached only with a decision that
\* admits, and a registered context refuses only with one that does not.
Guarded(q, c) ==
    /\ q.phase = "content" /\ Conf[q.loc].enabled =>
          q.cln /\ c.decision \in {"OK", "DECLINED"}
    /\ q.phase = "rejected" /\ q.cln => c.decision \notin {"OK", "DECLINED"}

\* A report is sent last, for a request whose outcome allows it.
Reported(q, a, s, rep, open) ==
    rep => /\ q.phase = "free"
           /\ a # "deny"
           /\ s > 0 /\ a = "none" => open

Told(q, c, a, s, rep, open) ==
    /\ s <= 1
    /\ Registered(q, c, a, s)
    /\ q.phase # "free" => Truthful(c, a, s, open)
    /\ Guarded(q, c)
    /\ Reported(q, a, s, rep, open)

Sound(r) == Told(http[r], ctx[r], answer[r], sent[r], reported[r], mcf.fail_open)

AllSound == \A r \in Requests : Sound(r)

(***************************************************************************)
(* What the completion says                                                *)
(***************************************************************************)

\* An answer of the right shape is the all-clear answer exactly when rn_rate_cb
\* finds no reason to refuse.
LEMMA AllClear ==
    ASSUME NEW g \in Nat, NEW n \in Nat, NEW result \in ResultType,
           Len(result.guards) = g, Len(result.resources) = n
    PROVE  Allowed(result) <=>
             result = Result(TRUE, [i \in 1..g |-> TRUE], [i \in 1..n |-> 0])
<1>1. /\ result.present = TRUE /\ result.success \in BOOLEAN
      /\ result.guards \in [1..g -> BOOLEAN]
      /\ result.resources \in [1..n -> Nat]
  BY LenProperties DEF ResultType
<1>2. ASSUME Allowed(result)
      PROVE  /\ result.success = TRUE
             /\ result.guards = [i \in 1..g |-> TRUE]
             /\ result.resources = [i \in 1..n |-> 0]
  BY <1>1, <1>2 DEF Allowed
<1>3. ASSUME /\ result.success = TRUE
             /\ result.guards = [i \in 1..g |-> TRUE]
             /\ result.resources = [i \in 1..n |-> 0]
      PROVE  Allowed(result)
  BY <1>3 DEF Allowed
<1>4. ASSUME NEW gs, NEW rs
      PROVE  result = Result(TRUE, gs, rs) <=>
               /\ result.success = TRUE
               /\ result.guards = gs /\ result.resources = rs
  BY <1>1 DEF Result, ResultType
<1>5. QED
  BY <1>2, <1>3, <1>4

\* What rn_rate_cb makes of a completion is what the server said.
LEMMA DecisionIsAnswer ==
    ASSUME TypeOK, NEW r \in Requests, NEW status \in Statuses,
           NEW result \in ResultType \cup {NoResult}
    PROVE  LET d == RateDecision(mcf.fail_open, ctx[r].guards,
                                 ctx[r].resources, status, result)
               a == AnswerOf(r, status, result)
           IN  /\ (d.outcome = "VALID_ALLOW") <=> (a = "allow")
               /\ (d.outcome = "VALID_DENY") <=> (a = "deny")
               /\ a \in {"none", "allow", "deny"}
               /\ d.outcome = "FAIL_OPEN" => mcf.fail_open
               /\ d.outcome # "NONE"
               /\ Agree(d.code, d.outcome)
<1> DEFINE g == ctx[r].guards
           n == ctx[r].resources
           d == RateDecision(mcf.fail_open, g, n, status, result)
           a == AnswerOf(r, status, result)
<1>1. g \in Nat /\ n \in Nat /\ mcf.fail_open \in BOOLEAN
  BY DEF TypeOK, CtxType
<1>2. CASE status # "OK" \/ ~result.present
  <2>1. a = "none"
    BY <1>2 DEF AnswerOf
  <2>2. d.outcome = FailOutcome(mcf.fail_open) /\ d.code = FailCode(mcf.fail_open)
    BY <1>2 DEF RateDecision
  <2>3. QED
    BY <1>1, <2>1, <2>2 DEF FailOutcome, FailCode, Agree
<1>3. CASE status = "OK" /\ result.present
  <2>1. result \in ResultType
    BY <1>3 DEF NoResult
  <2>2. CASE CardinalityMismatch(result, g, n)
    <3>1. a = "none"
      BY <1>3, <2>2 DEF AnswerOf, CardinalityMismatch
    <3>2. d.outcome = FailOutcome(mcf.fail_open)
          /\ d.code = FailCode(mcf.fail_open)
      BY <1>3, <2>2 DEF RateDecision
    <3>3. QED
      BY <1>1, <3>1, <3>2 DEF FailOutcome, FailCode, Agree
  <2>3. CASE ~CardinalityMismatch(result, g, n)
    <3>1. Len(result.guards) = g /\ Len(result.resources) = n
      BY <2>3 DEF CardinalityMismatch
    <3>2. a = IF Allowed(result) THEN "allow" ELSE "deny"
      BY <1>1, <1>3, <2>1, <3>1, AllClear DEF AnswerOf
    <3>3. CASE Allowed(result)
      BY <1>3, <2>3, <3>2, <3>3 DEF RateDecision, Agree
    <3>4. CASE ~Allowed(result)
      BY <1>3, <2>3, <3>2, <3>4 DEF RateDecision, Agree
    <3>5. QED
      BY <3>3, <3>4
  <2>4. QED
    BY <2>2, <2>3
<1>4. QED
  BY <1>2, <1>3

(***************************************************************************)
(* Steps that touch one request                                            *)
(***************************************************************************)

\* What the abstract specification allows to happen to a request.
Permitted(r) ==
    \/ UNCHANGED <<verdictOf(r), servedOf(r)>>
    \/ verdictOf(r) = "none" /\ verdictOf(r)' = "undecided"
       /\ UNCHANGED servedOf(r)
    \/ verdictOf(r) = "undecided" /\ verdictOf(r)' = "asking"
       /\ UNCHANGED servedOf(r)
    \/ /\ verdictOf(r) \in {"undecided", "asking"}
       /\ verdictOf(r)' \in Adm!Decisions
       /\ servedOf(r)' => verdictOf(r)' = "admitted"
    \/ /\ verdictOf(r) \in {"admitted", "exempt"} /\ UNCHANGED verdictOf(r)
       /\ servedOf(r)'
    \/ UNCHANGED verdictOf(r) /\ ~servedOf(r)'
    \/ verdictOf(r)' = "none" /\ ~servedOf(r)'

AdmissionStep == [Adm!Next]_(Adm!vars)

\* What is to be shown of every step.
Kept ==
    /\ AllSound'
    /\ AdmissionStep
    /\ \A r \in Requests : DecisionStep(r)

\* The request that a step touches.
KeptFor(r) == Sound(r)' /\ Permitted(r) /\ DecisionStep(r)

\* A permitted change of one request is a step of the abstract specification.
LEMMA OneRequestAdmission ==
    ASSUME TypeOK', NEW r \in Requests, Permitted(r),
           \A s \in Requests \ {r} :
              UNCHANGED <<verdictOf(s), servedOf(s)>>
    PROVE  AdmissionStep
<1> DEFINE V == [s \in Requests |-> verdictOf(s)]
           S == [s \in Requests |-> servedOf(s)]
<1>1. V' = [V EXCEPT ![r] = verdictOf(r)'] /\ S' = [S EXCEPT ![r] = servedOf(r)']
  OBVIOUS
<1>2. UNCHANGED verdictOf(r) => V' = V
  BY <1>1
<1>3. UNCHANGED servedOf(r) => S' = S
  BY <1>1
<1>4. servedOf(r)' \in BOOLEAN
  BY ConstantsAssumption DEF servedOf, lcf, TypeOK, HttpType
<1>5. V[r] = verdictOf(r)
  OBVIOUS
<1>6. CASE UNCHANGED <<verdictOf(r), servedOf(r)>>
  BY <1>2, <1>3, <1>6 DEF AdmissionStep, Adm!vars
<1>7. CASE verdictOf(r) = "none" /\ verdictOf(r)' = "undecided"
           /\ UNCHANGED servedOf(r)
  BY <1>1, <1>3, <1>5, <1>7 DEF AdmissionStep, Adm!Next, Adm!Open
<1>8. CASE verdictOf(r) = "undecided" /\ verdictOf(r)' = "asking"
           /\ UNCHANGED servedOf(r)
  BY <1>1, <1>3, <1>5, <1>8 DEF AdmissionStep, Adm!Next, Adm!Ask
<1>9. CASE /\ verdictOf(r) \in {"undecided", "asking"}
           /\ verdictOf(r)' \in Adm!Decisions
           /\ servedOf(r)' => verdictOf(r)' = "admitted"
  <2>1. Adm!Decide(r, verdictOf(r)', servedOf(r)')
    BY <1>1, <1>5, <1>9 DEF Adm!Decide
  <2>2. QED
    BY <1>4, <1>9, <2>1 DEF AdmissionStep, Adm!Next
<1>10. CASE /\ verdictOf(r) \in {"admitted", "exempt"} /\ UNCHANGED verdictOf(r)
            /\ servedOf(r)'
  <2>1. servedOf(r)' = TRUE
    BY <1>4, <1>10
  <2>2. Adm!Serve(r)
    BY <1>1, <1>2, <1>5, <1>10, <2>1 DEF Adm!Serve
  <2>3. QED
    BY <2>2 DEF AdmissionStep, Adm!Next
<1>11. CASE UNCHANGED verdictOf(r) /\ ~servedOf(r)'
  <2>1. servedOf(r)' = FALSE
    BY <1>4, <1>11
  <2>2. Adm!Leave(r)
    BY <1>1, <1>2, <1>11, <2>1 DEF Adm!Leave
  <2>3. QED
    BY <2>2 DEF AdmissionStep, Adm!Next
<1>12. CASE verdictOf(r)' = "none" /\ ~servedOf(r)'
  <2>1. servedOf(r)' = FALSE
    BY <1>4, <1>12
  <2>2. Adm!Close(r)
    BY <1>1, <1>12, <2>1 DEF Adm!Close
  <2>3. QED
    BY <2>2 DEF AdmissionStep, Adm!Next
<1>13. QED
  BY <1>6, <1>7, <1>8, <1>9, <1>10, <1>11, <1>12 DEF Permitted

\* What one request does leaves the others alone.
LEMMA OneRequest ==
    ASSUME TypeOK', AllSound, NEW r \in Requests, KeptFor(r),
           \A s \in Requests \ {r} :
              UNCHANGED <<http[s], ctx[s], answer[s], sent[s], reported[s]>>,
           mcf'.fail_open = mcf.fail_open
    PROVE  Kept
<1>1. ASSUME NEW s \in Requests \ {r}
      PROVE  Sound(s)' /\ DecisionStep(s)
             /\ UNCHANGED <<verdictOf(s), servedOf(s)>>
  <2>1. UNCHANGED <<http[s], ctx[s], answer[s], sent[s], reported[s]>>
    BY <1>1
  <2>2. Sound(s)'
    BY <2>1 DEF AllSound, Sound
  <2>3. DecisionStep(s)
    BY <2>1 DEF DecisionStep
  <2>4. UNCHANGED <<verdictOf(s), servedOf(s)>>
    BY <2>1 DEF verdictOf, servedOf, lcf
  <2>5. QED
    BY <2>2, <2>3, <2>4
<1>2. AdmissionStep
  BY <1>1, OneRequestAdmission DEF KeptFor
<1>3. QED
  BY <1>1, <1>2 DEF Kept, AllSound, KeptFor

\* A step that no request notices.
LEMMA NoRequestNotices ==
    ASSUME AllSound, UNCHANGED <<http, ctx, answer, sent, reported>>,
           mcf'.fail_open = mcf.fail_open
    PROVE  Kept
<1>1. AllSound'
  BY DEF AllSound, Sound
<1>2. UNCHANGED [s \in Requests |-> verdictOf(s)]
  BY DEF verdictOf
<1>3. UNCHANGED [s \in Requests |-> servedOf(s)]
  BY DEF servedOf, lcf
<1>4. AdmissionStep
  BY <1>2, <1>3 DEF AdmissionStep, Adm!vars
<1>5. QED
  BY <1>1, <1>4 DEF Kept, DecisionStep

\* A request that starts anew has no registered context: it has never asked.
LEMMA FreshUnregistered ==
    ASSUME Inv, NEW r \in Requests, Sound(r), HandlerFresh(r)
    PROVE  /\ http[r].phase = "routing" /\ http[r].cln = FALSE
           /\ http[r].slot = FALSE /\ Found(r) = FALSE
           /\ sent[r] = 0 /\ answer[r] = "none" /\ reported[r] = FALSE
           /\ verdictOf(r) = "undecided" /\ ~servedOf(r)
<1>1. http[r] \in HttpType /\ ctx[r] \in CtxType /\ reported[r] \in BOOLEAN
  BY DEF Inv, TypeOK
<1>2. http[r].phase \in {"routing", "resumed"}
  BY FreshUnsuspended
<1>3. ~http[r].cln
  BY <1>1, <1>2 DEF Sound, Told, Registered, Active, HandlerFresh, Found
<1>4. /\ http[r].phase = "routing" /\ ~http[r].slot
      /\ sent[r] = 0 /\ answer[r] = "none" /\ ~reported[r]
  BY <1>2, <1>3 DEF Sound, Told, Registered, Active, Reported
<1>5. QED
  BY <1>1, <1>3, <1>4 DEF Found, verdictOf, servedOf, HttpType

\* The fields of a fresh context.
LEMMA FreshFields ==
    ASSUME TypeOK, NEW r \in Requests, NEW h \in Handles \cup {NoHandle},
           NEW built \in BOOLEAN, NEW known \in BOOLEAN
    PROVE  /\ LET n == NewCtx(r)
              IN  /\ n \in CtxType /\ n.r = TRUE /\ ~n.waiting
                  /\ n.decision = "DECLINED"
                  /\ n.outcome = IF lcf(r).enabled THEN FailOutcome(mcf.fail_open)
                                                   ELSE "NONE"
           /\ LET n == WorkerCtx(r, built)
              IN  /\ n \in CtxType /\ n.r = TRUE /\ ~n.waiting
                  /\ n.decision = "DECLINED"
                  /\ n.outcome = IF lcf(r).enabled THEN FailOutcome(mcf.fail_open)
                                                   ELSE "NONE"
           /\ LET n == StartedCtx(r, h, built, known)
              IN  /\ n \in CtxType /\ n.r = TRUE /\ n.waiting /\ ~n.done
                  /\ n.outcome = "WAITING"
<1> DEFINE n == NewCtx(r)
           w == WorkerCtx(r, built)
           c == StartedCtx(r, h, built, known)
<1>1. n \in CtxType /\ w \in CtxType /\ c \in CtxType /\ ~w.waiting /\ ~n.waiting
      /\ c.r /\ c.waiting /\ ~c.done
  BY HandlerCtxType, HandlerCtxHolds DEF Unencumbered
<1>2. n.r = TRUE /\ n.decision = "DECLINED"
      /\ n.outcome = IF lcf(r).enabled THEN FailOutcome(mcf.fail_open) ELSE "NONE"
  BY DEF NewCtx, NullCtx
<1>3. w = [n EXCEPT !.worker = TRUE,
             !.lat_report_enabled = lcf(r).report_enabled /\ built]
  BY DEF WorkerCtx
<1>4. c = [w EXCEPT !.guards = lcf(r).guards, !.resources = lcf(r).resources,
             !.req = h, !.inflight_counted = TRUE, !.timer = known,
             !.waiting = TRUE, !.outcome = "WAITING", !.nginx_counted = TRUE]
  BY DEF StartedCtx
<1> HIDE DEF n, w, c
<1>5. w.r = TRUE /\ w.decision = "DECLINED" /\ w.outcome = n.outcome
  BY <1>1, <1>2, <1>3 DEF CtxType
<1>6. c.r = TRUE /\ c.outcome = "WAITING"
  BY <1>1, <1>4 DEF CtxType
<1>7. QED
  BY <1>1, <1>2, <1>5, <1>6 DEF n, w, c

\* What a handler return does to nginx's side of the requests.
LEMMA ReturnFields ==
    ASSUME TypeOK, NEW r \in Requests, NEW code, NEW slot, NEW cln, NEW count,
           Return(r, code, slot, cln, count)
    PROVE  /\ http'[r].phase = PhaseAfter(code) /\ http'[r].slot = slot
           /\ http'[r].cln = cln /\ http'[r].loc = http[r].loc
           /\ \A s \in Requests \ {r} : http'[s] = http[s]
<1> DEFINE q == [http[r] EXCEPT !.phase = PhaseAfter(code), !.slot = slot,
                                !.cln = cln, !.count = count]
<1>1. http' = [http EXCEPT ![r] = q]
  BY DEF Return
<1>2. /\ q.phase = PhaseAfter(code) /\ q.slot = slot
      /\ q.cln = cln /\ q.loc = http[r].loc
  BY DEF TypeOK, HttpType
<1> HIDE DEF q
<1>3. QED
  BY <1>1, <1>2 DEF TypeOK

\* The same for a return that leaves a registered context in the slot.
LEMMA ReturnRegistered ==
    ASSUME TypeOK, NEW r \in Requests, NEW code, NEW count,
           Return(r, code, TRUE, TRUE, count)
    PROVE  /\ http'[r].phase = PhaseAfter(code) /\ http'[r].slot
           /\ http'[r].cln /\ http'[r].loc = http[r].loc
           /\ \A s \in Requests \ {r} : http'[s] = http[s]
<1> DEFINE q == [http[r] EXCEPT !.phase = PhaseAfter(code), !.slot = TRUE,
                                !.cln = TRUE, !.count = count]
<1>1. http' = [http EXCEPT ![r] = q]
  BY DEF Return
<1>2. q.phase = PhaseAfter(code) /\ q.slot /\ q.cln /\ q.loc = http[r].loc
  BY DEF TypeOK, HttpType
<1> HIDE DEF q
<1>3. QED
  BY <1>1, <1>2 DEF TypeOK

\* A decision taken before anything is waited for.
LEMMA DecidedAtOnce ==
    ASSUME Inv, TypeOK', NEW r \in Requests, Sound(r), HandlerFresh(r),
           NEW code \in Codes, NEW m \in Nat, NEW c \in CtxType,
           Return(r, code, TRUE, TRUE, m), ctx' = [ctx EXCEPT ![r] = c],
           c.r, c.done, ~c.waiting, c.decision = code,
           Agree(code, c.outcome),
           c.outcome \notin {"VALID_ALLOW", "VALID_DENY"},
           c.outcome = "FAIL_OPEN" => mcf.fail_open,
           c.outcome = "NONE" => sent'[r] = 0 /\ ~lcf(r).enabled,
           sent'[r] \in {0, 1}, UNCHANGED <<answer, reported>>,
           mcf'.fail_open = mcf.fail_open
    PROVE  KeptFor(r)
<1>0. TypeOK
  BY DEF Inv
<1> DEFINE q == http'[r]
<1>1. q.phase = PhaseAfter(code) /\ q.slot /\ q.cln /\ q.loc = http[r].loc
  BY <1>0, ReturnRegistered
<1>2. ctx'[r] = c
  BY DEF Inv, TypeOK
<1>3. /\ http[r].cln = FALSE /\ sent[r] = 0 /\ answer[r] = "none"
      /\ reported[r] = FALSE /\ verdictOf(r) = "undecided"
  BY FreshUnregistered
<1>4. q.phase = IF code \in {"OK", "DECLINED"} THEN "content" ELSE "rejected"
  BY <1>1 DEF PhaseAfter, Codes
<1>5. Sound(r)'
  <2>1. Registered(q, c, answer'[r], sent'[r])
    BY <1>1, <1>3, <1>4 DEF Registered, Active
  <2>2. Truthful(c, answer'[r], sent'[r], mcf'.fail_open)
    BY <1>3 DEF Truthful
  <2>3. Guarded(q, c)
    BY <1>1, <1>4 DEF Guarded
  <2>4. Reported(q, answer'[r], sent'[r], reported'[r], mcf'.fail_open)
    BY <1>3 DEF Reported
  <2>5. QED
    BY <1>2, <2>1, <2>2, <2>3, <2>4 DEF Sound, Told
<1>6. verdictOf(r)' = CASE code = "OK" -> "admitted"
                         [] code = "DECLINED" -> "exempt"
                         [] code \in {"429", "500"} -> "refused"
  BY <1>1, <1>2, <1>4 DEF verdictOf, Codes
<1>7. servedOf(r)' => code = "OK"
  BY <1>1, <1>2, <1>4 DEF servedOf, lcf, Agree
<1>8. Permitted(r)
  BY <1>3, <1>6, <1>7 DEF Permitted, Adm!Decisions, Codes
<1>9. DecisionStep(r)
  BY <1>3 DEF DecisionStep
<1>10. QED
  BY <1>5, <1>8, <1>9 DEF KeptFor

\* A step that changes nothing of a request but its place, its location and
\* its slot, and not whether a context is registered or waits.
LEMMA Moved ==
    ASSUME TypeOK, TypeOK', NEW r \in Requests, Sound(r),
           Active(http[r]), Active(http'[r]),
           http[r].phase # "suspended", http'[r].phase \notin {"suspended", "resumed"},
           http'[r].cln = http[r].cln,
           ~http[r].cln /\ http'[r].phase # "rejected" => ~http'[r].slot,
           http'[r].phase = "content" =>
              \/ ~Conf[http'[r].loc].enabled
              \/ http[r].cln /\ ctx[r].decision \in {"OK", "DECLINED"},
           http'[r].phase = "rejected" /\ http[r].cln =>
              ctx[r].decision \notin {"OK", "DECLINED"},
           ~ctx[r].waiting,
           ctx'[r] = ctx[r], UNCHANGED <<answer, sent, reported>>,
           mcf'.fail_open = mcf.fail_open
    PROVE  KeptFor(r)
<1>1. Registered(http'[r], ctx'[r], answer'[r], sent'[r])
  BY DEF Sound, Told, Registered, Active
<1>2. Truthful(ctx'[r], answer'[r], sent'[r], mcf'.fail_open)
  BY DEF Sound, Told, Truthful, Active
<1>3. Guarded(http'[r], ctx'[r])
  BY DEF Guarded
<1>4. Reported(http'[r], answer'[r], sent'[r], reported'[r], mcf'.fail_open)
  BY DEF Sound, Told, Reported, Active
<1>5. Sound(r)'
  BY <1>1, <1>2, <1>3, <1>4 DEF Sound, Told
<1>6. UNCHANGED verdictOf(r)
  BY DEF verdictOf, Active
<1>7. servedOf(r)' => verdictOf(r) \in {"admitted", "exempt"}
  BY DEF servedOf, lcf, verdictOf, Active
<1>8. Permitted(r)
  BY <1>6, <1>7 DEF Permitted
<1>9. QED
  BY <1>5, <1>8 DEF KeptFor, DecisionStep

\* Paths of the handler that keep the context as it is.
LEMMA HandlerPasses ==
    ASSUME Inv, TypeOK', AllSound, NEW r \in Requests,
           HandlerBypass(r) \/ HandlerReuse(r) \/ HandlerNoMemory(r)
    PROVE  Kept
<1>1. /\ TypeOK /\ http[r] \in HttpType /\ ctx[r] \in CtxType
      /\ Sound(r) /\ http[r].cln \in BOOLEAN /\ http[r].slot \in BOOLEAN
  BY DEF Inv, TypeOK, AllSound, HttpType
<1>2. UNCHANGED <<mcf, ctx, answer, sent, reported>>
  BY DEF HandlerBypass, HandlerReuse, HandlerNoMemory, history, exchange
<1>3. CASE http[r].phase = "suspended"
  <2>1. /\ ctx[r].waiting /\ ~ctx[r].done /\ http[r].slot /\ lcf(r).enabled
        /\ Found(r) /\ http[r].cln
    BY <1>3 DEF Inv, HoldsWhileSuspended, Found
  <2>2. Return(r, "AGAIN", TRUE, http[r].cln, http[r].count)
    BY <2>1 DEF HandlerBypass, HandlerReuse, HandlerNoMemory, HandlerFresh
  <2> DEFINE q == [http[r] EXCEPT !.phase = "suspended", !.slot = TRUE,
                     !.cln = http[r].cln, !.count = http[r].count]
  <2>3. http' = [http EXCEPT ![r] = q]
    BY <2>2 DEF Return, PhaseAfter
  <2>4. q = http[r]
    BY <1>1, <1>3, <2>1 DEF HttpType
  <2> HIDE DEF q
  <2>5. http' = http
    BY <1>1, <2>3, <2>4 DEF TypeOK
  <2>6. QED
    BY <1>2, <2>5, NoRequestNotices
<1>4. CASE http[r].phase # "suspended"
  <2>1. http[r].phase \in {"routing", "resumed"} /\ ~ctx[r].waiting
    BY <1>4 DEF HandlerBypass, HandlerReuse, HandlerNoMemory, HandlerFresh,
                HandlerCalled, Inv, HoldsWhileSuspended
  <2>2. ~http[r].cln => ~Found(r)
    BY <2>1, <1>1 DEF Sound, Told, Registered, Active, Found
  <2>3. PICK code \in Codes, slot \in BOOLEAN :
           /\ Return(r, code, slot, http[r].cln, http[r].count)
           /\ slot => Found(r)
           /\ code \in {"OK", "DECLINED"} =>
                \/ ~lcf(r).enabled
                \/ http[r].cln /\ ctx[r].decision \in {"OK", "DECLINED"}
           /\ code \notin {"OK", "DECLINED"} /\ http[r].cln =>
                ctx[r].decision \notin {"OK", "DECLINED"}
    <3>1. CASE HandlerBypass(r)
      <4>1. Return(r, "DECLINED", Found(r), http[r].cln, http[r].count)
            /\ ~lcf(r).enabled
        BY <3>1 DEF HandlerBypass
      <4>2. Found(r) \in BOOLEAN /\ "DECLINED" \in Codes
        BY <1>1 DEF Found, Codes, HttpType, CtxType
      <4>3. PICK found \in BOOLEAN : found = Found(r)
        BY <4>2
      <4>4. Return(r, "DECLINED", found, http[r].cln, http[r].count)
        BY <4>1, <4>3
      <4>5. QED
        BY <4>1, <4>2, <4>3, <4>4
    <3>2. CASE HandlerReuse(r)
      <4>1. ctx[r].done /\ ctx[r].decision \in Codes /\ Found(r)
        BY <1>1, <2>1, <3>2 DEF HandlerReuse, CtxType
      <4>2. Return(r, ctx[r].decision, TRUE, http[r].cln, http[r].count)
        BY <3>2, <4>1 DEF HandlerReuse
      <4>3. QED
        BY <2>2, <4>1, <4>2
    <3>3. CASE HandlerNoMemory(r)
      <4>1. Return(r, "500", Found(r), http[r].cln, http[r].count)
        BY <3>3 DEF HandlerNoMemory
      <4>2. Found(r) \in BOOLEAN /\ "500" \in Codes
        BY <1>1 DEF Found, Codes, HttpType, CtxType
      <4>3. ~http[r].cln
        BY <1>1, <3>3, FreshUnregistered DEF HandlerNoMemory
      <4>4. QED
        BY <4>1, <4>2, <4>3
    <3>4. QED
      BY <3>1, <3>2, <3>3
  <2>4. /\ http'[r].phase = PhaseAfter(code) /\ http'[r].slot = slot
        /\ http'[r].cln = http[r].cln /\ http'[r].loc = http[r].loc
        /\ \A s \in Requests \ {r} : http'[s] = http[s]
    BY <1>1, <2>3, ReturnFields
  <2>5. http'[r].phase = IF code \in {"OK", "DECLINED"} THEN "content"
                                                        ELSE "rejected"
    BY <2>3, <2>4 DEF PhaseAfter, Codes
  <2>6. KeptFor(r)
    BY <1>1, <1>2, <2>1, <2>2, <2>3, <2>4, <2>5, Moved DEF Active, lcf
  <2>7. QED
    BY <1>2, <2>4, <2>6, OneRequest
<1>5. QED
  BY <1>3, <1>4

\* Paths of the handler that decide at once, and the one that asks.
LEMMA HandlerKept ==
    ASSUME Inv, AllSound, NEW r \in Requests, Handler(r)
    PROVE  Kept
<1>1. /\ TypeOK /\ TypeOK' /\ http[r] \in HttpType /\ ctx[r] \in CtxType
      /\ Sound(r) /\ mcf \in [fail_open : BOOLEAN, worker : BOOLEAN]
      /\ http[r].count \in Nat
  BY HandlerType DEF Inv, TypeOK, AllSound, HttpType
<1>2. CASE HandlerBypass(r) \/ HandlerReuse(r) \/ HandlerNoMemory(r)
  BY <1>1, <1>2, HandlerPasses
<1>3. Published => mcf'.fail_open = mcf.fail_open
  BY <1>1 DEF Published
<1>4. ASSUME NEW c, ctx' = [ctx EXCEPT ![r] = c],
             \/ sent' = sent
             \/ sent' = [sent EXCEPT ![r] = @ + 1],
             HandlerFresh(r)
      PROVE  /\ \A s \in Requests \ {r} : UNCHANGED <<ctx[s], sent[s]>>
             /\ sent'[r] \in {0, 1}
             /\ sent' = sent => sent'[r] = 0
  <2>1. sent[r] = 0
    BY <1>1, <1>4, FreshUnregistered
  <2>2. QED
    BY <1>1, <1>4, <2>1 DEF TypeOK
<1>5. CASE HandlerNoCleanup(r)
  <2> DEFINE n == NewCtx(r)
             c == [n EXCEPT !.outcome = "INTERNAL_ERROR",
                            !.cause = "NGINX_ERROR", !.done = TRUE]
  <2>1. n \in CtxType /\ n.r = TRUE /\ ~n.waiting
    BY <1>1, FreshFields
  <2>2. /\ ctx' = [ctx EXCEPT ![r] = c] /\ HandlerFresh(r)
        /\ Return(r, "500", TRUE, http[r].cln, http[r].count)
        /\ UNCHANGED <<mcf, answer, sent, reported>>
    BY <1>5 DEF HandlerNoCleanup, history, exchange
  <2> HIDE DEF n
  <2>3. c.outcome = "INTERNAL_ERROR"
    BY <2>1 DEF CtxType
  <2> HIDE DEF c
  <2>4. /\ http[r].cln = FALSE /\ http[r].phase = "routing" /\ sent[r] = 0
        /\ answer[r] = "none" /\ verdictOf(r) = "undecided" /\ reported[r] = FALSE
    BY <1>1, <2>2, FreshUnregistered
  <2>5. /\ http'[r].phase = "rejected" /\ http'[r].cln = http[r].cln
        /\ \A s \in Requests \ {r} : http'[s] = http[s]
    <3> DEFINE q == [http[r] EXCEPT !.phase = "rejected", !.slot = TRUE,
                       !.cln = http[r].cln, !.count = http[r].count]
    <3>1. http' = [http EXCEPT ![r] = q]
      BY <2>2 DEF Return, PhaseAfter
    <3>2. q.phase = "rejected" /\ q.cln = http[r].cln
      BY <1>1 DEF HttpType
    <3> HIDE DEF q
    <3>3. QED
      BY <1>1, <3>1, <3>2 DEF TypeOK
  <2>6. ctx'[r] = c
    BY <1>1, <2>2 DEF TypeOK
  <2>7. Sound(r)'
    BY <2>2, <2>3, <2>4, <2>5, <2>6
       DEF Sound, Told, Registered, Active, Truthful, Guarded, Reported
  <2>8. Permitted(r)
    BY <2>4, <2>5 DEF Permitted, verdictOf, servedOf
  <2>9. KeptFor(r)
    BY <2>4, <2>7, <2>8 DEF KeptFor, DecisionStep
  <2>10. QED
    BY <1>1, <1>4, <2>2, <2>5, <2>9, OneRequest
<1>6. ASSUME NEW code \in Codes, NEW m \in Nat, NEW c \in CtxType,
             HandlerFresh(r), Return(r, code, TRUE, TRUE, m),
             ctx' = [ctx EXCEPT ![r] = c],
             c.r, c.done, ~c.waiting, c.decision = code,
             Agree(code, c.outcome),
             c.outcome \notin {"VALID_ALLOW", "VALID_DENY"},
             c.outcome = "FAIL_OPEN" => mcf.fail_open,
             c.outcome = "NONE" => sent' = sent /\ ~lcf(r).enabled,
             \/ sent' = sent
             \/ sent' = [sent EXCEPT ![r] = @ + 1],
             UNCHANGED <<answer, reported>>,
             mcf'.fail_open = mcf.fail_open
      PROVE  Kept
  <2>1. /\ \A s \in Requests \ {r} : UNCHANGED <<ctx[s], sent[s]>>
        /\ sent'[r] \in {0, 1}
        /\ sent' = sent => sent'[r] = 0
    BY <1>4, <1>6
  <2>2. KeptFor(r)
    BY <1>1, <1>6, <2>1, DecidedAtOnce
  <2>3. \A s \in Requests \ {r} : http'[s] = http[s]
    BY <1>1, <1>6, ReturnRegistered
  <2>4. QED
    BY <1>1, <1>6, <2>1, <2>2, <2>3, OneRequest
<1>7. CASE HandlerNoWorker(r)
  <2> DEFINE n == NewCtx(r)
             code == IF lcf(r).enabled THEN FailCode(mcf.fail_open)
                                       ELSE "DECLINED"
             c == [n EXCEPT !.done = TRUE, !.cause = "DEPENDENCY_ERROR",
                            !.decision = code]
  <2>1. /\ n \in CtxType /\ n.r = TRUE /\ ~n.waiting
        /\ n.outcome = IF lcf(r).enabled THEN FailOutcome(mcf.fail_open)
                                         ELSE "NONE"
    BY <1>1, FreshFields
  <2>2. /\ ctx' = [ctx EXCEPT ![r] = c] /\ HandlerFresh(r)
        /\ Return(r, code, TRUE, TRUE, http[r].count)
        /\ UNCHANGED <<mcf, answer, sent, reported>>
    BY <1>7 DEF HandlerNoWorker, history, exchange
  <2>3. code \in Codes
    BY DEF Codes, FailCode
  <2>4. /\ Agree(code, n.outcome) /\ n.outcome \notin {"VALID_ALLOW", "VALID_DENY"}
        /\ n.outcome = "FAIL_OPEN" => mcf.fail_open
        /\ n.outcome = "NONE" => ~lcf(r).enabled
    BY <2>1 DEF Agree, FailCode, FailOutcome
  <2> HIDE DEF n, code
  <2>5. /\ c \in CtxType /\ c.r /\ c.done /\ ~c.waiting /\ c.decision = code
        /\ c.outcome = n.outcome
    BY <2>1, <2>3 DEF CtxType, Causes
  <2> HIDE DEF c
  <2>6. QED
    BY <1>1, <1>6, <2>2, <2>3, <2>4, <2>5
<1>8. ASSUME NEW built \in BOOLEAN, HandlerReportOnly(r, built)
      PROVE  Kept
  <2> DEFINE n == WorkerCtx(r, built)
             c == [n EXCEPT !.done = TRUE]
  <2>1. /\ ctx' = [ctx EXCEPT ![r] = c] /\ HandlerFresh(r) /\ ~lcf(r).enabled
        /\ Return(r, "DECLINED", TRUE, TRUE, http[r].count)
        /\ mcf'.fail_open = mcf.fail_open /\ UNCHANGED <<answer, sent, reported>>
    BY <1>3, <1>8 DEF HandlerReportOnly, history, exchange
  <2>2. /\ n \in CtxType /\ n.r = TRUE /\ ~n.waiting /\ n.decision = "DECLINED"
        /\ n.outcome = "NONE"
    BY <1>1, <2>1, FreshFields
  <2> HIDE DEF n
  <2>3. /\ c \in CtxType /\ c.r /\ c.done /\ ~c.waiting
        /\ c.decision = "DECLINED" /\ c.outcome = "NONE"
    BY <2>2 DEF CtxType
  <2> HIDE DEF c
  <2>4. "DECLINED" \in Codes /\ Agree("DECLINED", c.outcome)
    BY <2>3 DEF Codes, Agree
  <2>5. QED
    BY <1>1, <1>6, <2>1, <2>3, <2>4
<1>9. ASSUME NEW built \in BOOLEAN,
             NEW cause \in {"DEPENDENCY_ERROR", "NGINX_ERROR", "START_FAILURE"},
             HandlerPreflight(r, built, cause)
      PROVE  Kept
  <2> DEFINE n == WorkerCtx(r, built)
             code == IF cause = "NGINX_ERROR" THEN "500"
                                              ELSE FailCode(mcf.fail_open)
             outcome == IF cause = "NGINX_ERROR" THEN "INTERNAL_ERROR"
                        ELSE FailOutcome(mcf.fail_open)
             guards == IF cause = "START_FAILURE" THEN lcf(r).guards ELSE 0
             resources == IF cause = "START_FAILURE" THEN lcf(r).resources
                                                     ELSE 0
             c == [n EXCEPT !.decision = code, !.outcome = outcome,
                            !.cause = cause, !.done = TRUE,
                            !.guards = guards, !.resources = resources]
  <2>1. /\ ctx' = [ctx EXCEPT ![r] = c] /\ HandlerFresh(r)
        /\ Return(r, code, TRUE, TRUE, http[r].count)
        /\ mcf'.fail_open = mcf.fail_open /\ UNCHANGED <<answer, sent, reported>>
    BY <1>3, <1>9 DEF HandlerPreflight, history, exchange
  <2>2. n \in CtxType /\ n.r = TRUE /\ ~n.waiting
    BY <1>1, FreshFields
  <2>3. /\ code \in Codes /\ outcome \in Outcomes /\ cause \in Causes
        /\ Agree(code, outcome)
        /\ outcome \notin {"VALID_ALLOW", "VALID_DENY", "NONE"}
        /\ outcome = "FAIL_OPEN" => mcf.fail_open
    BY DEF Codes, Outcomes, Causes, Agree, FailCode, FailOutcome
  <2>4. guards \in Nat /\ resources \in Nat
    BY <1>1, HandlerCtxType
  <2> HIDE DEF n, code, outcome, guards, resources
  <2>5. /\ c \in CtxType /\ c.r /\ c.done /\ ~c.waiting /\ c.decision = code
        /\ c.outcome = outcome
    BY <2>2, <2>3, <2>4 DEF CtxType
  <2> HIDE DEF c
  <2>6. QED
    BY <1>1, <1>6, <2>1, <2>3, <2>5
<1>10. ASSUME NEW built \in BOOLEAN, HandlerReadEventFailure(r, built)
       PROVE  Kept
  <2> DEFINE n == StartedCtx(r, NoHandle, built, TRUE)
             t == TornDown(n)
             m == TeardownCount(http[r].count + 1, n)
             c == [t EXCEPT !.decision = "500", !.outcome = "INTERNAL_ERROR",
                            !.cause = "NGINX_ERROR", !.done = TRUE]
  <2>1. /\ ctx' = [ctx EXCEPT ![r] = c] /\ HandlerFresh(r)
        /\ Return(r, "500", TRUE, TRUE, m)
        /\ mcf'.fail_open = mcf.fail_open /\ UNCHANGED <<answer, reported>>
        /\ sent' = [sent EXCEPT ![r] = @ + 1]
    BY <1>3, <1>10 DEF HandlerReadEventFailure
  <2>2. n \in CtxType /\ n.r = TRUE
    BY <1>1, FreshFields
  <2>3. m \in Nat
    <3>1. http[r].count + 1 \in Nat
      BY <1>1
    <3>2. QED
      BY <2>2, <3>1, TeardownCountType
  <2> HIDE DEF n, m
  <2>4. t \in CtxType /\ ~t.waiting /\ t.r = TRUE
    BY <2>2, TornDownType DEF TornDown, CtxType
  <2> HIDE DEF t
  <2>5. /\ c \in CtxType /\ c.r /\ c.done /\ ~c.waiting /\ c.decision = "500"
        /\ c.outcome = "INTERNAL_ERROR"
    BY <2>4 DEF CtxType, Codes, Outcomes, Causes
  <2> HIDE DEF c
  <2>6. "500" \in Codes /\ Agree("500", c.outcome)
    BY <2>5 DEF Codes, Agree
  <2>7. QED
    BY <1>1, <1>6, <2>1, <2>3, <2>5, <2>6
<1>11. ASSUME NEW built \in BOOLEAN, NEW h \in Handles,
              NEW known \in DeadlineAnswers, HandlerStart(r, h, built, known)
       PROVE  Kept
  <2> DEFINE c == StartedCtx(r, h, built, known)
  <2>1. /\ ctx' = [ctx EXCEPT ![r] = c] /\ HandlerFresh(r)
        /\ Return(r, "AGAIN", TRUE, TRUE, http[r].count + 1)
        /\ mcf'.fail_open = mcf.fail_open /\ UNCHANGED <<answer, reported>>
        /\ sent' = [sent EXCEPT ![r] = @ + 1]
    BY <1>3, <1>11 DEF HandlerStart
  <2>2. c.waiting /\ ~c.done /\ c.outcome = "WAITING"
    <3>1. c.waiting /\ ~c.done
      BY <1>1, ConstantsAssumption, HandlerCtxHolds
    <3> DEFINE w == WorkerCtx(r, built)
    <3>2. w \in CtxType
      BY <1>1, FreshFields
    <3>3. c = [w EXCEPT !.guards = lcf(r).guards, !.resources = lcf(r).resources,
                 !.req = h, !.inflight_counted = TRUE, !.timer = known,
                 !.waiting = TRUE, !.outcome = "WAITING", !.nginx_counted = TRUE]
      BY DEF StartedCtx
    <3> HIDE DEF w, c
    <3>4. c.outcome = "WAITING"
      BY <3>2, <3>3 DEF CtxType
    <3>5. QED
      BY <3>1, <3>4
  <2> HIDE DEF c
  <2>3. /\ http[r].cln = FALSE /\ answer[r] = "none" /\ reported[r] = FALSE
        /\ verdictOf(r) = "undecided" /\ ~servedOf(r)
    BY <1>1, <2>1, FreshUnregistered
  <2>4. /\ http'[r].phase = "suspended" /\ http'[r].cln
        /\ \A s \in Requests \ {r} : http'[s] = http[s]
    <3>1. PhaseAfter("AGAIN") = "suspended"
      BY DEF PhaseAfter
    <3>2. http'[r].phase = PhaseAfter("AGAIN")
      BY <1>1, <2>1, ReturnRegistered
    <3>3. http'[r].cln /\ \A s \in Requests \ {r} : http'[s] = http[s]
      BY <1>1, <2>1, ReturnRegistered
    <3>4. QED
      BY <3>1, <3>2, <3>3
  <2>5. ctx'[r] = c
    BY <1>1, <2>1 DEF TypeOK
  <2>6. /\ \A s \in Requests \ {r} : UNCHANGED <<ctx[s], sent[s]>>
        /\ sent'[r] \in {0, 1}
    BY <1>4, <2>1
  <2>7. Sound(r)'
    BY <2>1, <2>2, <2>3, <2>4, <2>5, <2>6
       DEF Sound, Told, Registered, Active, Truthful, Guarded, Reported
  <2>8. verdictOf(r)' = "asking" /\ ~servedOf(r)'
    BY <2>2, <2>4, <2>5 DEF verdictOf, servedOf
  <2>9. KeptFor(r)
    <3>1. servedOf(r) \in BOOLEAN /\ servedOf(r)' \in BOOLEAN
      BY <1>1, ConstantsAssumption DEF servedOf, lcf, TypeOK, HttpType
    <3>2. Permitted(r)
      BY <2>3, <2>8, <3>1 DEF Permitted
    <3>3. QED
      BY <2>3, <2>7, <3>2 DEF KeptFor, DecisionStep
  <2>10. QED
    BY <1>1, <2>1, <2>4, <2>6, <2>9, OneRequest
<1>12. QED
  BY <1>2, <1>5, <1>7, <1>8, <1>9, <1>10, <1>11 DEF Handler

(***************************************************************************)
(* Completions and timers                                                  *)
(***************************************************************************)

\* rn_rate_cb decides the suspended request by what the server said.
LEMMA CompletionKept ==
    ASSUME Inv, TypeOK', AllSound, NEW r \in Requests,
           http[r].phase = "suspended",
           NEW status \in Statuses, NEW result \in ResultType \cup {NoResult},
           RateCb(r, ctx[r].req, status, result),
           answer' = [answer EXCEPT ![r] = AnswerOf(r, status, result)],
           UNCHANGED <<mcf, sent, reported>>
    PROVE  Kept
<1> DEFINE d == RateDecision(mcf.fail_open, ctx[r].guards, ctx[r].resources,
                             status, result)
           a == AnswerOf(r, status, result)
           t == TornDown(ctx[r])
           c == Decided(ctx[r], d)
           q == Resumed(http[r], ctx[r])
<1>1. /\ TypeOK /\ ctx[r] \in CtxType /\ http[r] \in HttpType /\ Sound(r)
      /\ ctx \in [Requests -> CtxType] /\ http \in [Requests -> HttpType]
      /\ answer \in [Requests -> {"none", "allow", "deny"}]
  BY DEF Inv, TypeOK, AllSound
<1>2. /\ ctx[r].r /\ ctx[r].waiting /\ ~ctx[r].done /\ http[r].cln
      /\ OwnsCallback(r, ctx[r].req)
  BY DEF Inv, HoldsWhileSuspended, OwnsCallback
<1>3. ctx' = [ctx EXCEPT ![r] = c] /\ http' = [http EXCEPT ![r] = q]
  BY <1>2 DEF RateCb
<1>4. /\ (d.outcome = "VALID_ALLOW") <=> (a = "allow")
      /\ (d.outcome = "VALID_DENY") <=> (a = "deny")
      /\ a \in {"none", "allow", "deny"}
      /\ d.outcome = "FAIL_OPEN" => mcf.fail_open
      /\ d.outcome # "NONE"
      /\ Agree(d.code, d.outcome)
  BY <1>1, DecisionIsAnswer
<1>5. t \in CtxType /\ t.r /\ ~t.waiting
  <2>1. t \in CtxType /\ ~t.waiting
    BY <1>1, TornDownType, TornDownUnencumbered DEF Unencumbered
  <2>2. t.r
    BY <1>1, <1>2 DEF TornDown, CtxType
  <2>3. QED
    BY <2>1, <2>2
<1>6. c = [t EXCEPT !.outcome = d.outcome, !.cause = d.cause,
                    !.decision = d.code, !.done = TRUE]
  BY DEF Decided
<1> HIDE DEF d, a, t, c
<1>7. /\ c.r /\ ~c.waiting /\ c.done
      /\ c.outcome = d.outcome /\ c.decision = d.code
  BY <1>5, <1>6 DEF CtxType
<1>8. q.phase = "resumed" /\ q.cln = http[r].cln
  BY <1>1 DEF Resumed, HttpType
<1> HIDE DEF q
<1>9. /\ ctx'[r] = c /\ http'[r] = q /\ answer'[r] = a
      /\ \A s \in Requests \ {r} :
            UNCHANGED <<http[s], ctx[s], answer[s], sent[s], reported[s]>>
  BY <1>1, <1>3 DEF a
<1>10. Sound(r)'
  <2>1. ~reported[r] /\ sent[r] <= 1
    BY <1>1 DEF Sound, Told, Reported
  <2>2. Registered(q, c, a, sent'[r])
    BY <1>2, <1>4, <1>7, <1>8 DEF Registered, Active
  <2>3. Truthful(c, a, sent'[r], mcf'.fail_open)
    BY <1>4, <1>7 DEF Truthful
  <2>4. Guarded(q, c) /\ Reported(q, a, sent'[r], reported'[r], mcf'.fail_open)
    BY <1>8, <2>1 DEF Guarded, Reported
  <2>5. QED
    BY <1>9, <2>1, <2>2, <2>3, <2>4 DEF Sound, Told
<1>11. Permitted(r)
  <2>1. verdictOf(r) = "asking"
    BY <1>2 DEF verdictOf
  <2>2. verdictOf(r)' \in Adm!Decisions
    BY <1>2, <1>4, <1>7, <1>8, <1>9 DEF verdictOf, Adm!Decisions, Agree
  <2>3. ~servedOf(r)'
    BY <1>8, <1>9 DEF servedOf
  <2>4. QED
    BY <2>1, <2>2, <2>3 DEF Permitted
<1>12. KeptFor(r)
  BY <1>2, <1>10, <1>11 DEF KeptFor, DecisionStep
<1>13. QED
  BY <1>9, <1>12, OneRequest

\* Arming or disarming a request timer decides nothing.
LEMMA TimerKept ==
    ASSUME Inv, TypeOK', AllSound, NEW r \in Requests, NEW set \in BOOLEAN,
           ctx' = [ctx EXCEPT ![r] = [@ EXCEPT !.timer = set]],
           UNCHANGED <<mcf, http, answer, sent, reported>>
    PROVE  Kept
<1> DEFINE c == [ctx[r] EXCEPT !.timer = set]
<1>1. ctx[r] \in CtxType /\ ctx \in [Requests -> CtxType] /\ Sound(r)
  BY DEF Inv, TypeOK, AllSound
<1>2. /\ c.r = ctx[r].r /\ c.waiting = ctx[r].waiting /\ c.done = ctx[r].done
      /\ c.decision = ctx[r].decision /\ c.outcome = ctx[r].outcome
      /\ c.cause = ctx[r].cause
  BY <1>1 DEF CtxType
<1>3. ctx' = [ctx EXCEPT ![r] = c]
  OBVIOUS
<1> HIDE DEF c
<1>4. ctx'[r] = c /\ \A s \in Requests \ {r} : ctx'[s] = ctx[s]
  BY <1>1, <1>3
<1>5. Registered(http'[r], ctx'[r], answer'[r], sent'[r])
  BY <1>1, <1>2, <1>4 DEF Sound, Told, Registered, Active
<1>6. http'[r].phase # "free" =>
         Truthful(ctx'[r], answer'[r], sent'[r], mcf'.fail_open)
  BY <1>1, <1>2, <1>4 DEF Sound, Told, Truthful
<1>7. Sound(r)'
  BY <1>1, <1>2, <1>4, <1>5, <1>6 DEF Sound, Told, Guarded, Reported
<1>8. Permitted(r)
  BY <1>2, <1>4 DEF Permitted, verdictOf, servedOf, lcf
<1>9. KeptFor(r)
  BY <1>2, <1>4, <1>7, <1>8 DEF KeptFor, DecisionStep
<1>10. QED
  BY <1>4, <1>9, OneRequest

\* What a completion carries.
LEMMA CompletionShape ==
    ASSUME NEW c \in Completions \cup {<<"TIMEOUT", NoResult>>}
    PROVE  c[1] \in Statuses /\ c[2] \in ResultType \cup {NoResult}
BY ConstantsAssumption DEF Completions, Statuses

\* The steps of the UDP read handler.
LEMMA UdpKept ==
    ASSUME Inv, AllSound, Udp
    PROVE  Kept
<1>1. TypeOK /\ TypeOK'
  BY UdpType DEF Inv
<1>2. ASSUME NEW h \in Handles, NEW c \in Completions, UdpVerdict(h, c)
      PROVE  Kept
  <2> DEFINE u == creq[h].user
  <2>1. u \in Requests /\ http[u].phase = "suspended" /\ ctx[u].req = h
    BY <1>2 DEF UdpVerdict, Inv, Ownership, OwnsCallback, Live
  <2>2. /\ RateCb(u, ctx[u].req, c[1], c[2])
        /\ answer' = [answer EXCEPT ![u] = AnswerOf(u, c[1], c[2])]
        /\ UNCHANGED <<mcf, sent, reported>>
    BY <1>2, <2>1 DEF UdpVerdict
  <2>3. c[1] \in Statuses /\ c[2] \in ResultType \cup {NoResult}
    BY CompletionShape
  <2> HIDE DEF u
  <2>4. QED
    BY <1>1, <2>1, <2>2, <2>3, CompletionKept
<1>3. ASSUME UNCHANGED <<mcf, http, ctx, history>>
      PROVE  Kept
  BY <1>3, NoRequestNotices DEF history, exchange
<1>4. CASE \/ UdpReadBegin \/ UdpOther \/ UdpReadEnd
           \/ \E keep_port \in BOOLEAN : UdpSteering(keep_port)
  BY <1>3, <1>4 DEF UdpReadBegin, UdpOther, UdpReadEnd, UdpSteering
<1>5. QED
  BY <1>2, <1>4 DEF Udp

\* The steps of the timer handler.
LEMMA TimeoutKept ==
    ASSUME Inv, AllSound, Timeout
    PROVE  Kept
<1>1. TypeOK /\ TypeOK'
  BY TimeoutType DEF Inv
<1>2. ASSUME UNCHANGED <<mcf, http, ctx, history>>
      PROVE  Kept
  BY <1>2, NoRequestNotices DEF history, exchange
<1>3. CASE TimeoutReturn \/ \E r \in Requests : TimeoutEarly(r)
  BY <1>2, <1>3 DEF TimeoutReturn, TimeoutEarly, vars, history, exchange
<1>4. ASSUME NEW r \in Requests,
             NEW c \in Completions \cup {<<"TIMEOUT", NoResult>>},
             TimeoutCompletes(r, c)
      PROVE  Kept
  <2>1. http[r].phase = "suspended"
    BY <1>4 DEF TimeoutCompletes, Inv, HoldsWhileSuspended
  <2>2. /\ RateCb(r, ctx[r].req, c[1], c[2])
        /\ answer' = [answer EXCEPT ![r] = AnswerOf(r, c[1], c[2])]
        /\ UNCHANGED <<mcf, sent, reported>>
    BY <1>4 DEF TimeoutCompletes
  <2>3. c[1] \in Statuses /\ c[2] \in ResultType \cup {NoResult}
    BY CompletionShape
  <2>4. QED
    BY <1>1, <2>1, <2>2, <2>3, CompletionKept
<1>5. ASSUME NEW r \in Requests, NEW rc \in {"OK", "ERROR"},
             TimeoutContinues(r, rc)
      PROVE  Kept
  <2>1. /\ ctx' = [ctx EXCEPT ![r] = [@ EXCEPT !.timer = FALSE]]
        /\ UNCHANGED <<mcf, http, answer, sent, reported>>
    BY <1>5 DEF TimeoutContinues, history, exchange
  <2>2. PICK set \in BOOLEAN : set = FALSE
    OBVIOUS
  <2>3. ctx' = [ctx EXCEPT ![r] = [@ EXCEPT !.timer = set]]
    BY <2>1, <2>2
  <2>4. QED
    BY <1>1, <2>1, <2>3, TimerKept
<1>6. CASE TimeoutRearm
  <2>1. frame.r \in Requests
    BY <1>1, <1>6 DEF TimeoutRearm, TypeOK
  <2>2. /\ ctx' = [ctx EXCEPT ![frame.r] = [@ EXCEPT !.timer = TRUE]]
        /\ UNCHANGED <<mcf, http, answer, sent, reported>>
    BY <1>6 DEF TimeoutRearm, history, exchange
  <2>3. PICK set \in BOOLEAN : set = TRUE
    OBVIOUS
  <2>4. ctx' = [ctx EXCEPT ![frame.r] = [@ EXCEPT !.timer = set]]
    BY <2>2, <2>3
  <2>5. QED
    BY <1>1, <2>1, <2>2, <2>4, TimerKept
<1>7. CASE TimeoutFails
  <2> DEFINE r == frame.r
  <2>1. r \in Requests /\ http[r].phase = "suspended" /\ ctx[r].req = frame.h
    BY <1>1, <1>7 DEF TimeoutFails, TypeOK, Inv, FrameAlive
  <2>2. /\ RateCb(r, ctx[r].req, "ERROR", NoResult)
        /\ UNCHANGED <<mcf, answer, sent, reported>>
    BY <1>7, <2>1 DEF TimeoutFails, history, exchange
  <2> HIDE DEF r
  <2>3. answer[r] = "none"
    BY <2>1 DEF AllSound, Sound, Told, Registered
  <2>4. AnswerOf(r, "ERROR", NoResult) = "none"
    BY DEF AnswerOf
  <2>5. answer' = [answer EXCEPT ![r] = AnswerOf(r, "ERROR", NoResult)]
    BY <1>1, <2>1, <2>2, <2>3, <2>4 DEF TypeOK
  <2>6. "ERROR" \in Statuses /\ NoResult \in ResultType \cup {NoResult}
    BY DEF Statuses
  <2>7. QED
    BY <1>1, <2>1, <2>2, <2>5, <2>6, CompletionKept
<1>8. QED
  BY <1>3, <1>4, <1>5, <1>6, <1>7 DEF Timeout

(***************************************************************************)
(* nginx                                                                   *)
(***************************************************************************)

\* A request arrives: nothing is decided, asked or reported.
LEMMA ArriveKept ==
    ASSUME Inv, TypeOK', AllSound, NEW r \in Requests, NEW loc \in Locations,
           Arrive(r, loc)
    PROVE  Kept
<1> DEFINE q == [NoHttp EXCEPT !.phase = "routing", !.loc = loc, !.count = 1]
<1>1. /\ http \in [Requests -> HttpType] /\ ctx \in [Requests -> CtxType]
      /\ answer \in [Requests -> {"none", "allow", "deny"}]
      /\ sent \in [Requests -> Nat] /\ reported \in [Requests -> BOOLEAN]
      /\ Sound(r)
  BY DEF Inv, TypeOK, AllSound
<1>2. /\ http' = [http EXCEPT ![r] = q] /\ ctx' = [ctx EXCEPT ![r] = NullCtx]
      /\ answer' = [answer EXCEPT ![r] = "none"]
      /\ sent' = [sent EXCEPT ![r] = 0] /\ UNCHANGED mcf
      /\ http[r].phase = "free"
  BY DEF Arrive
<1>3. reported' = [reported EXCEPT ![r] = FALSE]
  BY DEF Arrive
<1>4. q.phase = "routing" /\ ~q.slot /\ ~q.cln
  BY DEF NoHttp
<1>5. NullCtx.outcome = "NONE"
  BY DEF NullCtx
<1> HIDE DEF q
<1>6. /\ http'[r] = q /\ ctx'[r] = NullCtx /\ answer'[r] = "none"
      /\ sent'[r] = 0
      /\ \A s \in Requests \ {r} :
            UNCHANGED <<http[s], ctx[s], answer[s], sent[s]>>
  BY <1>1, <1>2
<1>7. ~reported'[r] /\ \A s \in Requests \ {r} : UNCHANGED reported[s]
  BY <1>1, <1>3
<1>8. Sound(r)'
  BY <1>4, <1>5, <1>6, <1>7
     DEF Sound, Told, Registered, Active, Truthful, Guarded, Reported
<1>9. ~http[r].cln
  BY <1>1, <1>2 DEF Sound, Told, Registered, Active
<1>10. Permitted(r)
  <2>1. verdictOf(r) = "none" /\ verdictOf(r)' = "undecided"
    BY <1>2, <1>4, <1>6 DEF verdictOf
  <2>2. servedOf(r) = FALSE /\ servedOf(r)' = FALSE
    BY <1>2, <1>4, <1>6 DEF servedOf
  <2>3. QED
    BY <2>1, <2>2 DEF Permitted
<1>11. KeptFor(r)
  BY <1>8, <1>9, <1>10 DEF KeptFor, DecisionStep
<1>12. QED
  BY <1>2, <1>6, <1>7, <1>11, OneRequest

\* The cleanup of a request keeps its decision and reveals no verdict.
LEMMA CleanupKept ==
    ASSUME Inv, TypeOK', AllSound, NEW r \in Requests, NEW count, NEW error,
           Active(http[r]), RunCleanup(r, count, error),
           UNCHANGED <<mcf, answer, sent, reported>>
    PROVE  Kept
<1> DEFINE c == ctx[r]
           q == http'[r]
<1>1. /\ http \in [Requests -> HttpType] /\ ctx \in [Requests -> CtxType]
      /\ http[r] \in HttpType /\ c \in CtxType /\ Sound(r)
  BY DEF Inv, TypeOK, AllSound
<1>2. /\ q.phase = "closing" /\ ~q.cln
      /\ \A s \in Requests \ {r} : http'[s] = http[s]
  <2> DEFINE n == IF http[r].cln THEN TeardownCount(count, c) ELSE count
             p == [http[r] EXCEPT !.phase = "closing", !.cln = FALSE,
                                  !.error = error, !.count = n]
  <2>1. http' = [http EXCEPT ![r] = p]
    BY DEF RunCleanup
  <2>2. p.phase = "closing" /\ ~p.cln
    BY <1>1 DEF HttpType
  <2> HIDE DEF p
  <2>3. QED
    BY <1>1, <2>1, <2>2
<1>3. ctx' = IF http[r].cln THEN [ctx EXCEPT ![r] = CleanedUp(c)] ELSE ctx
  BY DEF RunCleanup
<1>4. \A s \in Requests \ {r} : ctx'[s] = ctx[s]
  BY <1>1, <1>3
<1>5. /\ ctx'[r].decision = c.decision /\ ctx'[r].done = c.done
      /\ c.outcome # "WAITING" =>
            ctx'[r].outcome = c.outcome /\ ctx'[r].cause = c.cause
      /\ c.outcome = "WAITING" => ctx'[r].outcome \in {"WAITING", "ABORTED"}
  <2> DEFINE t == TornDown(c)
             d == CleanedUp(c)
  <2>1. t \in CtxType
    BY <1>1, TornDownType
  <2> HIDE DEF c
  <2>2. /\ t.decision = c.decision /\ t.done = c.done
        /\ t.outcome = c.outcome /\ t.cause = c.cause
    BY <1>1 DEF TornDown, CtxType
  <2>3. d = [t EXCEPT
               !.outcome = IF c.outcome = "WAITING" THEN "ABORTED" ELSE @,
               !.cause = IF c.outcome = "WAITING" THEN "CLIENT_ABORT" ELSE @,
               !.r = FALSE]
    BY DEF CleanedUp
  <2> HIDE DEF t, d
  <2>4. /\ d.decision = c.decision /\ d.done = c.done
        /\ c.outcome # "WAITING" => d.outcome = c.outcome /\ d.cause = c.cause
        /\ c.outcome = "WAITING" => d.outcome = "ABORTED"
    BY <2>1, <2>2, <2>3 DEF CtxType
  <2>5. ctx'[r] = d \/ ctx'[r] = c
    BY <1>1, <1>3 DEF c, d
  <2>6. QED
    BY <2>4, <2>5
<1>6. Sound(r)'
  <2>1. Registered(q, ctx'[r], answer'[r], sent'[r])
    BY <1>2 DEF Registered, Active
  <2>2. Truthful(c, answer[r], sent[r], mcf.fail_open)
    BY <1>1 DEF Sound, Told, Active
  <2>3. Truthful(ctx'[r], answer'[r], sent'[r], mcf'.fail_open)
    BY <1>5, <2>2 DEF Truthful
  <2>4. Guarded(q, ctx'[r])
    BY <1>2 DEF Guarded
  <2>5. Reported(q, answer'[r], sent'[r], reported'[r], mcf'.fail_open)
        /\ sent'[r] <= 1
    BY <1>1 DEF Sound, Told, Reported, Active
  <2>6. QED
    BY <2>1, <2>3, <2>4, <2>5 DEF Sound, Told
<1>7. Permitted(r)
  BY <1>2 DEF Permitted, verdictOf, servedOf
<1>8. c.done /\ http[r].cln => c.outcome # "WAITING"
  <2>1. c.done => http[r].phase # "suspended"
    BY DEF Inv, HoldsWhileSuspended
  <2>2. QED
    BY <1>1, <2>1 DEF Sound, Told, Registered, Agree
<1>9. DecisionStep(r)
  BY <1>5, <1>8 DEF DecisionStep
<1>10. QED
  BY <1>2, <1>4, <1>6, <1>7, <1>9, OneRequest DEF KeptFor

\* An internal redirect, and reading $ratelimitly_verdict, decide nothing.
LEMMA RoutingKept ==
    ASSUME Inv, TypeOK', AllSound, NEW r \in Requests,
           (\E loc \in Locations : Redirect(r, loc)) \/ VerdictVariable(r)
    PROVE  Kept
<1>1. /\ TypeOK /\ http \in [Requests -> HttpType] /\ http[r] \in HttpType
      /\ ctx[r] \in CtxType /\ Sound(r)
  BY DEF Inv, TypeOK, AllSound
<1>2. ~ctx[r].waiting
  <2>1. http[r].phase # "suspended"
    BY DEF Redirect, VerdictVariable
  <2>2. QED
    BY <2>1 DEF Inv, HoldsWhileSuspended
<1>3. UNCHANGED <<mcf, ctx, answer, sent, reported>>
  BY DEF Redirect, VerdictVariable, history, exchange
<1>4. ASSUME NEW loc \in Locations, Redirect(r, loc)
      PROVE  Kept
  <2> DEFINE q == Redirected(http[r], loc)
  <2>1. http' = [http EXCEPT ![r] = q]
        /\ http[r].phase \in {"content", "rejected"}
    BY <1>4 DEF Redirect
  <2>2. q.phase = "routing" /\ ~q.slot /\ q.cln = http[r].cln
    BY <1>1 DEF HttpType, Redirected
  <2> HIDE DEF q
  <2>3. http'[r] = q /\ \A s \in Requests \ {r} : http'[s] = http[s]
    BY <1>1, <2>1
  <2>4. KeptFor(r)
    BY <1>1, <1>2, <1>3, <2>1, <2>2, <2>3, Moved DEF Active
  <2>5. QED
    BY <1>3, <2>3, <2>4, OneRequest
<1>5. CASE VerdictVariable(r)
  <2>1. Found(r) \in BOOLEAN
    BY <1>1 DEF Found, HttpType, CtxType
  <2>2. PICK found \in BOOLEAN : found = Found(r)
    BY <2>1
  <2> DEFINE q == [http[r] EXCEPT !.slot = found]
  <2>3. http' = [http EXCEPT ![r] = q]
        /\ http[r].phase \in {"routing", "content", "rejected", "closing"}
    BY <1>5, <2>2 DEF VerdictVariable
  <2>4. /\ q.phase = http[r].phase /\ q.cln = http[r].cln
        /\ q.loc = http[r].loc /\ q.slot = found
    BY <1>1 DEF HttpType
  <2> HIDE DEF q
  <2>5. http'[r] = q /\ \A s \in Requests \ {r} : http'[s] = http[s]
    BY <1>1, <2>3
  <2>6. CASE http[r].phase = "closing"
    <3>1. Sound(r)'
      BY <1>1, <1>3, <2>4, <2>5, <2>6
         DEF Sound, Told, Registered, Active, Truthful, Guarded, Reported
    <3>2. Permitted(r)
      BY <2>4, <2>5, <2>6 DEF Permitted, verdictOf, servedOf
    <3>3. KeptFor(r)
      BY <1>3, <3>1, <3>2 DEF KeptFor, DecisionStep
    <3>4. QED
      BY <1>3, <2>5, <3>3, OneRequest
  <2>7. CASE http[r].phase # "closing"
    <3>1. Active(http[r]) /\ Active(q)
      BY <2>3, <2>4, <2>7 DEF Active
    <3>2. ~http[r].cln /\ q.phase # "rejected" => ~q.slot
      BY <1>1, <2>2, <2>4, <3>1 DEF Sound, Told, Registered, Found
    <3>3. /\ q.phase = "content" =>
             \/ ~Conf[q.loc].enabled
             \/ http[r].cln /\ ctx[r].decision \in {"OK", "DECLINED"}
          /\ q.phase = "rejected" /\ http[r].cln =>
             ctx[r].decision \notin {"OK", "DECLINED"}
      BY <1>1, <2>4 DEF Sound, Told, Guarded
    <3>4. KeptFor(r)
      BY <1>1, <1>2, <1>3, <2>3, <2>4, <2>5, <3>1, <3>2, <3>3, Moved
    <3>5. QED
      BY <1>3, <2>5, <3>4, OneRequest
  <2>8. QED
    BY <2>6, <2>7
<1>6. QED
  BY <1>4, <1>5

\* The log handler reports only what the outcome of the request allows.
LEMMA LogKept ==
    ASSUME Inv, TypeOK', AllSound, NEW r \in Requests, Log(r)
    PROVE  Kept
<1>1. /\ http \in [Requests -> HttpType] /\ ctx \in [Requests -> CtxType]
      /\ reported \in [Requests -> BOOLEAN] /\ Sound(r)
  BY DEF Inv, TypeOK, AllSound
<1>2. /\ http' = [http EXCEPT ![r] = NoHttp]
      /\ ctx' = [ctx EXCEPT ![r] = Destroyed(@)]
      /\ UNCHANGED <<mcf, answer, sent>> /\ http[r].phase = "closing"
  BY DEF Log
<1>3. reported' = [reported EXCEPT ![r] = ReportEligible(r)]
  BY DEF Log
<1>4. /\ http'[r] = NoHttp
      /\ \A s \in Requests \ {r} : UNCHANGED <<http[s], ctx[s]>>
  BY <1>1, <1>2
<1>5. \A s \in Requests \ {r} : UNCHANGED reported[s]
  BY <1>1, <1>3
<1>6. reported'[r] <=> ReportEligible(r)
  BY <1>1, <1>3
<1>7. NoHttp.phase = "free" /\ ~NoHttp.cln
  BY DEF NoHttp
<1>8. Sound(r)'
  <2>1. Truthful(ctx[r], answer[r], sent[r], mcf.fail_open) /\ sent[r] <= 1
    BY <1>1, <1>2 DEF Sound, Told
  <2>2. Registered(NoHttp, ctx'[r], answer'[r], sent'[r])
    BY <1>7 DEF Registered, Active
  <2>3. Reported(NoHttp, answer'[r], sent'[r], reported'[r], mcf'.fail_open)
    <3>1. reported'[r] => ctx[r].outcome \in {"NONE", "VALID_ALLOW", "FAIL_OPEN"}
      BY <1>6 DEF ReportEligible
    <3>2. QED
      BY <1>2, <1>7, <2>1, <3>1 DEF Reported, Truthful
  <2>4. QED
    BY <1>2, <1>4, <1>7, <2>1, <2>2, <2>3 DEF Sound, Told, Guarded
<1>9. Permitted(r)
  BY <1>2, <1>4, <1>7 DEF Permitted, verdictOf, servedOf
<1>10. KeptFor(r)
  BY <1>4, <1>7, <1>8, <1>9 DEF KeptFor, DecisionStep
<1>11. QED
  BY <1>2, <1>4, <1>5, <1>10, OneRequest

\* What nginx does with a request keeps it sound.
LEMMA NginxKept ==
    ASSUME Inv, AllSound, NEW r \in Requests, Nginx(r)
    PROVE  Kept
<1>1. TypeOK'
  BY NginxType DEF Inv
<1>2. ASSUME NEW error \in BOOLEAN, Finish(r, error)
      PROVE  Kept
  BY <1>1, <1>2, CleanupKept DEF Finish, Active, history, exchange
<1>3. CASE ClientAbort(r)
  BY <1>1, <1>3, CleanupKept DEF ClientAbort, Active, history, exchange
<1>4. QED
  BY <1>1, <1>2, <1>3, ArriveKept, RoutingKept, LogKept DEF Nginx

(***************************************************************************)
(* The theorems                                                            *)
(***************************************************************************)

\* A request that has not begun is sound.
LEMMA SoundInit ==
    ASSUME Init
    PROVE  AllSound /\ Adm!Init
<1>1. NoHttp.phase = "free" /\ ~NoHttp.cln
  BY DEF NoHttp
<1>2. /\ http = [r \in Requests |-> NoHttp] /\ sent = [r \in Requests |-> 0]
      /\ reported = [r \in Requests |-> FALSE]
  BY DEF Init
<1>3. AllSound
  BY <1>1, <1>2
     DEF AllSound, Sound, Told, Registered, Active, Guarded, Reported
<1>4. \A r \in Requests : verdictOf(r) = "none" /\ servedOf(r) = FALSE
  BY <1>1, <1>2 DEF verdictOf, servedOf
<1>5. QED
  BY <1>3, <1>4 DEF Adm!Init

\* Every step keeps what is known of every request, is a step of Admission,
\* and changes no decision.
LEMMA SoundStep ==
    ASSUME Inv, AllSound, [Next]_vars
    PROVE  Kept
<1>1. CASE UNCHANGED vars
  BY <1>1, NoRequestNotices DEF vars, history, exchange
<1>2. ASSUME NEW opened \in BOOLEAN, RebindHandler(opened)
      PROVE  Kept
  BY <1>2, NoRequestNotices DEF RebindHandler, history, exchange
<1>3. QED
  BY <1>1, <1>2, HandlerKept, NginxKept, UdpKept, TimeoutKept DEF Next

\* So every request is always sound.
LEMMA SoundInvariant == Spec => []AllSound
<1>1. Init => AllSound
  BY SoundInit
<1>2. Inv /\ AllSound /\ [Next]_vars => AllSound'
  BY SoundStep DEF Kept
<1>3. QED
  BY <1>1, <1>2, Invariant, PTL DEF Spec

(***************************************************************************)
(* Refusals are final.  The history `fate' is an invariant of its own, on  *)
(* top of the last one: a refused request keeps the registered context     *)
(* that refused it, and the decision in it.                                *)
(***************************************************************************)

\* What the fate of a request says about the request and its context.
Final(q, c, f, rep) ==
    /\ Active(q) /\ f = "refused" =>
          q.cln /\ c.done /\ c.decision \notin {"OK", "DECLINED"}
    /\ q.phase = "closing" /\ f = "refused" =>
          c.outcome \notin {"NONE", "VALID_ALLOW", "FAIL_OPEN"}
    /\ f = "lost" => ~Active(q)
    /\ q.phase = "closing" /\ f = "lost" => q.error
    /\ rep => f = "open"

AllFinal ==
    \A r \in Requests : Final(http[r], ctx[r], fate[r], reported[r])

\* A step that leaves the fate of a request as it is: a registered context
\* stays registered, and one that is closed is not touched any more.
FateStays(r) ==
    /\ UNCHANGED <<fate[r], reported[r], http[r].error>>
    /\ Active(http'[r]) = Active(http[r])
    /\ Active(http[r]) /\ http[r].cln => http'[r].cln
    /\ ~Active(http[r]) => UNCHANGED <<http[r].phase, ctx[r]>>

\* A step that refuses the request with a registered context.
FateRefused(r) ==
    /\ fate'[r] = "refused" /\ reported'[r] = reported[r]
    /\ Active(http[r]) /\ http'[r].phase = "rejected" /\ http'[r].cln

\* A step that begins the request.
FateOpened(r) ==
    fate'[r] = "open" /\ reported'[r] = FALSE /\ http'[r].phase = "routing"

\* A step that closes the request, with or without its connection.
FateClosed(r) ==
    /\ Active(http[r]) /\ http'[r].phase = "closing"
    /\ reported'[r] = reported[r]
    /\ fate'[r] = IF http'[r].error THEN "lost" ELSE fate[r]

\* The step of the log handler.
FateLogged(r) ==
    /\ http[r].phase = "closing" /\ http'[r].phase = "free"
    /\ fate'[r] = fate[r] /\ reported'[r] = ReportEligible(r)

FateStep(r) ==
    \/ FateStays(r) \/ FateRefused(r) \/ FateOpened(r) \/ FateClosed(r)
    \/ FateLogged(r)

\* A request that a step does not touch.
LEMMA FateUntouched ==
    ASSUME NEW r \in Requests,
           UNCHANGED <<http[r], ctx[r], fate[r], reported[r]>>
    PROVE  FateStep(r)
BY DEF FateStep, FateStays

\* A return of the handler refuses its request or leaves every fate alone.
LEMMA ReturnFate ==
    ASSUME TypeOK, NEW r \in Requests, HandlerCalled(r),
           NEW code, NEW slot, NEW cln, NEW count,
           Return(r, code, slot, cln, count), http[r].cln => cln,
           UNCHANGED reported,
           \A s \in Requests \ {r} : ctx'[s] = ctx[s]
    PROVE  \A s \in Requests : FateStep(s)
<1> DEFINE q == [http[r] EXCEPT !.phase = PhaseAfter(code), !.slot = slot,
                                !.cln = cln, !.count = count]
<1>1. http' = [http EXCEPT ![r] = q]
  BY DEF Return
<1>2. q.phase = PhaseAfter(code) /\ q.cln = cln /\ q.error = http[r].error
  BY DEF TypeOK, HttpType
<1> HIDE DEF q
<1>3. http'[r] = q /\ \A s \in Requests \ {r} : http'[s] = http[s]
  BY <1>1 DEF TypeOK
<1>4. Active(http[r]) /\ Active(q)
  BY <1>2 DEF Active, HandlerCalled, PhaseAfter
<1>5. CASE cln /\ PhaseAfter(code) = "rejected"
  <2>1. fate'[r] = "refused" /\ \A s \in Requests \ {r} : fate'[s] = fate[s]
    BY <1>5 DEF Return, TypeOK
  <2>2. FateStep(r)
    BY <1>2, <1>3, <1>4, <1>5, <2>1 DEF FateStep, FateRefused
  <2>3. QED
    BY <1>3, <2>1, <2>2, FateUntouched
<1>6. CASE ~(cln /\ PhaseAfter(code) = "rejected")
  <2>1. fate' = fate
    BY <1>6 DEF Return
  <2>2. FateStays(r)
    BY <1>2, <1>3, <1>4, <2>1 DEF FateStays
  <2>3. QED
    BY <1>3, <2>1, <2>2, FateUntouched DEF FateStep
<1>7. QED
  BY <1>5, <1>6

\* Every path of the handler ends in such a return.
LEMMA HandlerFate ==
    ASSUME TypeOK, NEW r \in Requests, Handler(r)
    PROVE  \A s \in Requests : FateStep(s)
<1>1. UNCHANGED reported
  BY DEF Handler, HandlerBypass, HandlerReuse, HandlerNoMemory,
         HandlerNoCleanup, HandlerNoWorker, HandlerReportOnly,
         HandlerPreflight, HandlerStart, HandlerReadEventFailure, exchange
<1>2. HandlerCalled(r)
  BY DEF Handler, HandlerBypass, HandlerReuse, HandlerNoMemory,
         HandlerNoCleanup, HandlerNoWorker, HandlerReportOnly,
         HandlerPreflight, HandlerStart, HandlerReadEventFailure, HandlerFresh
<1>3. \A s \in Requests \ {r} : ctx'[s] = ctx[s]
  BY DEF Handler, HandlerBypass, HandlerReuse, HandlerNoMemory,
         HandlerNoCleanup, HandlerNoWorker, HandlerReportOnly,
         HandlerPreflight, HandlerStart, HandlerReadEventFailure, TypeOK
<1>4. PICK code, slot, cln, count :
         Return(r, code, slot, cln, count) /\ (http[r].cln => cln)
  <2>1. CASE HandlerBypass(r) \/ HandlerReuse(r) \/ HandlerNoMemory(r)
             \/ HandlerNoCleanup(r)
    <3>1. PICK code, slot : Return(r, code, slot, http[r].cln, http[r].count)
      BY <2>1, Zenon
         DEF HandlerBypass, HandlerReuse, HandlerNoMemory, HandlerNoCleanup
    <3>2. QED
      BY <3>1
  <2>2. CASE \/ HandlerNoWorker(r)
             \/ \E built \in BOOLEAN :
                   \/ HandlerReportOnly(r, built)
                   \/ HandlerReadEventFailure(r, built)
                   \/ \E cause : HandlerPreflight(r, built, cause)
                   \/ \E h, known : HandlerStart(r, h, built, known)
    <3>1. PICK code, count : Return(r, code, TRUE, TRUE, count)
      BY <2>2 DEF HandlerNoWorker, HandlerReportOnly, HandlerPreflight,
                  HandlerStart, HandlerReadEventFailure
    <3>2. QED
      BY <3>1
  <2>3. QED
    BY <2>1, <2>2 DEF Handler
<1>5. QED
  BY <1>1, <1>2, <1>3, <1>4, ReturnFate

\* A completion resumes a suspended request and refuses nobody yet.
LEMMA CompletionFate ==
    ASSUME TypeOK, NEW r \in Requests, NEW h, NEW status, NEW result,
           RateCb(r, h, status, result),
           OwnsCallback(r, h) => http[r].phase = "suspended",
           UNCHANGED <<reported, fate>>
    PROVE  \A s \in Requests : FateStep(s)
<1>1. CASE ~OwnsCallback(r, h)
  <2>1. UNCHANGED <<http, ctx>>
    BY <1>1 DEF RateCb
  <2>2. QED
    BY <2>1, FateUntouched
<1>2. CASE OwnsCallback(r, h)
  <2> DEFINE q == Resumed(http[r], ctx[r])
  <2>1. http' = [http EXCEPT ![r] = q]
        /\ \A s \in Requests \ {r} : ctx'[s] = ctx[s]
    BY <1>2 DEF RateCb, TypeOK
  <2>2. q.phase = "resumed" /\ q.cln = http[r].cln /\ q.error = http[r].error
    BY DEF Resumed, TypeOK, HttpType
  <2> HIDE DEF q
  <2>3. http'[r] = q /\ \A s \in Requests \ {r} : http'[s] = http[s]
    BY <2>1 DEF TypeOK
  <2>4. FateStays(r)
    BY <1>2, <2>2, <2>3 DEF FateStays, Active
  <2>5. QED
    BY <2>1, <2>3, <2>4, FateUntouched DEF FateStep
<1>3. QED
  BY <1>1, <1>2

\* Arming or stopping a timer of a suspended request.
LEMMA TimerFate ==
    ASSUME TypeOK, NEW r \in Requests, http[r].phase = "suspended", NEW b,
           ctx' = [ctx EXCEPT ![r] = [@ EXCEPT !.timer = b]],
           UNCHANGED <<http, reported, fate>>
    PROVE  \A s \in Requests : FateStep(s)
<1>1. \A s \in Requests \ {r} : ctx'[s] = ctx[s]
  BY DEF TypeOK
<1>2. FateStays(r)
  BY DEF FateStays, Active
<1>3. QED
  BY <1>1, <1>2, FateUntouched DEF FateStep

\* The datagram and timer handlers.
LEMMA EventFate ==
    ASSUME Inv, Udp \/ Timeout
    PROVE  \A s \in Requests : FateStep(s)
<1>1. TypeOK
  BY DEF Inv
<1>2. ASSUME UNCHANGED <<http, ctx, reported, fate>>
      PROVE  \A s \in Requests : FateStep(s)
  BY <1>2, FateUntouched
<1>3. ASSUME NEW h \in Handles, NEW c, UdpVerdict(h, c)
      PROVE  \A s \in Requests : FateStep(s)
  <2> DEFINE u == creq[h].user
  <2>1. u \in Requests /\ http[u].phase = "suspended"
    BY <1>3 DEF UdpVerdict, Inv, Ownership, Live
  <2>2. RateCb(u, h, c[1], c[2]) /\ UNCHANGED <<reported, fate>>
    BY <1>3 DEF UdpVerdict
  <2> HIDE DEF u
  <2>3. QED
    BY <1>1, <2>1, <2>2, CompletionFate
<1>4. CASE \/ UdpReadBegin \/ UdpOther \/ UdpReadEnd \/ TimeoutReturn
           \/ \E keep_port \in BOOLEAN : UdpSteering(keep_port)
           \/ \E r \in Requests : TimeoutEarly(r)
  BY <1>2, <1>4 DEF UdpReadBegin, UdpOther, UdpReadEnd, TimeoutReturn,
                    UdpSteering, TimeoutEarly, vars, history, exchange
<1>5. ASSUME NEW r \in Requests, NEW c, TimeoutCompletes(r, c)
      PROVE  \A s \in Requests : FateStep(s)
  <2>1. http[r].phase = "suspended"
    BY <1>5 DEF TimeoutCompletes, Inv, HoldsWhileSuspended
  <2>2. RateCb(r, ctx[r].req, c[1], c[2]) /\ UNCHANGED <<reported, fate>>
    BY <1>5 DEF TimeoutCompletes
  <2>3. QED
    BY <1>1, <2>1, <2>2, CompletionFate
<1>6. ASSUME NEW r \in Requests, NEW rc, TimeoutContinues(r, rc)
      PROVE  \A s \in Requests : FateStep(s)
  <2>1. http[r].phase = "suspended"
    BY <1>6 DEF TimeoutContinues, Inv, HoldsWhileSuspended
  <2>2. /\ ctx' = [ctx EXCEPT ![r] = [@ EXCEPT !.timer = FALSE]]
        /\ UNCHANGED <<http, reported, fate>>
    BY <1>6 DEF TimeoutContinues, history, exchange
  <2>3. QED
    BY <1>1, <2>1, <2>2, TimerFate
<1>7. ASSUME TimeoutRearm \/ TimeoutFails
      PROVE  frame.r \in Requests /\ http[frame.r].phase = "suspended"
  BY <1>7 DEF TimeoutRearm, TimeoutFails, Inv, FrameAlive, TypeOK
<1>8. CASE TimeoutRearm
  <2>1. /\ ctx' = [ctx EXCEPT ![frame.r] = [@ EXCEPT !.timer = TRUE]]
        /\ UNCHANGED <<http, reported, fate>>
    BY <1>8 DEF TimeoutRearm, history, exchange
  <2>2. QED
    BY <1>1, <1>7, <1>8, <2>1, TimerFate
<1>9. CASE TimeoutFails
  <2>1. RateCb(frame.r, frame.h, "ERROR", NoResult)
        /\ UNCHANGED <<reported, fate>>
    BY <1>9 DEF TimeoutFails, history, exchange
  <2>2. QED
    BY <1>1, <1>7, <1>9, <2>1, CompletionFate
<1>10. QED
  BY <1>3, <1>4, <1>5, <1>6, <1>8, <1>9 DEF Udp, Timeout

\* What nginx does with a request.
LEMMA NginxFate ==
    ASSUME TypeOK, NEW r \in Requests, Nginx(r)
    PROVE  \A s \in Requests : FateStep(s)
<1>1. SUFFICES /\ FateStep(r)
               /\ \A s \in Requests \ {r} :
                     UNCHANGED <<http[s], ctx[s], fate[s], reported[s]>>
  BY FateUntouched
<1>2. /\ http \in [Requests -> HttpType] /\ ctx \in [Requests -> CtxType]
      /\ reported \in [Requests -> BOOLEAN] /\ http[r] \in HttpType
      /\ fate \in [Requests -> {"open", "refused", "lost"}]
  BY DEF TypeOK
<1>3. ASSUME NEW loc \in Locations, Arrive(r, loc)
      PROVE  <1>1!1
  <2>1. http'[r].phase = "routing"
    BY <1>2, <1>3 DEF Arrive, NoHttp
  <2>2. fate'[r] = "open" /\ reported'[r] = FALSE
    BY <1>2, <1>3 DEF Arrive
  <2>3. QED
    BY <1>2, <1>3, <2>1, <2>2 DEF Arrive, FateStep, FateOpened
<1>4. ASSUME NEW loc \in Locations, Redirect(r, loc)
      PROVE  <1>1!1
  <2> DEFINE q == Redirected(http[r], loc)
  <2>1. http' = [http EXCEPT ![r] = q] /\ UNCHANGED <<ctx, fate, reported>>
        /\ http[r].phase \in {"content", "rejected"}
    BY <1>4 DEF Redirect, history, exchange
  <2>2. q.phase = "routing" /\ q.cln = http[r].cln /\ q.error = http[r].error
    BY <1>2 DEF Redirected, HttpType
  <2> HIDE DEF q
  <2>3. FateStays(r)
    BY <1>2, <2>1, <2>2 DEF FateStays, Active
  <2>4. QED
    BY <1>2, <2>1, <2>3 DEF FateStep
<1>5. ASSUME NEW count, NEW error \in BOOLEAN, RunCleanup(r, count, error),
             Active(http[r]), UNCHANGED reported
      PROVE  <1>1!1
  <2> DEFINE n == IF http[r].cln THEN TeardownCount(count, ctx[r]) ELSE count
             q == [http[r] EXCEPT !.phase = "closing", !.cln = FALSE,
                                  !.error = error, !.count = n]
  <2>1. http' = [http EXCEPT ![r] = q]
        /\ fate' = [fate EXCEPT ![r] = IF error THEN "lost" ELSE @]
    BY <1>5 DEF RunCleanup
  <2>2. \A s \in Requests \ {r} : ctx'[s] = ctx[s]
    BY <1>2, <1>5 DEF RunCleanup
  <2>3. q.phase = "closing" /\ q.error = error
    BY <1>2 DEF HttpType
  <2> HIDE DEF q
  <2>4. FateClosed(r)
    BY <1>2, <1>5, <2>1, <2>3 DEF FateClosed
  <2>5. QED
    BY <1>2, <1>5, <2>1, <2>2, <2>4 DEF FateStep
<1>6. ASSUME NEW error \in BOOLEAN, Finish(r, error)
      PROVE  <1>1!1
  BY <1>5, <1>6 DEF Finish, Active, exchange
<1>7. CASE ClientAbort(r)
  BY <1>5, <1>7 DEF ClientAbort, Active, exchange
<1>8. CASE VerdictVariable(r)
  <2> DEFINE q == [http[r] EXCEPT !.slot = Found(r)]
  <2>1. http' = [http EXCEPT ![r] = q] /\ UNCHANGED <<ctx, fate, reported>>
    BY <1>8 DEF VerdictVariable, history, exchange
  <2>2. q.phase = http[r].phase /\ q.cln = http[r].cln
        /\ q.error = http[r].error
    BY <1>2 DEF HttpType
  <2> HIDE DEF q
  <2>3. FateStays(r)
    BY <1>2, <2>1, <2>2 DEF FateStays, Active
  <2>4. QED
    BY <1>2, <2>1, <2>3 DEF FateStep
<1>9. CASE Log(r)
  <2>1. http'[r].phase = "free"
    BY <1>2, <1>9 DEF Log, NoHttp
  <2>2. reported'[r] = ReportEligible(r) /\ fate'[r] = fate[r]
    BY <1>2, <1>9 DEF Log
  <2>3. QED
    BY <1>2, <1>9, <2>1, <2>2 DEF Log, FateStep, FateLogged
<1>10. QED
  BY <1>3, <1>4, <1>6, <1>7, <1>8, <1>9 DEF Nginx

\* Every step keeps what the fate of a request says.
LEMMA FinalStep ==
    ASSUME Inv, TypeOK', AllSound, AllFinal, [Next]_vars
    PROVE  AllFinal'
<1>1. \A r \in Requests : FateStep(r)
  <2>1. CASE UNCHANGED vars \/ \E opened \in BOOLEAN : RebindHandler(opened)
    BY <2>1, FateUntouched DEF vars, history, exchange, RebindHandler
  <2>2. QED
    BY <2>1, HandlerFate, NginxFate, EventFate DEF Next, Inv
<1>2. AllSound' /\ \A r \in Requests : DecisionStep(r)
  BY SoundStep DEF Kept
<1>3. SUFFICES ASSUME NEW r \in Requests
               PROVE  Final(http'[r], ctx'[r], fate'[r], reported'[r])
  BY DEF AllFinal
<1>4. /\ Final(http[r], ctx[r], fate[r], reported[r]) /\ Sound(r)
      /\ DecisionStep(r) /\ FateStep(r)
  BY <1>1, <1>2 DEF AllFinal, AllSound
<1>5. Sound(r)'
  BY <1>2 DEF AllSound
<1>6. Active(http[r]) => ~reported[r]
  BY <1>4 DEF Sound, Told, Reported, Active
<1>7. CASE FateStays(r)
  BY <1>4, <1>7 DEF Final, FateStays, DecisionStep, Active
<1>8. CASE FateRefused(r)
  <2>1. ctx'[r].done /\ ctx'[r].decision \notin {"OK", "DECLINED"}
    BY <1>5, <1>8 DEF FateRefused, Sound, Told, Registered, Guarded, Active
  <2>2. QED
    BY <1>6, <1>8, <2>1 DEF FateRefused, Final, Active
<1>9. CASE FateOpened(r)
  BY <1>9 DEF FateOpened, Final, Active
<1>10. CASE FateClosed(r)
  <2>1. ASSUME fate'[r] = "refused"
        PROVE  ctx'[r].outcome \notin {"NONE", "VALID_ALLOW", "FAIL_OPEN"}
    <3>1. /\ fate[r] = "refused" /\ http[r].cln /\ ctx[r].done
          /\ ctx[r].decision \notin {"OK", "DECLINED"}
      BY <1>4, <1>10, <2>1 DEF FateClosed, Final
    <3>2. http[r].phase # "suspended"
      BY <3>1 DEF Inv, HoldsWhileSuspended
    <3>3. Agree(ctx[r].decision, ctx[r].outcome)
      BY <1>4, <1>10, <3>1, <3>2 DEF FateClosed, Sound, Told, Registered
    <3>4. ctx'[r].outcome = ctx[r].outcome
      BY <1>4, <1>10, <3>1 DEF FateClosed, DecisionStep
    <3>5. QED
      BY <3>1, <3>3, <3>4 DEF Agree
  <2>2. fate'[r] = "lost" => http'[r].error
    BY <1>4, <1>10 DEF FateClosed, Final
  <2>3. QED
    BY <1>6, <1>10, <2>1, <2>2 DEF FateClosed, Final, Active
<1>11. CASE FateLogged(r)
  <2>1. reported'[r] => fate[r] = "open"
    <3>1. fate[r] \in {"open", "refused", "lost"}
      BY DEF Inv, TypeOK
    <3>2. QED
      BY <1>4, <1>11, <3>1 DEF FateLogged, Final, ReportEligible
  <2>2. QED
    BY <1>11, <2>1 DEF FateLogged, Final, Active
<1>12. QED
  BY <1>4, <1>7, <1>8, <1>9, <1>10, <1>11 DEF FateStep

\* So what the fate says always holds.
LEMMA FinalInvariant == Spec => []AllFinal
<1>1. Init => AllFinal
  BY DEF Init, AllFinal, Final, NoHttp, Active
<1>2. Inv /\ TypeOK' /\ AllSound /\ AllFinal /\ [Next]_vars => AllFinal'
  BY FinalStep
<1>3. QED
  BY <1>1, <1>2, Invariant, TypeCorrect, SoundInvariant, PTL DEF Spec

\* One HTTP request starts at most one RateLimitly check, through any number
\* of redirects, wakeups and failures.
THEOREM RequestSingleCheck == Spec => []SingleCheck
<1>1. AllSound => SingleCheck
  BY DEF AllSound, Sound, Told, SingleCheck
<1>2. QED
  BY <1>1, SoundInvariant, PTL

\* $ratelimitly_verdict says "allow" or "deny" exactly when the server did.
THEOREM RequestVerdictProvenance == Spec => []VerdictProvenance
<1>1. AllSound => VerdictProvenance
  BY DEF AllSound, Sound, Told, Truthful, VerdictProvenance
<1>2. QED
  BY <1>1, SoundInvariant, PTL

\* A request that a registered context refused, or that the server denied,
\* reaches the content of no protected location through any redirects.  (A 500
\* from before ngx_http_cleanup_add leaves nothing behind and is not meant.)
THEOREM RequestRefusalIsFinal == Spec => []RefusalIsFinal
<1>1. ASSUME AllSound, AllFinal, NEW r \in Requests,
             http[r].phase = "content", lcf(r).enabled
      PROVE  /\ fate[r] # "refused" /\ answer[r] # "deny"
             /\ ctx[r].outcome \in {"NONE", "VALID_ALLOW", "FAIL_OPEN"}
  <2>1. /\ http[r].cln /\ ctx[r].decision \in {"OK", "DECLINED"}
        /\ Agree(ctx[r].decision, ctx[r].outcome)
        /\ Truthful(ctx[r], answer[r], sent[r], mcf.fail_open)
    BY <1>1 DEF AllSound, Sound, Told, Guarded, Registered, Active, lcf
  <2>2. fate[r] # "refused"
    BY <1>1, <2>1 DEF AllFinal, Final, Active
  <2>3. QED
    BY <2>1, <2>2 DEF Agree, Truthful
<1>2. AllSound /\ AllFinal => RefusalIsFinal
  BY <1>1 DEF RefusalIsFinal
<1>3. QED
  BY <1>2, SoundInvariant, FinalInvariant, PTL

\* No latency sample for a request that the server denied, that a registered
\* context refused, whose connection was lost, or whose check failed under
\* ratelimitly_fail close.
THEOREM RequestUnservedNotSampled == Spec => []UnservedNotSampled
<1>1. AllSound /\ AllFinal => UnservedNotSampled
  BY DEF AllSound, AllFinal, Sound, Told, Reported, Final, UnservedNotSampled
<1>2. QED
  BY <1>1, SoundInvariant, FinalInvariant, PTL

\* A decision never changes while the request is being processed.
THEOREM RequestDecisionIsFinal == Spec => DecisionIsFinal
<1>1. Inv /\ AllSound /\ [Next]_vars =>
         [\A r \in Requests : DecisionStep(r)]_vars
  BY SoundStep DEF Kept
<1>2. QED
  BY <1>1, Invariant, SoundInvariant, PTL DEF Spec, DecisionIsFinal

\* Handler, callback, timer and cleanup implement the admission promise.
THEOREM AdmissionRefinement == Spec => ImplementsAdmission
<1>1. Init => Adm!Init
  BY SoundInit
<1>2. Inv /\ AllSound /\ [Next]_vars => [Adm!Next]_(Adm!vars)
  BY SoundStep DEF Kept, AdmissionStep
<1>3. QED
  BY <1>1, <1>2, Invariant, SoundInvariant, PTL
     DEF Spec, ImplementsAdmission, Adm!Spec
=============================================================================
