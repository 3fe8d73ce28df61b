----------------------------- MODULE RnRequest -----------------------------
(***************************************************************************)
(* The life of main HTTP requests in one nginx worker that runs            *)
(* ngx_http_ratelimitly_module: the pre-content handler, the asynchronous  *)
(* check it starts in the RateLimitly C client, the completion callback,   *)
(* the deadline timer, the request cleanup, the log handler, and the state *)
(* the requests share in rn_worker_ctx_t: the in-flight counter and the    *)
(* deferred replacement of the UDP source socket.                          *)
(*                                                                         *)
(* nginx runs one handler at a time, so a handler is one action.  The      *)
(* exception is a handler that calls into code which may call back, resume *)
(* the request and even free it: rn_request_timeout_handler and            *)
(* rn_udp_read_handler.  They are split at that call; `frame' is the       *)
(* suspended C stack frame, and while it is there only the request being   *)
(* resumed inside it may run.                                              *)
(*                                                                         *)
(* nginx itself and the C client are external: they are modelled as the    *)
(* module uses them, the client by the contract of docs/c-client.md.       *)
(*                                                                         *)
(* A definition marked "Fault" is not used: it is the definition after it  *)
(* with a plausible mistake, which one of the properties below rules out.  *)
(***************************************************************************)
EXTENDS Naturals, FiniteSets, RnVerdict

CONSTANTS
    Requests,       \* main requests alive at the same time (slots, reused)
    NoRequest,
    Handles,        \* addresses of r_client_req_t (reused after release)
    NoHandle,       \* NULL
    Locations,      \* nginx locations a request can be routed to
    Conf,           \* Locations -> the rn_loc_conf_t fields that matter here
    Results,        \* answers (r_rate_limit_result_t) a server may give
    Rounds,         \* deadlines of a check before its terminal one
    BatchMax,       \* RN_UDP_READ_BATCH_MAX
    DeadlineAnswers, \* can r_client_request_deadline_ms answer / fail
    MaxRedirects,   \* bound: internal redirects of one request (nginx: 10)
    MaxRebinds      \* bound: source sockets opened in a run

ASSUME ConstantsAssumption ==
    /\ IsFiniteSet(Handles)
    /\ NoRequest \notin Requests
    /\ NoHandle \notin Handles
    /\ Locations # {}
    /\ Conf \in [Locations -> [enabled : BOOLEAN, report_enabled : BOOLEAN,
                               guards : Nat, resources : Nat]]
    /\ Results \subseteq ResultType
    /\ Rounds \in Nat
    /\ BatchMax \in Nat \ {0}
    /\ DeadlineAnswers \subseteq BOOLEAN
    /\ MaxRedirects \in Nat
    /\ MaxRebinds \in Nat \ {0}

VARIABLES
    mcf,        \* rn_main_conf_t: the failure policy, is the worker published
    worker,     \* rn_worker_ctx_t
    creq,       \* the C client's requests, by handle
    http,       \* nginx's side of every request
    ctx,        \* rn_req_ctx_t of every request
    frame,      \* the handler suspended in a call that may call back
    answer,     \* history: what the server decided about the request
    sent,       \* history: RateLimitly checks started for the request
    reported,   \* history: a latency report was sent for the request
    fate        \* history: "open", "refused" by a context that is registered
                \* with the request, or "lost" with its connection

exchange == <<answer, sent, reported>>
history == <<exchange, fate>>
vars == <<mcf, worker, creq, http, ctx, frame, history>>

(***************************************************************************)
(* State                                                                   *)
(***************************************************************************)

\* Where nginx is with a request.  "resumed": rn_rate_cb calls
\* ngx_http_core_run_phases.  "closing": the cleanup handlers have run, the
\* log phase has not.  "free": no request; its pool is destroyed.
Phases == {"free", "routing", "suspended", "resumed", "content", "rejected",
           "closing"}

FreshWorker == [inflight |-> 0, rebind_pending |-> FALSE,
                rebind_scheduled |-> FALSE, udp_read_active |-> FALSE,
                udp_fd |-> 1]

DeadReq == [live |-> FALSE, user |-> NoRequest, src |-> 0, rounds |-> 0]

NoHttp == [phase |-> "free", loc |-> CHOOSE l \in Locations : TRUE,
           slot |-> FALSE, cln |-> FALSE, count |-> 0, redirects |-> 0,
           error |-> FALSE]

\* A zeroed rn_req_ctx_t (ngx_pcalloc).  `r' and `worker' say whether the
\* pointer is set, `timer' is timer.timer_set.
NullCtx == [r |-> FALSE, worker |-> FALSE, req |-> NoHandle,
            guards |-> 0, resources |-> 0, timer |-> FALSE,
            decision |-> "OK", outcome |-> "NONE", cause |-> "NONE",
            waiting |-> FALSE, done |-> FALSE, nginx_counted |-> FALSE,
            inflight_counted |-> FALSE, lat_report_enabled |-> FALSE,
            lat_report_sent |-> FALSE]

NoFrame == [kind |-> "none", r |-> NoRequest, h |-> NoHandle,
            completed |-> FALSE, rc |-> "OK", left |-> 0]

Init ==
    /\ mcf \in [fail_open : BOOLEAN, worker : {FALSE}]
    /\ worker = FreshWorker
    /\ creq = [h \in Handles |-> DeadReq]
    /\ http = [r \in Requests |-> NoHttp]
    /\ ctx = [r \in Requests |-> NullCtx]
    /\ frame = NoFrame
    /\ answer = [r \in Requests |-> "none"]
    /\ sent = [r \in Requests |-> 0]
    /\ reported = [r \in Requests |-> FALSE]
    /\ fate = [r \in Requests |-> "open"]

Idle == frame.kind = "none"

\* The event loop, or the frame that resumed r, may run r now.
MayRun(r) == Idle \/ frame.r = r

\* Everything called from inside the frame has returned to it.
Returned == frame.r \in Requests => http[frame.r].phase # "resumed"

\* Fault: an internal redirect, which clears the slot, loses the context.
FoundInSlot(r) == http[r].slot

\* rn_get_request_ctx: the module slot, else the request's cleanup list.
Found(r) == http[r].slot \/ (http[r].cln /\ ctx[r].r)

(***************************************************************************)
(* rn_schedule_rebind and rn_request_teardown                              *)
(***************************************************************************)

\* rn_schedule_rebind(_after): arms the rebind timer unless a check is in
\* flight; whichever teardown brings inflight to zero calls it again.
ScheduleRebind(w) ==
    IF w.rebind_pending /\ w.inflight = 0 /\ ~w.rebind_scheduled
    THEN [w EXCEPT !.rebind_scheduled = TRUE]
    ELSE w

\* Fault: the handle is not cleared.
TornDownKeepsReq(c) ==
    [c EXCEPT !.timer = FALSE, !.inflight_counted = FALSE,
              !.nginx_counted = FALSE, !.waiting = FALSE]

\* Fault: the context goes on waiting.
TornDownKeepsWaiting(c) ==
    [c EXCEPT !.timer = FALSE, !.req = NoHandle, !.inflight_counted = FALSE,
              !.nginx_counted = FALSE]

\* rn_request_teardown gives every resource of c back at most once; the three
\* operators are its effects on the context, the worker and r->main->count.
TornDown(c) ==
    [c EXCEPT !.timer = FALSE, !.req = NoHandle, !.inflight_counted = FALSE,
              !.nginx_counted = FALSE, !.waiting = FALSE]

\* Fault: the last teardown does not look at a pending rebind.
TeardownWorkerSilent(w, c) ==
    IF c.worker /\ c.inflight_counted /\ w.inflight > 0
    THEN [w EXCEPT !.inflight = @ - 1] ELSE w

\* Fault: a second teardown takes another request's share of the counter.
TeardownWorkerTwice(w, c) ==
    IF ~c.worker THEN w
    ELSE ScheduleRebind(IF w.inflight > 0 THEN [w EXCEPT !.inflight = @ - 1]
                                          ELSE w)

TeardownWorker(w, c) ==
    IF ~c.worker THEN w
    ELSE ScheduleRebind(
            IF c.inflight_counted /\ w.inflight > 0
            THEN [w EXCEPT !.inflight = @ - 1] ELSE w)

\* Fault: the reference is never given back.
TeardownCountLeaks(n, c) == n

\* Fault: a reference is given back that was never taken.
TeardownCountUnguarded(n, c) == n - 1

TeardownCount(n, c) == IF c.nginx_counted /\ c.r /\ n > 0 THEN n - 1 ELSE n

\* r_client_cancel_request, and what the client does before it calls back:
\* the request is retired and its address may be used again.
Retire(h) ==
    creq' = IF h \in Handles THEN [creq EXCEPT ![h] = DeadReq] ELSE creq

(***************************************************************************)
(* ngx_http_rn_handler.  Its paths, in source order.                       *)
(***************************************************************************)

lcf(r) == Conf[http[r].loc]

\* nginx calls the handler for a request that reached the end of the
\* pre-content phase, again on any write event while it is suspended, and
\* from rn_rate_cb.
HandlerCalled(r) ==
    \/ http[r].phase = "suspended" /\ Idle
    \/ http[r].phase \in {"routing", "resumed"} /\ MayRun(r)

\* What nginx's generic phase checker does with the return code.
PhaseAfter(code) ==
    CASE code \in {"OK", "DECLINED"} -> "content"
      [] code = "AGAIN" -> "suspended"
      [] OTHER -> "rejected"

\* The handler returns.  `slot' and `cln' say where the context now is.
Return(r, code, slot, cln, count) ==
    /\ http' = [http EXCEPT ![r] = [@ EXCEPT
                  !.phase = PhaseAfter(code), !.slot = slot, !.cln = cln,
                  !.count = count]]
    /\ fate' = IF cln /\ PhaseAfter(code) = "rejected"
               THEN [fate EXCEPT ![r] = "refused"] ELSE fate

\* Neither rules nor a report here.  Looking the context up has already
\* restored the slot.
HandlerBypass(r) ==
    /\ HandlerCalled(r)
    /\ ~lcf(r).enabled /\ ~lcf(r).report_enabled
    /\ Return(r, "DECLINED", Found(r), http[r].cln, http[r].count)
    /\ UNCHANGED <<mcf, worker, creq, ctx, frame, exchange>>

\* Later routing of the same request reuses its decision; a request that is
\* waiting goes on waiting.
HandlerReuse(r) ==
    /\ HandlerCalled(r)
    /\ lcf(r).enabled \/ lcf(r).report_enabled
    /\ Found(r)
    /\ ctx[r].done \/ ctx[r].waiting
    /\ Return(r, IF ctx[r].done THEN ctx[r].decision ELSE "AGAIN",
              TRUE, http[r].cln, http[r].count)
    /\ UNCHANGED <<mcf, worker, creq, ctx, frame, exchange>>

\* The guard of every path below: a request without an admission context.
HandlerFresh(r) ==
    /\ HandlerCalled(r)
    /\ lcf(r).enabled \/ lcf(r).report_enabled
    /\ ~(Found(r) /\ (ctx[r].done \/ ctx[r].waiting))

\* The context as ngx_pcalloc and the assignments after it leave it.
NewCtx(r) ==
    [NullCtx EXCEPT
        !.r = TRUE, !.decision = "DECLINED",
        !.outcome = IF lcf(r).enabled THEN FailOutcome(mcf.fail_open)
                                      ELSE "NONE"]

\* The request pool gives no context.
HandlerNoMemory(r) ==
    /\ HandlerFresh(r)
    /\ Return(r, "500", Found(r), http[r].cln, http[r].count)
    /\ UNCHANGED <<mcf, worker, creq, ctx, frame, exchange>>

\* ngx_http_cleanup_add fails: the context is in the slot only.
HandlerNoCleanup(r) ==
    /\ HandlerFresh(r)
    /\ ctx' = [ctx EXCEPT ![r] = [NewCtx(r) EXCEPT
                 !.outcome = "INTERNAL_ERROR", !.cause = "NGINX_ERROR",
                 !.done = TRUE]]
    /\ Return(r, "500", TRUE, http[r].cln, http[r].count)
    /\ UNCHANGED <<mcf, worker, creq, frame, exchange>>

\* rn_worker_ensure fails: no client to ask.
HandlerNoWorker(r) ==
    /\ HandlerFresh(r)
    /\ ~mcf.worker
    /\ LET code == IF lcf(r).enabled THEN FailCode(mcf.fail_open)
                                     ELSE "DECLINED"
       IN  /\ ctx' = [ctx EXCEPT ![r] = [NewCtx(r) EXCEPT
                        !.done = TRUE, !.cause = "DEPENDENCY_ERROR",
                        !.decision = code]]
           /\ Return(r, code, TRUE, TRUE, http[r].count)
    /\ UNCHANGED <<mcf, worker, creq, frame, exchange>>

\* From here the worker is published and the context knows it.
\* rn_build_latency_report may fail, which only turns the report off.
WorkerCtx(r, reportBuilt) ==
    [NewCtx(r) EXCEPT !.worker = TRUE,
        !.lat_report_enabled = lcf(r).report_enabled /\ reportBuilt]

Published == mcf' = [mcf EXCEPT !.worker = TRUE]

\* A location that only reports latency never asks.
HandlerReportOnly(r, reportBuilt) ==
    /\ HandlerFresh(r)
    /\ ~lcf(r).enabled
    /\ Published
    /\ ctx' = [ctx EXCEPT ![r] = [WorkerCtx(r, reportBuilt) EXCEPT
                                    !.done = TRUE]]
    /\ Return(r, "DECLINED", TRUE, TRUE, http[r].count)
    /\ UNCHANGED <<worker, creq, frame, exchange>>

\* The check cannot be built or started: rn_finish_preflight_failure (an
\* invalid rendered value) and the async start failure follow the failure
\* policy, rn_finish_internal_error (no memory) is a 500.
HandlerPreflight(r, reportBuilt, cause) ==
    /\ HandlerFresh(r)
    /\ lcf(r).enabled
    /\ Published
    /\ LET internal == cause = "NGINX_ERROR"
           code == IF internal THEN "500" ELSE FailCode(mcf.fail_open)
       IN  /\ ctx' = [ctx EXCEPT ![r] = [WorkerCtx(r, reportBuilt) EXCEPT
                        !.decision = code,
                        !.outcome = IF internal THEN "INTERNAL_ERROR"
                                    ELSE FailOutcome(mcf.fail_open),
                        !.cause = cause, !.done = TRUE,
                        !.guards = IF cause = "START_FAILURE"
                                   THEN lcf(r).guards ELSE 0,
                        !.resources = IF cause = "START_FAILURE"
                                      THEN lcf(r).resources ELSE 0]]
           /\ Return(r, code, TRUE, TRUE, http[r].count)
    /\ UNCHANGED <<worker, creq, frame, exchange>>

\* The context once r_client_check_rate_limit_async_borrowed returned h.  The
\* timer is armed when the client tells the deadline.
StartedCtx(r, h, reportBuilt, deadlineKnown) ==
    [WorkerCtx(r, reportBuilt) EXCEPT
        !.guards = lcf(r).guards, !.resources = lcf(r).resources,
        !.req = h, !.inflight_counted = TRUE, !.timer = deadlineKnown,
        !.waiting = TRUE, !.outcome = "WAITING", !.nginx_counted = TRUE]

\* The check is under way and the request is suspended.
HandlerStart(r, h, reportBuilt, deadlineKnown) ==
    /\ HandlerFresh(r)
    /\ lcf(r).enabled
    /\ ~creq[h].live
    /\ Published
    /\ ctx' = [ctx EXCEPT ![r] = StartedCtx(r, h, reportBuilt, deadlineKnown)]
    /\ worker' = [worker EXCEPT !.inflight = @ + 1]
    /\ creq' = [creq EXCEPT ![h] = [live |-> TRUE, user |-> r,
                                    src |-> worker.udp_fd, rounds |-> Rounds]]
    /\ sent' = [sent EXCEPT ![r] = @ + 1]
    /\ Return(r, "AGAIN", TRUE, TRUE, http[r].count + 1)
    /\ UNCHANGED <<frame, answer, reported>>

\* ngx_handle_read_event fails after the check was sent: everything just
\* acquired is torn down again.
HandlerReadEventFailure(r, reportBuilt) ==
    /\ HandlerFresh(r)
    /\ lcf(r).enabled
    /\ \E h \in Handles : ~creq[h].live
    /\ Published
    /\ LET started == StartedCtx(r, NoHandle, reportBuilt, TRUE)
       IN  /\ ctx' = [ctx EXCEPT ![r] = [TornDown(started) EXCEPT
                        !.decision = "500", !.outcome = "INTERNAL_ERROR",
                        !.cause = "NGINX_ERROR", !.done = TRUE]]
           /\ worker' = TeardownWorker([worker EXCEPT !.inflight = @ + 1],
                                       started)
           /\ Return(r, "500", TRUE, TRUE,
                     TeardownCount(http[r].count + 1, started))
    /\ sent' = [sent EXCEPT ![r] = @ + 1]
    /\ UNCHANGED <<creq, frame, answer, reported>>

Handler(r) ==
    \/ HandlerBypass(r)
    \/ HandlerReuse(r)
    \/ HandlerNoMemory(r)
    \/ HandlerNoCleanup(r)
    \/ HandlerNoWorker(r)
    \/ \E reportBuilt \in BOOLEAN :
          \/ HandlerReportOnly(r, reportBuilt)
          \/ \E cause \in {"DEPENDENCY_ERROR", "NGINX_ERROR", "START_FAILURE"} :
                HandlerPreflight(r, reportBuilt, cause)
          \/ \E h \in Handles, known \in DeadlineAnswers :
                HandlerStart(r, h, reportBuilt, known)
          \/ HandlerReadEventFailure(r, reportBuilt)


(***************************************************************************)
(* rn_rate_cb                                                              *)
(***************************************************************************)

\* The callback acts only on a context that owns the completed handle.
OwnsCallback(r, h) == http[r].slot /\ ctx[r].worker /\ ctx[r].req = h

\* The request's context and nginx's side of it after a completion decided d.
Decided(c, d) ==
    [TornDown(c) EXCEPT !.outcome = d.outcome, !.cause = d.cause,
                        !.decision = d.code, !.done = TRUE]

Resumed(q, c) ==
    [q EXCEPT !.count = TeardownCount(q.count, c), !.phase = "resumed"]

\* Completion of handle h of request r.  The teardown leaves other requests
\* alone; the decision is fixed before the phases run again.
RateCb(r, h, status, result) ==
    IF OwnsCallback(r, h)
    THEN /\ ctx' = [ctx EXCEPT ![r] = Decided(ctx[r],
                      RateDecision(mcf.fail_open, ctx[r].guards,
                                   ctx[r].resources, status, result))]
         /\ worker' = TeardownWorker(worker, ctx[r])
         /\ http' = [http EXCEPT ![r] = Resumed(http[r], ctx[r])]
    ELSE UNCHANGED <<ctx, worker, http>>

\* History: what the completion says about the request, told from the wire
\* contract and not from the code.  "none": no usable decision.
AnswerOf(r, status, result) ==
    LET usable == /\ status = "OK" /\ result.present
                  /\ Len(result.guards) = ctx[r].guards
                  /\ Len(result.resources) = ctx[r].resources
        clear == Result(TRUE, [i \in 1..ctx[r].guards |-> TRUE],
                              [i \in 1..ctx[r].resources |-> 0])
    IN  IF ~usable THEN "none" ELSE IF result = clear THEN "allow" ELSE "deny"

Completions == {<<"OK", res>> : res \in Results}
                  \cup {<<"OK", NoResult>>, <<"ERROR", NoResult>>}

(***************************************************************************)
(* rn_udp_read_handler and r_client_on_datagram                            *)
(***************************************************************************)

UdpReadBegin ==
    /\ Idle
    /\ mcf.worker
    /\ worker' = [worker EXCEPT !.udp_read_active = TRUE]
    /\ frame' = [NoFrame EXCEPT !.kind = "udp", !.left = BatchMax]
    /\ UNCHANGED <<mcf, creq, http, ctx, history>>

\* A datagram that decides the check h.  The reply comes to the socket the
\* check was sent from.  The client unlinks the request, then calls back.
UdpVerdict(h, c) ==
    /\ frame.kind = "udp" /\ frame.left > 0 /\ Returned
    /\ creq[h].live /\ creq[h].src = worker.udp_fd
    /\ Retire(h)
    /\ RateCb(creq[h].user, h, c[1], c[2])
    /\ answer' = [answer EXCEPT ![creq[h].user] =
                    AnswerOf(creq[h].user, c[1], c[2])]
    /\ frame' = [frame EXCEPT !.r = creq[h].user, !.left = @ - 1]
    /\ UNCHANGED <<mcf, sent, reported, fate>>

\* A late, duplicate, invalid or not yet decisive datagram.
UdpOther ==
    /\ frame.kind = "udp" /\ frame.left > 0 /\ Returned
    /\ frame' = [frame EXCEPT !.r = NoRequest, !.left = @ - 1]
    /\ UNCHANGED <<mcf, worker, creq, http, ctx, history>>

\* rn_on_steering_feedback, before or after the completion callback of the
\* same datagram.
UdpSteering(keep_port) ==
    /\ frame.kind = "udp" /\ Returned
    /\ worker.udp_fd < MaxRebinds
    /\ worker' = IF keep_port THEN worker
                 ELSE ScheduleRebind([worker EXCEPT !.rebind_pending = TRUE])
    /\ UNCHANGED <<mcf, creq, http, ctx, frame, history>>

\* EAGAIN, a receive error or an empty datagram; or the batch is used up and
\* the handler posts itself to the next event-loop iteration.
UdpReadEnd ==
    /\ frame.kind = "udp" /\ Returned
    /\ worker' = [worker EXCEPT !.udp_read_active = FALSE]
    /\ frame' = NoFrame
    /\ UNCHANGED <<mcf, creq, http, ctx, history>>

Udp ==
    \/ UdpReadBegin
    \/ \E h \in Handles, c \in Completions : UdpVerdict(h, c)
    \/ UdpOther
    \/ \E keep_port \in BOOLEAN : UdpSteering(keep_port)
    \/ UdpReadEnd

(***************************************************************************)
(* rn_request_timeout_handler and r_client_on_timeout                      *)
(***************************************************************************)

\* Fault: rn_rate_cb does not tell the handler that it has run.
NeverTold(r, h) == FALSE

\* The flag `completed' on the handler's stack, which only rn_rate_cb sets.
ToldCompleted(r, h) == OwnsCallback(r, h)

\* The timer fires before the client's deadline: it is armed again.
TimeoutEarly(r) ==
    /\ Idle
    /\ ctx[r].timer /\ ctx[r].worker /\ ctx[r].req # NoHandle
    /\ TRUE \in DeadlineAnswers
    /\ UNCHANGED vars

\* The client ends the check inside r_client_on_timeout, at its last deadline
\* with a timeout, at any deadline with an answer it already had.
TimeoutCompletes(r, c) ==
    /\ Idle
    /\ ctx[r].timer /\ ctx[r].worker
    /\ LET h == ctx[r].req
       IN  /\ h # NoHandle
           /\ c[1] = "TIMEOUT" => creq[h].rounds = 0
           /\ Retire(h)
           /\ RateCb(r, h, c[1], c[2])
           /\ frame' = [NoFrame EXCEPT !.kind = "timeout", !.r = r, !.h = h,
                          !.completed = ToldCompleted(r, h)]
    /\ answer' = [answer EXCEPT ![r] = AnswerOf(r, c[1], c[2])]
    /\ UNCHANGED <<mcf, sent, reported, fate>>

\* A replay is sent from the socket of the day.
Replayed(c) == [c EXCEPT !.rounds = @ - 1, !.src = worker.udp_fd]

\* r_client_on_timeout returns without a callback: a replay or the final wait
\* has begun (rc OK), or the client failed (rc ERROR).
TimeoutContinues(r, rc) ==
    /\ Idle
    /\ ctx[r].timer /\ ctx[r].worker
    /\ LET h == ctx[r].req
       IN  /\ h # NoHandle
           /\ rc = "OK" => creq[h].rounds > 0
           /\ creq' = IF rc = "OK"
                      THEN [creq EXCEPT ![h] = Replayed(@)]
                      ELSE creq
           /\ frame' = [NoFrame EXCEPT !.kind = "timeout", !.r = r, !.h = h,
                          !.rc = rc]
    /\ ctx' = [ctx EXCEPT ![r] = [@ EXCEPT !.timer = FALSE]]
    /\ UNCHANGED <<mcf, worker, http, history>>

\* Back in the handler: the callback has run, nothing may be touched.
TimeoutReturn ==
    /\ frame.kind = "timeout" /\ frame.completed /\ Returned
    /\ frame' = NoFrame
    /\ UNCHANGED <<mcf, worker, creq, http, ctx, history>>

\* Fault: the next deadline of a live request is forgotten.
TimeoutRearmForgets ==
    /\ frame.kind = "timeout" /\ ~frame.completed /\ frame.rc = "OK"
    /\ TRUE \in DeadlineAnswers
    /\ frame' = NoFrame
    /\ UNCHANGED <<mcf, worker, creq, http, ctx, history>>

\* Back in the handler with a live request: armed for its next deadline.
TimeoutRearm ==
    /\ frame.kind = "timeout" /\ ~frame.completed /\ frame.rc = "OK"
    /\ TRUE \in DeadlineAnswers
    /\ ctx' = [ctx EXCEPT ![frame.r] = [@ EXCEPT !.timer = TRUE]]
    /\ frame' = NoFrame
    /\ UNCHANGED <<mcf, worker, creq, http, history>>

\* The client failed, or no longer tells a deadline: cancel the check and
\* complete it by the failure policy.
TimeoutFails ==
    /\ frame.kind = "timeout" /\ ~frame.completed
    /\ frame.rc = "OK" => FALSE \in DeadlineAnswers
    /\ Retire(frame.h)
    /\ RateCb(frame.r, frame.h, "ERROR", NoResult)
    /\ frame' = [frame EXCEPT !.completed = TRUE]
    /\ UNCHANGED <<mcf, history>>

Timeout ==
    \/ \E r \in Requests :
          \/ TimeoutEarly(r)
          \/ \E c \in Completions \cup {<<"TIMEOUT", NoResult>>} :
                TimeoutCompletes(r, c)
          \/ \E rc \in {"OK", "ERROR"} : TimeoutContinues(r, rc)
    \/ TimeoutReturn
    \/ TimeoutRearm
    \/ TimeoutFails

(***************************************************************************)
(* rn_rebind_handler                                                       *)
(***************************************************************************)

\* Fault: checks in flight do not delay the rebind.
AfterRebindTimerHasty(w0, opened) ==
    LET w == [w0 EXCEPT !.rebind_scheduled = FALSE]
    IN  IF ~w.rebind_pending THEN w
        ELSE IF w.udp_read_active \/ ~opened THEN ScheduleRebind(w)
        ELSE [w EXCEPT !.udp_fd = @ + 1, !.rebind_pending = FALSE]

\* Fault: the request for a new port survives the change.
AfterRebindTimerAgain(w0, opened) ==
    LET w == [w0 EXCEPT !.rebind_scheduled = FALSE]
    IN  IF ~w.rebind_pending \/ w.inflight # 0 THEN w
        ELSE IF w.udp_read_active \/ ~opened THEN ScheduleRebind(w)
        ELSE [w EXCEPT !.udp_fd = @ + 1]

\* Fault: a failure to open the new socket is not retried.
AfterRebindTimerGivesUp(w0, opened) ==
    LET w == [w0 EXCEPT !.rebind_scheduled = FALSE]
    IN  IF ~w.rebind_pending \/ w.inflight # 0 THEN w
        ELSE IF w.udp_read_active \/ ~opened THEN w
        ELSE [w EXCEPT !.udp_fd = @ + 1, !.rebind_pending = FALSE]

\* The worker after the rebind timer fired; opened says whether
\* rn_open_socket_candidate succeeds.  The old socket is kept on failure.
AfterRebindTimer(w0, opened) ==
    LET w == [w0 EXCEPT !.rebind_scheduled = FALSE]
    IN  IF ~w.rebind_pending \/ w.inflight # 0 THEN w
        ELSE IF w.udp_read_active \/ ~opened THEN ScheduleRebind(w)
        ELSE [w EXCEPT !.udp_fd = @ + 1, !.rebind_pending = FALSE]

RebindHandler(opened) ==
    /\ Idle
    /\ worker.rebind_scheduled
    /\ worker' = AfterRebindTimer(worker, opened)
    /\ UNCHANGED <<mcf, creq, http, ctx, frame, history>>

(***************************************************************************)
(* nginx: arrival, internal redirect, end of a request, the verdict        *)
(* variable, and the module's cleanup and log handlers.                    *)
(***************************************************************************)

Arrive(r, loc) ==
    /\ Idle
    /\ http[r].phase = "free"
    /\ http' = [http EXCEPT ![r] = [NoHttp EXCEPT !.phase = "routing",
                                      !.loc = loc, !.count = 1]]
    /\ ctx' = [ctx EXCEPT ![r] = NullCtx]
    /\ answer' = [answer EXCEPT ![r] = "none"]
    /\ sent' = [sent EXCEPT ![r] = 0]
    /\ reported' = [reported EXCEPT ![r] = FALSE]
    /\ fate' = [fate EXCEPT ![r] = "open"]
    /\ UNCHANGED <<mcf, worker, creq, frame>>

\* ngx_http_internal_redirect (index, error_page, X-Accel-Redirect): clears
\* the module slots, keeps the pool and the cleanup list.
Redirected(q, loc) ==
    [q EXCEPT !.phase = "routing", !.loc = loc, !.slot = FALSE,
              !.redirects = @ + 1]

Redirect(r, loc) ==
    /\ MayRun(r)
    /\ http[r].phase \in {"content", "rejected"}
    /\ http[r].redirects < MaxRedirects
    /\ http' = [http EXCEPT ![r] = Redirected(@, loc)]
    /\ UNCHANGED <<mcf, worker, creq, ctx, frame, history>>

\* Fault: a decided request is marked aborted when it is closed.
CleanedUpAborts(c) ==
    [TornDown(c) EXCEPT !.outcome = "ABORTED", !.cause = "CLIENT_ABORT",
                        !.r = FALSE]

\* The effect of rn_request_cleanup on the context, when it is registered.
CleanedUp(c) ==
    [TornDown(c) EXCEPT
        !.outcome = IF c.outcome = "WAITING" THEN "ABORTED" ELSE @,
        !.cause = IF c.outcome = "WAITING" THEN "CLIENT_ABORT" ELSE @,
        !.r = FALSE]

\* nginx takes the cleanup list off the request and runs it.
RunCleanup(r, count, error) ==
    LET c == ctx[r]
    IN  /\ http' = [http EXCEPT ![r] = [@ EXCEPT
                      !.phase = "closing", !.cln = FALSE, !.error = error,
                      !.count = IF http[r].cln THEN TeardownCount(count, c)
                                               ELSE count]]
        /\ fate' = [fate EXCEPT ![r] = IF error THEN "lost" ELSE @]
        /\ IF http[r].cln
           THEN /\ ctx' = [ctx EXCEPT ![r] = CleanedUp(c)]
                /\ worker' = TeardownWorker(worker, c)
                /\ Retire(c.req)
           ELSE UNCHANGED <<ctx, worker, creq>>

\* ngx_http_close_request frees the request once nobody counts on it.  A
\* location may answer before the pre-content phase (`return', a refused
\* access), so a request may end while it is being routed.
Finish(r, error) ==
    /\ MayRun(r)
    /\ http[r].phase \in {"routing", "content", "rejected"}
    /\ http[r].count = 1
    /\ RunCleanup(r, 0, error)
    /\ UNCHANGED <<mcf, frame, exchange>>

\* The client closes the connection: ngx_http_terminate_request, at once.
ClientAbort(r) ==
    /\ Idle
    /\ http[r].phase \in {"suspended", "content"}
    /\ RunCleanup(r, http[r].count, TRUE)
    /\ UNCHANGED <<mcf, frame, exchange>>

\* ngx_http_rn_verdict_variable, wherever the configuration uses it.
VerdictVariable(r) ==
    /\ MayRun(r)
    /\ http[r].phase \in {"routing", "content", "rejected", "closing"}
    /\ http' = [http EXCEPT ![r] = [@ EXCEPT !.slot = Found(r)]]
    /\ UNCHANGED <<mcf, worker, creq, ctx, frame, history>>

\* Fault: latency is reported whatever became of the request.
ReportEligibleAlways(r) ==
    /\ http[r].slot /\ ctx[r].lat_report_enabled /\ ~ctx[r].lat_report_sent
    /\ ~http[r].error
    /\ ctx[r].worker

\* The log handler finds the context in the slot only.
ReportEligible(r) ==
    /\ http[r].slot /\ ctx[r].lat_report_enabled /\ ~ctx[r].lat_report_sent
    /\ ~http[r].error
    /\ ctx[r].outcome \in {"NONE", "VALID_ALLOW", "FAIL_OPEN"}
    /\ ctx[r].worker

\* What other structures may still hold of a context whose pool is destroyed.
Destroyed(c) ==
    [NullCtx EXCEPT !.timer = c.timer, !.req = c.req,
                    !.inflight_counted = c.inflight_counted]

\* ngx_http_rn_log_handler, then nginx destroys the pool.
Log(r) ==
    /\ MayRun(r)
    /\ http[r].phase = "closing"
    /\ reported' = [reported EXCEPT ![r] = ReportEligible(r)]
    /\ ctx' = [ctx EXCEPT ![r] = Destroyed(@)]
    /\ http' = [http EXCEPT ![r] = NoHttp]
    /\ UNCHANGED <<mcf, worker, creq, frame, answer, sent, fate>>

Nginx(r) ==
    \/ \E loc \in Locations : Arrive(r, loc) \/ Redirect(r, loc)
    \/ \E error \in BOOLEAN : Finish(r, error)
    \/ ClientAbort(r)
    \/ VerdictVariable(r)
    \/ Log(r)

Next ==
    \/ \E r \in Requests : Handler(r) \/ Nginx(r)
    \/ Udp
    \/ Timeout
    \/ \E opened \in BOOLEAN : RebindHandler(opened)

Spec == Init /\ [][Next]_vars

(***************************************************************************)
(* Fairness.  nginx's event loop runs every expired timer and every posted *)
(* event, and a handler that was entered returns.  Opening a socket may    *)
(* fail any number of times, not for ever.  Nothing is assumed of the      *)
(* network, of HTTP clients or of content handlers.                        *)
(***************************************************************************)

\* An expired request timer is served until the client completes the check.
TimerServed(r) ==
    \/ \E c \in Completions \cup {<<"TIMEOUT", NoResult>>} :
          TimeoutCompletes(r, c)
    \/ \E rc \in {"OK", "ERROR"} : TimeoutContinues(r, rc)

FrameReturns ==
    \/ TimeoutReturn \/ TimeoutRearm \/ TimeoutFails \/ UdpReadEnd

Fairness ==
    /\ WF_vars(FrameReturns)
    /\ \A r \in Requests :
          /\ SF_vars(TimerServed(r))
          /\ WF_vars(http[r].phase = "resumed" /\ Handler(r))
    /\ SF_vars(RebindHandler(TRUE))

FairSpec == Spec /\ Fairness

(***************************************************************************)
(* Properties                                                              *)
(***************************************************************************)

CtxType == [r : BOOLEAN, worker : BOOLEAN, req : Handles \cup {NoHandle},
            guards : Nat, resources : Nat, timer : BOOLEAN,
            decision : Codes, outcome : Outcomes, cause : Causes,
            waiting : BOOLEAN, done : BOOLEAN, nginx_counted : BOOLEAN,
            inflight_counted : BOOLEAN, lat_report_enabled : BOOLEAN,
            lat_report_sent : BOOLEAN]

WorkerType == [inflight : Nat, rebind_pending : BOOLEAN,
               rebind_scheduled : BOOLEAN, udp_read_active : BOOLEAN,
               udp_fd : Nat]

CreqType == [live : BOOLEAN, user : Requests \cup {NoRequest}, src : Nat,
             rounds : Nat]

HttpType == [phase : Phases, loc : Locations, slot : BOOLEAN, cln : BOOLEAN,
             count : Nat, redirects : Nat, error : BOOLEAN]

FrameType == [kind : {"none", "timeout", "udp"},
              r : Requests \cup {NoRequest}, h : Handles \cup {NoHandle},
              completed : BOOLEAN, rc : {"OK", "ERROR"}, left : Nat]

\* Every variable keeps its type; in particular neither the in-flight counter
\* nor r->main->count ever goes below zero.  What calls back was asked by a
\* request.
TypeOK ==
    /\ mcf \in [fail_open : BOOLEAN, worker : BOOLEAN]
    /\ worker \in WorkerType
    /\ creq \in [Handles -> CreqType]
    /\ http \in [Requests -> HttpType]
    /\ ctx \in [Requests -> CtxType]
    /\ frame \in FrameType
    /\ answer \in [Requests -> {"none", "allow", "deny"}]
    /\ sent \in [Requests -> Nat]
    /\ reported \in [Requests -> BOOLEAN]
    /\ fate \in [Requests -> {"open", "refused", "lost"}]
    /\ \A h \in Handles : creq[h].live => creq[h].user \in Requests
    /\ frame.kind = "timeout" => frame.r \in Requests /\ frame.h \in Handles

Live == {h \in Handles : creq[h].live}

\* A check the C client still runs belongs to exactly one suspended request
\* whose context the completion callback finds through the module slot, and a
\* context never holds a handle the client has already released, although
\* addresses are reused: rn_rate_cb is never lost and never hits a freed or
\* foreign context.
Ownership ==
    /\ \A h \in Live :
          /\ creq[h].user \in Requests
          /\ OwnsCallback(creq[h].user, h)
          /\ http[creq[h].user].phase = "suspended"
    /\ \A r \in Requests :
          ctx[r].req # NoHandle => /\ ctx[r].req \in Live
                                   /\ creq[ctx[r].req].user = r

\* rn_worker_ctx_t.inflight is the number of checks the C client really runs,
\* through every path that starts, completes, cancels or aborts one.
InflightExact == worker.inflight = Cardinality(Live)

\* No lost wakeup: a requested source-port change that nothing delays has its
\* timer armed, whatever the order of steering feedback, completions, aborts
\* and failed attempts to open the new socket.
NoLostRebind ==
    worker.rebind_pending /\ worker.inflight = 0 => worker.rebind_scheduled

\* The source socket of a check stays the worker's socket until the check
\* ends: a rebind never discards an answer that is still awaited.
SameSourcePort == \A h \in Live : creq[h].src = worker.udp_fd

\* r->main->count holds nginx's own reference, and the module's only while
\* the request is suspended: the request is neither freed under the module
\* nor leaked after it.
CountBalanced ==
    \A r \in Requests :
        /\ http[r].phase \in {"routing", "resumed", "content", "rejected"}
              => http[r].count = 1
        /\ http[r].phase = "suspended" => http[r].count = 2

\* When r_client_on_timeout returned without a callback, the context and the
\* handle rn_request_timeout_handler goes on to use are still alive: the
\* stack flag `completed' is enough to tell.
FrameAlive ==
    frame.kind = "timeout" /\ ~frame.completed =>
        /\ frame.h \in Live
        /\ ctx[frame.r].req = frame.h
        /\ http[frame.r].phase = "suspended"

\* A suspended request holds everything a check needs - the handle, its share
\* of inflight, a reference on the request, a registered cleanup and a slot
\* that leads to the context - and any other request holds none of it and no
\* timer: nothing is leaked or given back twice on any path.
HoldsWhileSuspended ==
    \A r \in Requests :
        IF http[r].phase = "suspended"
        THEN /\ ctx[r].r /\ ctx[r].worker /\ ctx[r].waiting /\ ~ctx[r].done
             /\ ctx[r].inflight_counted /\ ctx[r].nginx_counted
             /\ ctx[r].req \in Handles /\ ctx[r].req \in Live
             /\ http[r].slot /\ http[r].cln /\ http[r].count = 2
             /\ lcf(r).enabled
        ELSE /\ ctx[r].req = NoHandle /\ ~ctx[r].waiting /\ ~ctx[r].timer
             /\ ~ctx[r].inflight_counted /\ ~ctx[r].nginx_counted

\* One HTTP request starts at most one RateLimitly check, however often it is
\* internally redirected, woken or failed.
SingleCheck == \A r \in Requests : sent[r] <= 1

\* A refusal whose context was registered with the request (the server's
\* denial, ratelimitly_fail close, a 500 after ngx_http_cleanup_add) is final:
\* however the request is redirected afterwards, it never reaches the content
\* of a location with effective rules, and neither does one the server denied.
\* A 500 from before the registration is forgotten at the next redirect and is
\* not covered: the request is then served by a check of its own.
RefusalIsFinal ==
    \A r \in Requests :
        http[r].phase = "content" /\ lcf(r).enabled =>
            /\ fate[r] # "refused" /\ answer[r] # "deny"
            /\ ctx[r].outcome \in {"NONE", "VALID_ALLOW", "FAIL_OPEN"}

\* $ratelimitly_verdict, read from a context that is not lost, says "allow"
\* or "deny" exactly when the server gave that well-formed answer to this
\* very request; the failure policy never looks like a verdict.
VerdictProvenance ==
    \A r \in Requests : http[r].phase # "free" =>
        /\ (ctx[r].outcome = "VALID_ALLOW") <=> (answer[r] = "allow")
        /\ (ctx[r].outcome = "VALID_DENY") <=> (answer[r] = "deny")

\* Latency is reported only for work that was done for the client: never of
\* a request the server denied, nor of one that a registered context refused
\* anywhere on its way, before or after anything was sent, nor of one whose
\* connection was lost, nor of one whose check ended without an answer under
\* ratelimitly_fail close.
UnservedNotSampled ==
    \A r \in Requests : reported[r] =>
        /\ answer[r] # "deny" /\ fate[r] = "open"
        /\ sent[r] > 0 /\ answer[r] = "none" => mcf.fail_open

\* Once a request with a registered cleanup has a decision, no later callback,
\* timer, redirect or handler call changes the decision or its cause while
\* the request is being processed.
DecisionStep(r) ==
    /\ ctx[r].done /\ http[r].cln
    /\ http'[r].phase # "free"
    => /\ ctx'[r].done
       /\ ctx'[r].decision = ctx[r].decision
       /\ ctx'[r].outcome = ctx[r].outcome
       /\ ctx'[r].cause = ctx[r].cause

DecisionIsFinal == [][\A r \in Requests : DecisionStep(r)]_vars

\* Every suspended request is resumed or closed: each check ends, by an
\* answer or after a bounded number of deadlines.
WaitingEnds ==
    \A r \in Requests :
        http[r].phase = "suspended" ~> http[r].phase # "suspended"

\* A requested source-port change happens once no check is in flight any
\* more, provided a new socket can be opened again and again.
RebindHappens ==
    (worker.rebind_pending /\ [](worker.inflight = 0)) ~> ~worker.rebind_pending

(***************************************************************************)
(* Refinement                                                              *)
(***************************************************************************)

Port == INSTANCE SourcePort WITH
            Checks <- Handles, outstanding <- Live,
            port <- worker.udp_fd, wanted <- worker.rebind_pending

\* The counter inflight, the two rebind flags and the deferred timer implement
\* the source-port promise: the socket changes only after a steering request
\* and only while the C client runs no check.
ImplementsSourcePort == Port!Spec

\* A decision counts once the context is registered with the request.
verdictOf(r) ==
    IF http[r].phase \in {"free", "closing"} THEN "none"
    ELSE IF ~http[r].cln THEN "undecided"
    ELSE IF ctx[r].waiting THEN "asking"
    ELSE CASE ctx[r].decision = "OK" -> "admitted"
           [] ctx[r].decision = "DECLINED" -> "exempt"
           [] OTHER -> "refused"

servedOf(r) == http[r].phase = "content" /\ lcf(r).enabled

Adm == INSTANCE Admission WITH
           verdict <- [r \in Requests |-> verdictOf(r)],
           served <- [r \in Requests |-> servedOf(r)]

\* The handler, callback, timer and cleanup implement the admission promise:
\* one check, one decision, and no protected content without it.
ImplementsAdmission == Adm!Spec

(***************************************************************************)
(* What the documents say and the code does not do.                        *)
(***************************************************************************)

\* spec/behavior.md: a protected main request that reaches the admission
\* point makes one combined check.  So whatever reaches the content of a
\* location with effective rules was allowed, or let through by fail-open.
ProtectedIsChecked ==
    \A r \in Requests :
        http[r].phase = "content" /\ lcf(r).enabled =>
            ctx[r].outcome \in {"VALID_ALLOW", "FAIL_OPEN"}

\* docs/operations.md: a dash for $ratelimitly_verdict in the access log means
\* that the request had no valid decision.
VerdictLogged ==
    \A r \in Requests :
        http[r].phase = "closing" /\ answer[r] # "none" => Found(r)
=============================================================================
