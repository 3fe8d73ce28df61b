------------------------------ MODULE RnWorker ------------------------------
(***************************************************************************)
(* The worker-local client of one nginx process: its lazy creation on the  *)
(* first request with back-off after failures (rn_worker_ensure,           *)
(* rn_worker_init), the replacement of its UDP endpoint (rn_rebind_socket) *)
(* and its destruction when the process exits.  Each of these is one call  *)
(* in the code, split here after every operation that acquires or gives    *)
(* back a resource, so that every failure in the middle is a behaviour and *)
(* what it leaves behind is visible.  nginx does nothing else meanwhile.   *)
(*                                                                         *)
(* A definition marked "Fault" is not used: it is the definition after it  *)
(* with a plausible mistake, which one of the properties below rules out.  *)
(***************************************************************************)
EXTENDS Integers

CONSTANTS
    InitialDelay,   \* RN_INIT_RETRY_INITIAL_MS
    MaxDelay,       \* RN_INIT_RETRY_MAX_MS
    Modulus,        \* ngx_msec_t counts modulo this: 2^32 on 32-bit builds
    Ticks,          \* steps of the clock, in milliseconds
    MaxTime,        \* bound: time a run may take
    MaxEndpoints    \* bound: endpoints opened in a run

ASSUME DelayAssumption ==
    /\ InitialDelay \in Nat \ {0}
    /\ MaxDelay \in Nat /\ MaxDelay % 2 = 0
    /\ InitialDelay <= MaxDelay
    /\ Modulus \in Nat /\ Modulus > 2 * MaxDelay /\ Modulus % 2 = 0
    /\ Ticks \subseteq Nat \ {0}
    /\ MaxTime \in Nat
    /\ MaxEndpoints \in Nat \ {0}

VARIABLES
    now,                \* the time since the machine started, in milliseconds
    init_retry_at,      \* an ngx_msec_t; 0: no failed attempt to wait for
    init_retry_delay,
    published,          \* mcf->worker is set
    mem,                \* heap blocks and the C client that exist
    fds,                \* open sockets that have no connection yet
    conns,              \* open connections, each with its socket
    udp,                \* worker->udp_conn, 0 when NULL
    timer,              \* the rebind timer, which lies in the worker, is armed
    opened,             \* endpoints opened so far; the last is the candidate
    job,                \* what the running call is for
    step,               \* the next operation of the running call
    failedAt,           \* history: when the last attempt failed
    backoff             \* history: the documented wait after it, 0 for none

clock == <<now, init_retry_at, init_retry_delay>>
resources == <<published, mem, fds, conns, udp, timer, opened>>
past == <<failedAt, backoff>>
vars == <<clock, resources, job, step, past>>

Init ==
    /\ now = 0 /\ init_retry_at = 0 /\ init_retry_delay = 0
    /\ published = FALSE /\ mem = {} /\ fds = {} /\ conns = {}
    /\ udp = 0 /\ timer = FALSE /\ opened = 0
    /\ job = "none" /\ step = "none"
    /\ failedAt = 0 /\ backoff = 0

Running == job = "none"

Tick(d) ==
    /\ Running /\ now + d <= MaxTime
    /\ now' = now + d
    /\ UNCHANGED <<init_retry_at, init_retry_delay, resources, job, step, past>>

(***************************************************************************)
(* rn_worker_ensure                                                        *)
(***************************************************************************)

\* ngx_current_msec at time t.
Msec(t) == t % Modulus

\* Fault: the times are compared as numbers.
MayAttemptInOrder == init_retry_at = 0 \/ init_retry_at <= Msec(now)

\* init_retry_at is no time at all, or the signed difference to the clock is
\* not positive.
MayAttempt ==
    \/ init_retry_at = 0
    \/ Msec(init_retry_at - now) \notin 1..(Modulus \div 2 - 1)

\* A request finds no worker, and the back-off is not over: NGX_AGAIN.
EnsureAgain ==
    /\ Running /\ ~published
    /\ ~MayAttempt
    /\ UNCHANGED vars

\* A request finds no worker: an attempt begins.
EnsureBegin ==
    /\ Running /\ ~published
    /\ MayAttempt
    /\ init_retry_at' = 0
    /\ job' = "init" /\ step' = "worker"
    /\ UNCHANGED <<now, init_retry_delay, resources, past>>

\* Fault: the delay doubles without end.
NextDelayUnbounded(d) == d * 2

\* The delay that follows delay d.
NextDelay(d) == IF d < MaxDelay \div 2 THEN d * 2 ELSE MaxDelay

\* docs/operations.md: the wait starts with InitialDelay, doubles with every
\* failure in a row and is at most MaxDelay.
DocumentedWait(last) ==
    CASE last = 0 -> InitialDelay
      [] last > 0 /\ 2 * last <= MaxDelay -> 2 * last
      [] OTHER -> MaxDelay

EnsureFailed ==
    /\ job = "init" /\ step = "failed"
    /\ LET delay == IF init_retry_delay = 0 THEN InitialDelay
                                            ELSE init_retry_delay
       IN  /\ init_retry_at' = Msec(now + delay)
           /\ init_retry_delay' = NextDelay(delay)
    /\ job' = "none" /\ step' = "none"
    /\ failedAt' = now /\ backoff' = DocumentedWait(backoff)
    /\ UNCHANGED <<now, resources>>

(***************************************************************************)
(* rn_worker_init: three allocations, the endpoint, the client.            *)
(***************************************************************************)

\* The allocation that follows; "socket" is the first step of the endpoint.
After(what) == CASE what = "worker" -> "dns"
                 [] what = "dns" -> "secret"
                 [] what = "secret" -> "socket"

Allocate(what) ==
    /\ job = "init" /\ step = what
    /\ mem' = mem \cup {what}
    /\ step' = After(what)
    /\ UNCHANGED <<clock, published, fds, conns, udp, timer, opened, job, past>>

\* Without the worker block there is nothing to give back.
AllocationFails(what) ==
    /\ job = "init" /\ step = what
    /\ step' = IF what = "worker" THEN "failed" ELSE "release"
    /\ UNCHANGED <<clock, resources, job, past>>

\* r_client_create, which borrows the buffers only while it runs.
CreateClient ==
    /\ job = "init" /\ step = "client"
    /\ mem' = mem \cup {"client"}
    /\ step' = "publish"
    /\ UNCHANGED <<clock, published, fds, conns, udp, timer, opened, job, past>>

CreateClientFails ==
    /\ job = "init" /\ step = "client"
    /\ step' = "release"
    /\ UNCHANGED <<clock, resources, job, past>>

\* Fault: the copy of the secret stays in memory.
ReleasedNameOnly(m) == m \ {"dns"}

\* rn_worker_release_config_buffers: the copies of the tenant name and of the
\* secret are wiped and freed, on success and on failure.
Released(m) == m \ {"dns", "secret"}

\* Only a complete worker is published, and success clears the back-off.
Publish ==
    /\ job = "init" /\ step = "publish"
    /\ mem' = Released(mem)
    /\ published' = TRUE
    /\ init_retry_delay' = 0
    /\ job' = "none" /\ step' = "none"
    /\ backoff' = 0
    /\ UNCHANGED <<now, init_retry_at, fds, conns, udp, timer, opened, failedAt>>

Release ==
    /\ job = "init" /\ step = "release"
    /\ mem' = Released(mem)
    /\ step' = "destroy"
    /\ UNCHANGED <<clock, published, fds, conns, udp, timer, opened, job, past>>

(***************************************************************************)
(* rn_open_socket_candidate, for rn_worker_init and rn_rebind_socket.      *)
(***************************************************************************)

\* rn_schedule_rebind: the client wants another source port (RnRequest models
\* when).
Schedule ==
    /\ Running /\ published /\ ~timer
    /\ timer' = TRUE
    /\ UNCHANGED <<clock, published, mem, fds, conns, udp, opened, job, step, past>>

\* The timer fires while checks are in flight: rn_rebind_handler returns.
RebindPostponed ==
    /\ Running /\ timer
    /\ timer' = FALSE
    /\ UNCHANGED <<clock, published, mem, fds, conns, udp, opened, job, step, past>>

\* The timer fires with no check in flight: rn_rebind_socket.
RebindBegin ==
    /\ Running /\ timer
    /\ timer' = FALSE
    /\ job' = "rebind" /\ step' = "socket"
    /\ UNCHANGED <<clock, published, mem, fds, conns, udp, opened, past>>

\* On failure the worker keeps what it has: nothing, or the old endpoint.
OpenFailed == step' = IF job = "init" THEN "release" ELSE "retry"

\* Without ratelimitly_bind an IPv6 socket is tried, then an IPv4 one.
Socket ==
    /\ step = "socket"
    /\ opened < MaxEndpoints
    /\ opened' = opened + 1
    /\ fds' = fds \cup {opened + 1}
    /\ step' = "bind"
    /\ UNCHANGED <<clock, published, mem, conns, udp, timer, job, past>>

SocketFails ==
    /\ step = "socket"
    /\ OpenFailed
    /\ UNCHANGED <<clock, resources, job, past>>

\* Non-blocking mode, bind to port 0 and ngx_get_connection: from then on the
\* connection owns the socket.
Connect ==
    /\ step = "bind"
    /\ fds' = fds \ {opened}
    /\ conns' = conns \cup {opened}
    /\ step' = "listen"
    /\ UNCHANGED <<clock, published, mem, udp, timer, opened, job, past>>

\* Any of the three fails: ngx_close_socket.
ConnectFails ==
    /\ step = "bind"
    /\ fds' = fds \ {opened}
    /\ OpenFailed
    /\ UNCHANGED <<clock, published, mem, conns, udp, timer, opened, job, past>>

\* ngx_add_event.  A rebind then replaces the endpoint and closes the old one.
Listen ==
    /\ step = "listen"
    /\ udp' = opened
    /\ conns' = IF job = "rebind" THEN conns \ {udp} ELSE conns
    /\ step' = IF job = "init" THEN "client" ELSE "done"
    /\ UNCHANGED <<clock, published, mem, fds, timer, opened, job, past>>

\* ngx_close_connection closes the socket too.
ListenFails ==
    /\ step = "listen"
    /\ conns' = conns \ {opened}
    /\ OpenFailed
    /\ UNCHANGED <<clock, published, mem, fds, udp, timer, opened, job, past>>

\* A rebind that failed is tried again after RN_REBIND_RETRY_MS.
RebindDone ==
    /\ job = "rebind" /\ step \in {"done", "retry"}
    /\ timer' = (step = "retry")
    /\ job' = "none" /\ step' = "none"
    /\ UNCHANGED <<clock, published, mem, fds, conns, udp, opened, past>>

(***************************************************************************)
(* rn_worker_cleanup, at the end of a failed attempt and of rn_exit_process *)
(***************************************************************************)

\* Fault: the endpoint is closed under the client.
ExitBeginClosing ==
    /\ Running /\ published
    /\ published' = FALSE
    /\ job' = "exit" /\ step' = "close"
    /\ UNCHANGED <<clock, mem, fds, conns, udp, timer, opened, past>>

\* The process exits; the worker is unpublished first.
ExitBegin ==
    /\ Running /\ published
    /\ published' = FALSE
    /\ job' = "exit" /\ step' = "destroy"
    /\ UNCHANGED <<clock, mem, fds, conns, udp, timer, opened, past>>

TimerDeleted == FALSE

\* The timer is deleted; then r_client_destroy cancels DNS lookups through the
\* worker's adapters (RnResolve).
DestroyClient ==
    /\ step = "destroy"
    /\ timer' = TimerDeleted
    /\ mem' = mem \ {"client"}
    /\ step' = "close"
    /\ UNCHANGED <<clock, published, fds, conns, udp, opened, job, past>>

CloseEndpoint ==
    /\ step = "close"
    /\ conns' = conns \ {udp}
    /\ udp' = 0
    /\ step' = "free"
    /\ UNCHANGED <<clock, published, mem, fds, timer, opened, job, past>>

FreeWorker ==
    /\ step = "free"
    /\ mem' = mem \ {"worker"}
    /\ step' = IF job = "init" THEN "failed" ELSE "none"
    /\ job' = IF job = "init" THEN "init" ELSE "exited"
    /\ UNCHANGED <<clock, published, fds, conns, udp, timer, opened, past>>

\* The master process starts another worker process with fresh state.
Respawn ==
    /\ job = "exited"
    /\ job' = "none" /\ step' = "none"
    /\ init_retry_at' = 0 /\ init_retry_delay' = 0
    /\ published' = FALSE /\ mem' = {} /\ fds' = {} /\ conns' = {} /\ udp' = 0
    /\ timer' = FALSE
    /\ failedAt' = 0 /\ backoff' = 0
    /\ UNCHANGED <<now, opened>>

Next ==
    \/ \E d \in Ticks : Tick(d)
    \/ EnsureAgain \/ EnsureBegin \/ EnsureFailed
    \/ \E what \in {"worker", "dns", "secret"} :
          Allocate(what) \/ AllocationFails(what)
    \/ CreateClient \/ CreateClientFails \/ Publish \/ Release
    \/ Schedule \/ RebindPostponed \/ RebindBegin \/ RebindDone
    \/ Socket \/ SocketFails \/ Connect \/ ConnectFails
    \/ Listen \/ ListenFails
    \/ ExitBegin \/ DestroyClient \/ CloseEndpoint \/ FreeWorker \/ Respawn

Spec == Init /\ [][Next]_vars

(***************************************************************************)
(* Properties                                                              *)
(***************************************************************************)

Blocks == {"worker", "dns", "secret", "client"}

Steps == {"none", "worker", "dns", "secret", "socket", "bind", "listen",
          "client", "publish", "release", "destroy", "close", "free",
          "failed", "done", "retry"}

\* Every variable keeps its type, and the back-off its maximum.
TypeOK ==
    /\ now \in Nat /\ init_retry_at \in 0..Modulus - 1
    /\ init_retry_delay \in 0..MaxDelay
    /\ published \in BOOLEAN /\ timer \in BOOLEAN
    /\ mem \subseteq Blocks
    /\ fds \subseteq 1..opened /\ conns \subseteq 1..opened
    /\ udp \in 0..opened /\ opened \in Nat
    /\ job \in {"none", "init", "rebind", "exit", "exited"}
    /\ step \in Steps
    /\ failedAt \in Nat /\ backoff \in 0..MaxDelay

\* Between calls the worker is either complete, with one endpoint and without
\* the secret's copy, or there is nothing left of it: whichever operation of
\* an attempt or of a rebind failed, it leaks no memory, socket or client and
\* never publishes half a worker.
AllOrNothing ==
    job \in {"none", "exited"} =>
        /\ fds = {}
        /\ IF published
           THEN mem = {"worker", "client"} /\ conns = {udp}
           ELSE mem = {} /\ conns = {} /\ udp = 0

\* The C client never outlives the structure its callbacks use nor the UDP
\* endpoint it sends through, also during a rebind and during destruction.
ClientHasAdapters == "client" \in mem => "worker" \in mem /\ udp \in conns

\* A timer that lies in freed memory is never armed, and a rebind is only ever
\* scheduled for the worker that requests use: exit, a failed attempt and the
\* repetition of a failed rebind included.
TimerHasWorker ==
    /\ timer => "worker" \in mem /\ (published \/ job = "exit")
    /\ job = "rebind" => published

\* When the back-off of the previous failures is over.
Due == failedAt + backoff

\* An attempt never begins before the back-off that the previous failures call
\* for is over, wherever the clock wraps in between.  The one exception: a
\* due time whose reading is 0 looks like no back-off at all.
BackoffSpacing ==
    backoff > 0 /\ job = "init" => now >= Due \/ Msec(Due) = 0

\* Once the back-off is over, the next request attempts again, unless none
\* came for half of the clock's range: no wrap of the clock keeps a worker
\* without a client.
NotLockedOut ==
    /\ backoff > 0 /\ job = "none" /\ ~published
    /\ now \in Due..(Due + Modulus \div 2)
    => MayAttempt

\* What rn_worker_init and rn_schedule_rebind hand out pointers to outlives
\* those who hold them: the client its adapters, the armed timer its worker.
NothingDangles == ClientHasAdapters /\ TimerHasWorker

\* rn_worker_ensure attempts neither before the documented back-off is over
\* nor, for want of reading a wrapped clock correctly, never again.
BackoffExact == BackoffSpacing /\ NotLockedOut
=============================================================================
