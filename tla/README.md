# rl-nginx: a TLA+ model of ngx_http_ratelimitly_module

rl-nginx is an nginx HTTP module that asks a RateLimitly service, over UDP and
through an asynchronous C client, whether a main request may proceed. This
directory models the module: the requests, the worker-local client, the DNS
adapter with the records it copies, the configuration and what a request makes
of it, and the parsers and limits underneath. Paths are relative to the
repository root; line numbers refer to `src/ngx_http_ratelimitly_module.c`
unless another file is named.

## The system and its parts

| Part | State | Operations | Modelled in |
| --- | --- | --- | --- |
| Request admission | `rn_req_ctx_t` per main request (187-206); nginx's module slot, cleanup list and `r->main->count` | `ngx_http_rn_handler` 590-976, `rn_rate_cb` 3900-4006, `rn_request_timeout_handler` 3712-3771, `rn_request_teardown` 3773-3815, `rn_request_cleanup` 3817-3828, `ngx_http_rn_verdict_variable` 524-559, `ngx_http_rn_log_handler` 3830-3898 | `RnRequest` |
| Verdict classification | none | the decision part of `rn_rate_cb` | `RnVerdict` |
| UDP endpoint and steering | `inflight`, `rebind_pending`, `rebind_scheduled`, `udp_read_active`, the socket (135-161) | `rn_udp_read_handler` 3637-3710, `rn_on_steering_feedback` 2722-2733, `rn_schedule_rebind_after`, `rn_rebind_handler` 3595-3635 | `RnRequest` |
| Worker client | `mcf->worker`, `init_retry_at`, `init_retry_delay`, heap blocks, sockets, connections | `rn_worker_ensure`, `rn_worker_init`, `rn_open_socket_candidate`, `rn_rebind_socket`, `rn_worker_cleanup`, `rn_exit_process` (3054-3593), and the rebind timer as the owner of a pointer to the worker | `RnWorker` |
| DNS adapter | `rn_dns_req_t` with `rn_async_state_t` per lookup | `rn_resolve_srv`, `rn_resolve_addrs`, their handlers, `rn_resolve_cancel` (2756-3315), `src/rn_async_state.c` | `RnResolve` |
| SRV and address records | none (allocating) | `rn_resolve_srv_handler`, `rn_resolve_addr_handler`, `src/rn_srv_records.c`, `src/rn_addr_records.c` | `RnRecords` |
| Numbers and rates | none | `src/rn_numeric.c` | `RnNumeric`, `RnParse` |
| Request policy | `request_policy`, its kind and whether it is set | `ngx_http_rn_set_policy`, `rn_parse_policy_schedule`, `rn_policy_schedule_units`, `rn_policy_horizon_ms` (1310-1751) | `RnPolicy` |
| Latency sample | `r->start_sec`, `r->start_msec` | 3870-3898 | `RnLatency` |
| Configuration and rule expansion | zones, groups, trackers, guards; `rn_loc_conf_t` per block | directive handlers, merging, `ngx_http_rn_init`, the expansion 717-899 | `RnConfig`; `RnRequest` takes its result as the constant `Conf` |
| System resolver | `resolver`, `resolver_timeout` | `src/rn_resolv_conf.c`, `ngx_http_rn_set_dns_resolver`, `rn_create_system_dns_resolver`, the choice in `ngx_http_rn_init` | `RnResolvConf`, `RnSystemDns` |
| nginx, C client | - | external | as the module uses them |

How they interact. nginx calls the handler at the end of the pre-content phase.
The first request makes the worker client. The handler starts a check in the C
client with `rn_rate_cb` as callback, counts it in `inflight`, arms a deadline
timer, takes a reference on the request and suspends it. The callback comes
from a datagram (`rn_udp_read_handler`) or from a deadline
(`rn_request_timeout_handler`), in both cases synchronously inside the call
into the client. It tears the check down, fixes the decision and resumes the
request *on the same stack*, so that the request may be finished, logged and
freed before the call returns. A datagram may also carry a demand for another
source port, which is deferred until no check is in flight. The client calls
back into the DNS adapter, and nginx's resolver may answer inside
`ngx_resolve_name`.

What is hard here: callbacks that free the structure their caller still uses;
handles that are addresses and reused; a deferred wakeup with many paths that
must remember it; internal redirects that clear the module slot; the failure of
any one of several steps; clients that go away at any time; a client that is
destroyed with lookups pending; a clock that wraps and one that is set back;
names looked up at run time that were checked while the file was still being
read; 32-bit sums and products of numbers an administrator chose. `PROJECT.json`
lists these hazards at their lines, with the properties aimed at them.

## Modules

`RnVerdict` holds the enumerations and `RateDecision`, the classification of a
completion.

`RnRequest` is the core. nginx runs one handler at a time, so a handler is one
action; the two handlers that call into code which may call back are split at
that call, and `frame` is the suspended stack frame with its local variables
(`completed`, the handle, the number of datagrams left). While a frame is
there, only the request resumed inside it may run.

| Variable | Code |
| --- | --- |
| `mcf` | `fail_open`, and whether `mcf->worker` is set |
| `worker` | the five fields named above; sockets are numbered in order |
| `creq` | the C client's live requests by address: user pointer, the socket last sent from, deadlines left |
| `http` | nginx's side: phase, location, module slot, cleanup registered, `count`, connection error |
| `ctx` | `rn_req_ctx_t`, pointers reduced to set or not set |
| `frame` | the C frame suspended in `r_client_on_timeout` or `r_client_on_datagram` |
| `answer`, `sent`, `reported` | history: what the server said, checks started, samples sent |
| `fate` | history: a registered context refused the request, or its connection was lost |

Each return path of `ngx_http_rn_handler` is an action, in source order:
`HandlerBypass`, `HandlerReuse`, `HandlerNoMemory`, `HandlerNoCleanup`,
`HandlerNoWorker`, `HandlerReportOnly`, `HandlerPreflight` (an invalid rendered
value, an allocation failure, or a failed start), `HandlerStart` and
`HandlerReadEventFailure`. `RateCb`, `TornDown` with `TeardownWorker` and
`TeardownCount`, `CleanedUp` and `AfterRebindTimer` translate the functions of
those names. `Redirect`, `Finish`, `ClientAbort` and the phase engine are
nginx's; the client's behaviour (a request is unlinked before its callback,
addresses are reused, a check has a bounded number of deadlines) follows
`docs/c-client.md` and the calls in the module.

`SourcePort` and `Admission` are abstract: what the module promises about its
source port and about the decision of a request. `RnRequest` instantiates both
(`Port`, `Adm`) and states the refinements `ImplementsSourcePort` and
`ImplementsAdmission`.

`RnWorker` splits worker initialisation, rebind and exit at every call that
acquires or releases something. `mem`, `fds` and `conns` are what exists;
`job` and `step` are where the running call is; `timer` is the rebind timer,
whose event lies in the worker. `now` is the true time, and the code reads
`Msec(now)`, which wraps at `Modulus`, as `ngx_current_msec` does on builds with
a 32-bit `ngx_msec_t`; `MayAttempt` is the signed comparison of 3556.

`RnResolve` follows lookups through their C stack: a lookup is started, the
answer comes synchronously, later or never, the client's callback may start or
cancel other lookups, and `rn_async_state_t` decides who frees what. The client
may be destroyed at any time; it then cancels the lookups whose identifiers it
holds, and only those.

`RnRecords` takes up where `RnResolve` leaves off: it copies one answer, block
by block, with a failure of any allocation, and tells the client.

`RnConfig` reads a file: directives in any order, each checked against what was
read before, in blocks nested in `http`; then the blocks are merged, outermost
first, `ngx_http_rn_init` checks the whole, and requests expand the rules in
force where they arrive. `lcf` is what the code keeps, `own` is what each block
said, for the properties. A name stands for the template defined with it, which
has variables (`Dynamic`) and is rendered on each request, or has none and is
refused when it is read if it is `Malformed` (1992-2005, 2192-2199, 2280-2285,
2446-2453). Of zones without variables some are `Wide`: the client, not the
module, refuses their windows, on each request (`docs/configuration.md:230-234`).
The key brings `ttl` and the policy `horizon`, in either order, and
`ngx_http_rn_init` compares them.

`RnNumeric` has the checked 32-bit arithmetic as operators, with the width as a
parameter. `RnParse` reads a number or a rate character by character, `RnPolicy`
the policy directive and its horizon, loop by loop, `RnLatency` computes a
sample between two readings of a clock that may be set. `RnResolvConf` scans a
line; `RnSystemDns` reads the file in the pieces `fgets` returns, and chooses a
resolver.

`RnParts` puts together the five parts that keep nothing between calls:
`RnParse`, `RnLatency`, `RnPolicy`, `RnResolvConf` and `RnSystemDns`. They share
no state, one of them runs, and each has constants of its own, because TLC needs
widths and bounds for a policy that are of no use for a sample. `RnRecords` has
a run of its own. `MCRnRequest` gives the constants of `RnRequest` values for
TLC, and `MCRnConfig` states that the guards of the run `config` are alike.

The TLAPS proofs are in modules of their own, each of which extends the module
it is about: `RnRequest_proofs`, `RnWorker_proofs`, `RnResolve_proofs`,
`RnConfig_proofs`, `RnRecords_proofs`, `RnPolicy_proofs` and `RnParts_proofs`.
`Recursion` has the lemmas about natural numbers and recursive functions that
the last four share.

Definitions commented "Fault" are never used. Each is its successor with a
plausible mistake, and the property that rules it out is named in
`PROJECT.json` under `mutants`.

## Runs

| Run | Shows |
| --- | --- |
| `worker` | two requests in one worker: ownership of callbacks, the exact in-flight counter, no lost rebind, no rebind under a check, balanced references, no use after free in the timer handler, verdicts only from well-formed answers, refinement of `SourcePort` |
| `redirect` | one request through up to three internal redirects between an unprotected, a protected and a report-only location: one check, final decisions, registered refusals that stay refusals, samples only of work that was neither denied, refused nor lost, refinement of `Admission` |
| `live` | every suspended request ends, every possible rebind happens |
| `init_exit` | `RnWorker`: no leak and no half-made worker whichever call fails; the client keeps its adapters and the timer its worker; back-off 1, 2, 4, 5, 5 s, neither shortened nor made endless by a wrap of the clock |
| `resolve` | `RnResolve`: one callback per lookup, no dangling identifier, no leak, every lookup ends, nothing is left of any when the client is destroyed |
| `config` | `RnConfig`: names resolve in whatever order they were defined, and a check fails in preflight only for a value with variables; an enabled location asks, with a key that admits the policy whichever came first; the nearest block wins, the combined check has every zone as often as it is named and every guard once, in order |
| `parts` | numbers, samples, policies and resolvers, against reference definitions: `NumbersExact` (what is accepted and stored is what the text denotes), `SampleExact`, `PolicyExact` (the 32-bit horizon is the documented sum), `NameserverExact` (nginx reads from the argument the host of the line), `ResolverExact` (precedence and file order) |
| `records` | `RnRecords`: no pointer dangles and nothing leaks or is freed twice wherever an allocation fails (`RecordsOwned`), the client is told once and exactly what the answer says (`RecordsExact`) |
| `bypass`, `logged`, `entries`, `timeout` | the disagreements below |

In `init_exit`, `resolve`, `parts` and `records` deadlock is checked as well: in `parts` a
part may only stop where its function returns. A configuration that was refused
stops, so `config` does not check it.

### Bounds

Two requests and two handles are the smallest instance in which one request's
completion can meet another's context, address reuse included; checks of a
third request would only repeat the roles of the second. `Rounds = 2` has a
first, a middle and a terminal deadline. `BatchMax = 2` lets a batch be used up
after it resumed a request. `MaxRebinds = 3` allows a rebind after a rebind,
`MaxRedirects = 3` a path through every pair of the three locations. The answers
in `MCResults` are every combination of the server's flag, one guard and one
deficit, and two answers of the wrong shape. In `init_exit` time is bounded to
20 s with a clock that wraps every 12 s, more than twice the longest delay (as
the code needs, `DelayAssumption`): the delays reach and keep their maximum and
a wrap falls on every part of a back-off. Seven endpoints allow a rebind after
several failed attempts, more than it takes the delay to reach its maximum. In
`resolve` lookups nest three deep. Requests and handles are
symmetric in `worker` and guards in `config`, where no liveness is checked.

`config` has a zone with variables, one with a window above the key's limit and
one that is malformed, a group of up to two, two guards over one tracker, a
label that is valid and one that is not, a server in `http` and a location in
it, and two directives in the blocks: enough for a rule of one block to meet a
report, a label or a rule of the other, and for a guard or zone to be named
twice. A rule names one guard (`MaxGuards`), so that it takes two rules to name
it again. A key without a limit and one that admits the default policy meet no
policy directive and one whose horizon is too long, in both orders.

In `parts` and `records` the widths are scaled down. A number may be 38883 instead of
2^32-1, with the digits 0, 3 and 8, so that texts of nine characters hold rates
at the limit and beyond it, and periods that overflow only when converted to
milliseconds (a second has 10). A policy has 40 instead of 2^32-1, at most three
replays and every schedule over the numbers 0, 1, 2, 5 and 41: each of the
guards of the horizon loops fails for some and holds with equality for others. A
sample has at most 12 milliseconds and the clock 24, a lifetime 25 milliseconds
and an answer 30. The buffer for an argument has five characters, and lines up
to eight; `names[]` has two entries, and the file four pieces. An answer has up
to three records.

### Fairness

`FairSpec` of `RnRequest` assumes what the event loop gives: a handler that was
entered returns and a resumed request's handler runs (weak fairness), an
expired request timer is served even if other events come first (strong
fairness of `TimerServed`), and opening a socket does not fail for ever (strong
fairness of a successful rebind, without which the code rightly retries for
ever). Nothing is assumed of the network, of HTTP clients or of content. The
`live` run takes a client that always tells the deadline of a live request
(`DeadlineAnswers = {TRUE}`, `docs/c-client.md`); the safety runs also let that
query fail. `RnResolve` assumes that nginx's resolver answers or times out each
query, as its `timeout` field demands, that code on the stack runs, and that a
client that is being destroyed cancels what it holds.

### Disagreements

- `bypass`: a context made by a report-only location is marked done with
  `NGX_DECLINED` (712-715); after an internal redirect into a protected
  location the handler reuses it (640-642), and no check is made.
  `spec/behavior.md:20-21` requires one for every protected main request that
  reaches the admission point. `Admission` calls this decision "exempt", and
  `RefusalIsFinal` allows its outcome, so that the passing runs describe the
  code as it is.
- `logged`: when a redirect leads to a location that answers before the
  pre-content phase, nothing restores the slot, and in the log phase the
  cleanup list is gone: `$ratelimitly_verdict` is a dash although the server
  decided, against `docs/operations.md:152`.
- `entries`: the loop over resolv.conf counts the names it stores (1237, 1267),
  not the entries it reads, so that entries after the sixteenth are used when
  some before are unusable; `spec/dsl.md:64-65` and
  `docs/configuration.md:198-199` say that the first sixteen are read.
- `timeout`: the `resolver_timeout` of `http` is taken over only together with
  its resolver (1049-1053); with `ratelimitly_dns_resolver` or the system's
  nameservers lookups have 30 s (1063-1065). `spec/implementation.md:54-55`
  requires that it be captured, and `docs/operations.md:254` says that discovery
  uses it.

Three more things a reader of the code meets, of which no run is made. With a
resolver but no `resolver_timeout` in `http`, the value at 1053 is nginx's
unset one (-1): nginx merges the values of `http` into its servers and gives
them no defaults in place. The test for 0 at 1063 does not replace it;
`RnSystemDns` keeps it as "unset". The log handler reports fail-open requests
(3856-3858), as `docs/operations.md:50-52` says and `docs/operations.md:26-28`
denies: the document contradicts itself. And a 500 from before the cleanup is
registered (649-667) is forgotten at the next internal redirect, after which
the request is checked like any other; `RefusalIsFinal` and
`UnservedNotSampled` speak of registered refusals.

## Proofs

TLC explores small instances; the theorems hold for every value of the
constants that meets the assumptions.

| Module | Theorem | States |
| --- | --- | --- |
| `RnRequest_proofs` | `TypeCorrect` | `TypeOK` |
| | `OwnershipHolds` | `Ownership` |
| | `InflightHolds` | `InflightExact` |
| | `RebindNotLost` | `NoLostRebind` |
| | `SourcePortKept` | `SameSourcePort` |
| | `ResourcesHeld` | `HoldsWhileSuspended` |
| | `CountHolds` | `CountBalanced` |
| | `FrameHolds` | `FrameAlive` |
| | `SourcePortRefinement` | `Spec => Port!Spec` |
| | `RequestSingleCheck` | `SingleCheck` |
| | `RequestVerdictProvenance` | `VerdictProvenance` |
| | `RequestRefusalIsFinal` | `RefusalIsFinal` |
| | `RequestUnservedNotSampled` | `UnservedNotSampled` |
| | `RequestDecisionIsFinal` | `DecisionIsFinal`, an action property |
| | `AdmissionRefinement` | `Spec => Adm!Spec` |
| `RnWorker_proofs` | `TypeCorrect` | `TypeOK` |
| | `WorkerAllOrNothing` | `AllOrNothing` |
| | `WorkerNothingDangles` | `NothingDangles` |
| | `WorkerBackoffExact` | `BackoffExact` |
| `RnResolve_proofs` | `TypeCorrect` | `TypeOK` |
| | `ResolveIdentifierIsLive` | `IdentifierIsLive` |
| | `ResolveOneCallback` | `OneCallback` |
| | `ResolveFreedOnceAndInTime` | `FreedOnceAndInTime` |
| | `ResolveNothingOutlivesClient` | `NothingOutlivesClient` |
| `RnConfig_proofs` | `TypeCorrect` | `TypeOK` |
| | `ConfigLookupsSucceed` | `LookupsSucceed` |
| | `ConfigNearestWins` | `NearestWins` |
| | `ConfigEnabledIsUsable` | `EnabledIsUsable` |
| | `ConfigExpandsAll` | `ExpandsAll` |
| `RnRecords_proofs` | `TypeCorrect` | `TypeOK` |
| | `RecordsStayOwned` | `RecordsOwned` |
| | `RecordsStayExact` | `RecordsExact` |
| `RnPolicy_proofs` | `TypeCorrect` | `TypeOK` |
| | `PolicyStaysExact` | `PolicyExact` |
| `RnParts_proofs` | `NumbersStayExact` | `NumbersExact` |
| | `SampleStaysExact` | `SampleExact` |
| | `NameserverStaysExact` | `NameserverExact` |
| | `ResolverStaysExact` | `ResolverExact` |
| | `TypesStay` | `TypesOK`, the types of all five parts |

### Assumptions

Each is named in the module that declares the constants, and TLC evaluates it
on the instances of the runs.

- `ConstantsAssumption` (`RnRequest`): the handles are finite in number,
  `NoRequest` and `NoHandle` are none of the requests and handles, the answers
  have the shape of `r_client_rate_result_t` (`ResultType`; the right length is
  not assumed, the code checks it), and the bounds are numbers. Requests,
  locations, their guards and resources, and the answers are arbitrary.
- `DelayAssumption` (`RnWorker`): the clock counts further than twice the
  longest delay, and both are even. With an odd maximum `NextDelay`, which
  halves it, would skip the last doubling; `RN_INIT_RETRY_MAX_MS` is 5000.
- `MaxDepthAssumption` (`RnResolve`): calls nest to some depth.
- `ConfigAssumption` (`RnConfig`): there is a block, the names of trackers and
  labels are not the keywords for none, what is malformed or too wide without a
  request has no variables, and limits and horizons are numbers.
- `RecordsAssumption`, `PolicyAssumption`: a number holds a digit, a source is
  proper or malformed but not both, one replay is allowed
  (`R_CLIENT_HA_MAX_REPLAY_COUNT` is 65535) and the default unit is a number
  other than 0.
- `PartsAssumption` (`RnParts`): the same of the widths of the other parts, an
  argument has room for its terminator and `names[]` for one name, and the names
  of addresses are not those of what is no address.

The constants that only bound TLC's search (`MaxTime`, `MaxDirectives`,
`MaxSources`, `MaxDepth`, `MaxLen`, `MaxLine`, `MaxPieces` ...) are arbitrary numbers, so that the
theorems speak of runs of any length.

### The arguments

*What a request holds* (`RnRequest_proofs`). None of the safety invariants but
`TypeOK` is inductive alone. That the counter is exact needs to know that a
teardown finds `inflight_counted` set exactly for a request with a live handle;
that a callback finds its owner needs to know that a suspended request has its
slot, which in turn needs that only a suspended request is waiting.
`HoldsWhileSuspended` says this for all of a check's resources at once. The
inductive invariant `Inv` is its conjunction with `TypeOK`, `Ownership`,
`InflightExact`, `NoLostRebind`, `SameSourcePort`, `CountBalanced` and
`FrameAlive`, each also an invariant of the run `worker`.

The step proof sorts the actions by what they do to `Inv`. A neutral step
changes one request's record without touching a check (`NeutralStep`: arrivals,
redirects, bypass, reuse, failures, logging). A start adds one live handle
(`StartStep`); an end retires one and tears its context down (`EndStep`:
callback, cleanup, abort, client failure); `TimerStep` and `FlagStep` change
only a timer flag or the worker's flags. Each is one lemma, and the actions are
instances of them. The counter is the cardinality of the live handles, from
`FiniteSetTheorems`. The refinement follows from `Inv` and the same cases: a
start is `Send`, an end is `End`, steering is `Ask`, a rebind is `Change`.

*What a request is told* (the second half of `RnRequest_proofs`). `AllSound` speaks of one
request at a time and is inductive together with `Inv`. `Registered` relates
the context to nginx's phase: a context with a registered cleanup is decided
unless it waits, and without one nothing was asked. `Truthful` relates its
outcome to what the server said, `Guarded` the content phase to the decision,
`Reported` the sample to the outcome. On top of it `AllFinal` follows `fate`: a
request that a registered context refused keeps a decision that is neither
`NGX_OK` nor `NGX_DECLINED` until it is freed, so that no redirect leads to
content and the log handler finds no outcome to report (`FateStep` is what an
action may do to it). `DecisionIsAnswer` shows that
`RateDecision` allows exactly the all-clear answers, for any number of guards
and resources. The refinement maps a request to its state in `Admission`; each
action changes one request (`OneRequest`) and there is a step of `Admission` or
a stutter.

*The worker* (`RnWorker_proofs`). `Shape` says what exists at every `step` of
every `job`: the memory blocks, descriptors and connections, the endpoint and
the timer, so that each failure branch is seen to release what there is.
`RetryHolds` relates the retry time that was stored modulo the clock's range to
the documented wait since the last failure. `MsecDifference` and
`SignedComparison` show that the signed comparison of two wrapped readings is
the comparison of the true times when these are less than half the range apart.

*Lookups* (`RnResolve_proofs`). `LookupHolds` says for each place a lookup may
be at which blocks exist, whether an identifier is out, how often the client was
called and what the start returned; `StackHolds`, that adapter code which has
not returned is on the stack, which `NothingOutlivesClient` needs: a client that
is gone was destroyed with an empty stack.

*Configuration* (`RnConfig_proofs`). `Inv` joins the stages of loading, that
definitions refer only to earlier ones (`Names`), that none was accepted
malformed (`Validated`), that every rule and label of a block passed its
directive and that whatever is on has enabled the module (`BlockHolds`), and that the blocks merged so far have what the nearest block
says (`Inherited`). The second half is about what the handler computes from the
rules: `FlattenSeqIs`, `DistinctGuardsIs` and `TotalIs` give the recursive
definitions (of the community modules, too) as steps, and the counts that size
the arrays, the zones with their number of occurrences and the guards without
repetition follow rule by rule. `ExpandsAll` is about the last check a request
made, and has an invariant of its own, `Sent`. `RenderedAccepted` takes what a
check renders back, through the expansion, to definitions that were validated,
and `StaticStep` uses it for the last check that failed.

*Records* (`RnRecords_proofs`). `Shape` says what is on the heap and who points
to it at each step, `Progress` how much of the answer was copied: the first
`i - 1` records, or of an address answer the usable ones among them
(`CopyableOf`, a recursive function, with `CopyableSteps`). `TtlSaturates` is
the arithmetic of the lifetime.

*The horizon* (`RnPolicy_proofs`). `LoopHolds` says that `total` is the sum of
the gaps before `round` (`UnitsOf`), and in the exponential loop that `value` is
the documented gap after as many multiplications as were made: the smaller of
the maximum and `initial * growth^(round - left)` (`Power`). `GrowEnds` shows
that the loop may stop early, `LinearExact` that the guarded sum of a linear gap
is the smaller of the documented gap and its maximum, and `Quotient` that each
guard that divides the limit is the comparison of the product with it, so that
no operation wraps and nothing that fits is refused. `UnitsGrow` takes a partial sum that is already too large
to the whole. `OptionsHold` and `NamesHold` follow the policy from the options
of the directive to the configuration that runs with it.

*The parts* (`RnParts_proofs`). `PartsRun` shows that each part runs as if it
were alone, so that an invariant of a part is one of `RnParts`.

- A sample (`LatencyInv`): with a steady clock the two readings, taken apart into
  seconds and milliseconds, differ by the time elapsed; a sample, once taken, is
  that of the readings.
- The resolver (`SystemDnsInv`): `ChoiceHolds` says that the file is read only
  for want of another resolver, and `EntriesAppend` that one more piece adds its
  entry to the list, if it has one.
- A line (`ResolvConfInv`): `Seems` says what each place in the line means for
  the characters read so far: only blanks, the directive's name just ended, or a
  complete name. A result is there exactly when the line is a nameserver's, and
  then it is `Classified(address)`. `ClassifiedReads` follows the address through
  the brackets and back through nginx's reading of them: `ReadsLiteral` shows
  that the first closing bracket is the last character.
- A number or a rate (`ParseInv`): `Scanned` says for each phase that the
  numbers are those the text denotes (`RateRead`, `PeriodRead`), by
  `ValueAppend`, which takes `ValueOf` one character further, and `DigitExact`,
  the guard of the digit loop. That nothing in range is refused is the larger
  half: the `NoRate` lemmas show of each refusal that no way to complete the
  text is a rate in range, because the place where the digits of the rate end is
  determined by the text (`OneRate`), so that a character in the wrong place or
  a number that is too large remains one.

*Recursion*. What a recursive function computes for every number is proved from
the least number at which a set of counterexamples begins (`LeastNumber`), not
from an induction scheme over a predicate: the sets are written down where they
are needed. `Recursive` and `RecursiveOnNat` show that a function defined by
recursion over an interval or over the natural numbers has the values its
definition says.

### What is only model-checked

The liveness properties (`WaitingEnds`, `RebindHappens`, `LookupEnds`): fairness
and `ENABLED` are outside the prover's reach. Every invariant, every action
property and both refinements of the passing runs are theorems. The properties
that TLC finds violated are none.

The type invariant of `RnRecords` is proved and in no run.

## Not modelled, and simplifications

- The bytes of datagrams, cryptography, server selection and replay schedules
  belong to the C client. A check has `Rounds` deadlines before its last.
- Subrequests return at once from the handler (618-620) and have no state.
- An enabled location has rules that expand to at least one resource or guard
  and implies `mcf->enabled`: `RnConfig` shows this (`EnabledIsUsable`), and
  `RnRequest` leaves out the bypass paths `main_disabled`, `no_rules` and
  `empty_rule_expansion` (633-639, 717-726, 741-750).
- `ratelimitly_auth_key` is required (1019), so `RnWorker` always copies a
  secret.
- The log handler marks the context of a broken connection aborted (3848-3855)
  just before the pool is destroyed; `Log` folds the two.
- On a graceful exit nginx lets requests finish before it calls
  `rn_exit_process`, on a fast one the process ends without running their
  cleanups. A worker's exit is modelled with a scheduled rebind (`RnWorker`) and with
  lookups pending (`RnResolve`), not with requests in flight (`RnRequest`).
- The back-off has two exceptions the properties name: a retry time whose
  reading is 0 looks like none (3556), and after more than half of the clock's
  range without a request the signed comparison is the wrong way round. Both
  need a 32-bit `ngx_msec_t`.
- In `RnConfig` a template is a name that is static or dynamic, and the rendered
  bytes are left out; a value is valid or not, and a window within the key's
  limit or not. A policy is its horizon (`RnPolicy` computes it). Of the other
  directives of the main configuration that may occur once, which only store
  their value, one stands for all; `ratelimitly_fail` only sets what
  `mcf.fail_open` is in `RnRequest`.
- In `RnPolicy` and `RnRecords` an option and a record are the values they
  denote. `completion_delivery` does not enter the horizon.
- `RnResolvConf` has classes of characters, and the keyword is one character.
  Which arguments nginx accepts (`NginxReads`) is modelled from `ngx_parse_url`'s
  treatment of brackets and colons. Addresses with brackets inside are passed on
  to nginx, which refuses them; the properties say nothing of them.
- In `RnSystemDns` a line longer than the buffer comes in several pieces;
  `FileOrder` speaks of files without such lines. When `names[]` is full the code
  has already read one more piece, which it does not look at.
- `rn_udp_send` hands a datagram to the kernel or logs the error, and changes
  nothing.
- Debug logging and test fault injection are left out; the faults injected
  there are the failure branches of the model.

## State of the work

All parts with logic of their own are modelled, and all safety properties are
proved. What could follow:

1. a worker's exit with requests in flight, which joins `RnRequest` and
   `RnWorker`;
2. the rendered bytes of templates, which `RnConfig` leaves out;
3. `WaitingEnds`, `RebindHappens` and `LookupEnds` for every value of the
   constants, with a prover that supports fairness.
