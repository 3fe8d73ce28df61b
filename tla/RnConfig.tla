------------------------------ MODULE RnConfig ------------------------------
(***************************************************************************)
(* Loading the configuration, and what a request makes of it.  nginx reads *)
(* directives in file order; the module checks each against what was read  *)
(* before (zones, groups, trackers, guards) and stores it in the main      *)
(* configuration or in that of the enclosing server or location block.     *)
(* Then nginx merges every block into the blocks it contains, outermost    *)
(* first, and ngx_http_rn_init checks the whole.  At run time the handler  *)
(* expands the effective rules of a location into one combined check,      *)
(* looking every name up again.                                            *)
(*                                                                         *)
(* The blocks are a chain: block 0 is http, block 1 a server, the others   *)
(* locations, each in the one before.  A name stands for the template that *)
(* is defined with it.  Dynamic are the templates with variables, rendered *)
(* on each request, to something invalid perhaps; of the others, Malformed *)
(* are those the module calls invalid, and Wide the zones whose window is  *)
(* longer than the key's rate_window_size_ms_max.  The module does not     *)
(* look at that limit; the client does, on each request.                   *)
(*                                                                         *)
(* A definition marked "Fault" is not used: it is the definition after it  *)
(* with a plausible mistake, which one of the properties below rules out.  *)
(***************************************************************************)
EXTENDS Naturals, Sequences, FiniteSets, SequencesExt

CONSTANTS
    Zones, Groups, Trackers, Guards, Labels,    \* names
    Dynamic,        \* names with variables in a template
    Malformed,      \* the others whose template is not valid
    Wide,           \* the other zones with a window above the key's limit
    KeyTtls,        \* dedup_ttl_ms_max of the keys to choose from, 0 for none
    Horizons, DefaultHorizon,   \* of the policies to choose from, and of none
    Depth,          \* blocks in http
    Singles,        \* other main directives that may occur once
    MaxDirectives,  \* bound: directives in servers and locations
    MaxNames,       \* bound: names in a group
    MaxGuards       \* bound: guards in a rule

ASSUME ConfigAssumption ==
    /\ Depth \in Nat \ {0} /\ MaxDirectives \in Nat
    /\ MaxNames \in Nat /\ MaxGuards \in Nat
    /\ Malformed \cap Dynamic = {} /\ Wide \subseteq Zones \ Dynamic
    /\ {"auth_key", "policy"} \cap Singles = {}
    /\ KeyTtls \subseteq Nat /\ Horizons \subseteq Nat /\ DefaultHorizon \in Nat
    /\ {"off", "none"} \cap (Trackers \cup Labels) = {}

VARIABLES
    status,         \* "parsing", "merging", "running" or "failed"
    block,          \* the innermost open block
    deepest,        \* the blocks opened so far
    zones, trackers,    \* names defined
    groups,         \* group -> its zones
    guards,         \* guard -> its tracker
    given,          \* main directives read
    ttl,            \* mcf->dedup_ttl_ms_max
    horizon,        \* rn_policy_horizon_ms of mcf->request_policy
    enabled,        \* mcf->enabled
    lcf,            \* rn_loc_conf_t of every block
    merged,         \* blocks merged so far
    directives,     \* history: directives in servers and locations
    own,            \* history: lcf as it was read
    check           \* what the last request's expansion came to

main == <<zones, trackers, groups, guards, given, ttl, horizon,
          enabled>>
vars == <<status, block, deepest, main, lcf, merged, directives, own, check>>

Blocks == 0..Depth

\* A rule: its resource reference, if any, and its guards.
NoRef == [kind |-> "guard_only", name |-> "none"]
ZoneRefs == [kind : {"zone"}, name : Zones]
GroupRefs == [kind : {"group"}, name : Groups]
Rules == [ref : ZoneRefs \cup GroupRefs \cup {NoRef}, guards : Seq(Guards)]

\* ngx_http_rn_create_loc_conf; no rules is a NULL array.
EmptyConf == [enabled |-> "unset", rules |-> <<>>,
              report_set |-> FALSE, report |-> "off",
              label_set |-> FALSE, label |-> "none"]

NoCheck == [outcome |-> "none", block |-> 0, invalid |-> {},
            resources |-> <<>>, guards |-> <<>>]

Init ==
    /\ status = "parsing" /\ block = 0 /\ deepest = 0
    /\ zones = {} /\ trackers = {}
    /\ groups = << >> /\ guards = << >>
    /\ given = {} /\ ttl = 0 /\ horizon = DefaultHorizon /\ enabled = FALSE
    /\ lcf = [b \in Blocks |-> EmptyConf]
    /\ merged = 0 /\ directives = 0 /\ own = lcf
    /\ check = NoCheck

(***************************************************************************)
(* Directives of the http block                                            *)
(***************************************************************************)

InHttp == status = "parsing" /\ block = 0

\* A directive is refused: nginx does not load the configuration.
Refuse ==
    /\ status' = "failed"
    /\ UNCHANGED <<block, deepest, main, lcf, merged, directives, own, check>>

\* ngx_http_rn_set_auth_key: the key brings its limits.
AuthKey(t) ==
    /\ InHttp /\ "auth_key" \notin given
    /\ given' = given \cup {"auth_key"}
    /\ ttl' = t
    /\ UNCHANGED <<status, block, deepest, zones, trackers, groups, guards,
                   horizon, enabled, lcf, merged, directives, own, check>>

\* ngx_http_rn_set_policy; the key may come later.
Policy(h) ==
    /\ InHttp /\ "policy" \notin given
    /\ given' = given \cup {"policy"}
    /\ horizon' = h
    /\ UNCHANGED <<status, block, deepest, zones, trackers, groups, guards,
                   ttl, enabled, lcf, merged, directives, own, check>>

\* dns_srv, dns_resolver, bind and debug.  ratelimitly_fail, which may be
\* repeated, sets what RnRequest calls FailOpen.
MainDirective(d) ==
    /\ InHttp /\ d \notin given
    /\ given' = given \cup {d}
    /\ UNCHANGED <<status, block, deepest, zones, trackers, groups, guards,
                   ttl, horizon, enabled, lcf, merged, directives, own, check>>

\* A malformed value, an unknown argument or a second occurrence.
BadMainDirective == InHttp /\ Refuse

\* Fault: nothing is validated before it is rendered.
AcceptedAny(n) == TRUE

\* A template without variables has to be valid: the bucket's length and the
\* rate of a zone, a tracker's service, a guard's threshold, a label.
Accepted(n) == n \notin Malformed

Zone(z) ==
    /\ InHttp /\ z \notin zones /\ Accepted(z)
    /\ zones' = zones \cup {z}
    /\ UNCHANGED <<status, block, deepest, trackers, groups, guards, given,
                   ttl, horizon, enabled, lcf, merged, directives, own, check>>

Tracker(t) ==
    /\ InHttp /\ t \notin trackers /\ Accepted(t)
    /\ trackers' = trackers \cup {t}
    /\ UNCHANGED <<status, block, deepest, zones, groups, guards, given,
                   ttl, horizon, enabled, lcf, merged, directives, own, check>>

NameSeqs(S, max) == UNION {[1..n -> S] : n \in 0..max}

Extend(f, x, y) == [k \in DOMAIN f \cup {x} |-> IF k = x THEN y ELSE f[k]]

\* At least one zone, each defined before.
GroupValid(g, zs) ==
    /\ g \notin DOMAIN groups
    /\ zs # <<>> /\ \A i \in DOMAIN zs : zs[i] \in zones

Group(g, zs) ==
    /\ InHttp /\ GroupValid(g, zs)
    /\ groups' = Extend(groups, g, zs)
    /\ UNCHANGED <<status, block, deepest, zones, trackers, guards, given,
                   ttl, horizon, enabled, lcf, merged, directives, own, check>>

\* Fault: the tracker may be defined later.
GuardValidLater(x, t) == x \notin DOMAIN guards

GuardValid(x, t) == x \notin DOMAIN guards /\ t \in trackers

Guard(x, t) ==
    /\ InHttp /\ GuardValid(x, t) /\ Accepted(x)
    /\ guards' = Extend(guards, x, t)
    /\ UNCHANGED <<status, block, deepest, zones, trackers, groups, given,
                   ttl, horizon, enabled, lcf, merged, directives, own, check>>

(***************************************************************************)
(* Blocks, and the directives of servers and locations                     *)
(***************************************************************************)

Open ==
    /\ status = "parsing" /\ block = deepest /\ block < Depth
    /\ block' = block + 1 /\ deepest' = deepest + 1
    /\ UNCHANGED <<status, main, lcf, merged, directives, own, check>>

Close ==
    /\ status = "parsing" /\ block > 0
    /\ block' = block - 1
    /\ UNCHANGED <<status, deepest, main, lcf, merged, directives, own, check>>

InBlock ==
    /\ status = "parsing" /\ block > 0
    /\ directives < MaxDirectives

Resolved(ref) ==
    CASE ref.kind = "zone" -> ref.name \in zones
      [] ref.kind = "group" -> ref.name \in DOMAIN groups
      [] ref.kind = "guard_only" -> TRUE

\* ngx_http_rn_rule: one zone or group, or guards, all defined before.  A
\* directive with two resource references is refused like an unknown argument.
RuleValid(rule) ==
    /\ Resolved(rule.ref)
    /\ rule.ref = NoRef => rule.guards # <<>>
    /\ \A i \in DOMAIN rule.guards : rule.guards[i] \in DOMAIN guards

Rule(rule) ==
    /\ InBlock /\ RuleValid(rule)
    /\ lcf' = [lcf EXCEPT ![block] = [@ EXCEPT
                !.rules = Append(lcf[block].rules, rule), !.enabled = "on"]]
    /\ enabled' = TRUE
    /\ directives' = directives + 1
    /\ UNCHANGED <<status, block, deepest, zones, trackers, groups, guards,
                   given, ttl, horizon, merged, own, check>>

\* Fault: reports alone do not enable the module.
ReportEnables(t) == enabled

\* ngx_http_rn_report: a tracker defined before, or off.
Enabling(t) == enabled \/ t # "off"

Report(t) ==
    /\ InBlock /\ ~lcf[block].report_set
    /\ t \in trackers \cup {"off"}
    /\ lcf' = [lcf EXCEPT ![block] = [@ EXCEPT !.report_set = TRUE,
                                              !.report = t]]
    /\ enabled' = Enabling(t)
    /\ directives' = directives + 1
    /\ UNCHANGED <<status, block, deepest, zones, trackers, groups, guards,
                   given, ttl, horizon, merged, own, check>>

\* ngx_http_rn_label: the last one in a block counts.
Label(l) ==
    /\ InBlock /\ Accepted(l)
    /\ lcf' = [lcf EXCEPT ![block] = [@ EXCEPT !.label_set = TRUE,
                                              !.label = l]]
    /\ directives' = directives + 1
    /\ UNCHANGED <<status, block, deepest, main, merged, own, check>>

BadDirective == InBlock /\ Refuse

(***************************************************************************)
(* Merging, and ngx_http_rn_init                                           *)
(***************************************************************************)

EndOfFile ==
    /\ InHttp
    /\ status' = "merging" /\ own' = lcf
    /\ UNCHANGED <<block, deepest, main, lcf, merged, directives, check>>

\* Fault: rules add up.
MergedRulesAppended(prev, conf) == prev.rules \o conf.rules

\* A block with rules of its own does not inherit any.
MergedRules(prev, conf) == IF conf.rules = <<>> THEN prev.rules ELSE conf.rules

\* Fault: a flag nobody set stays unset, which is not 0.
MergedEnabledUnset(prev, conf) ==
    IF conf.enabled # "unset" THEN conf.enabled ELSE prev.enabled

\* ngx_conf_merge_value with default 0.
MergedEnabled(prev, conf) ==
    IF conf.enabled # "unset" THEN conf.enabled
    ELSE IF prev.enabled # "unset" THEN prev.enabled ELSE "off"

\* ngx_http_rn_merge_loc_conf.
Merged(prev, conf) ==
    [enabled |-> MergedEnabled(prev, conf),
     rules |-> MergedRules(prev, conf),
     report_set |-> conf.report_set \/ prev.report_set,
     report |-> IF ~conf.report_set /\ prev.report_set THEN prev.report
                ELSE conf.report,
     label_set |-> conf.label_set \/ prev.label_set,
     label |-> IF ~conf.label_set /\ prev.label_set THEN prev.label
               ELSE conf.label]

Merge ==
    /\ status = "merging" /\ merged < Depth
    /\ lcf' = [lcf EXCEPT ![merged + 1] = Merged(lcf[merged], lcf[merged + 1])]
    /\ merged' = merged + 1
    /\ UNCHANGED <<status, block, deepest, main, directives, own, check>>

\* Fault: the policy met its limits when it was read.
UsableOnceRead == enabled => "auth_key" \in given

\* Without an enabled block nothing is required.
Usable ==
    enabled => "auth_key" \in given /\ (ttl = 0 \/ horizon <= ttl)

Loaded ==
    /\ status = "merging" /\ merged = Depth
    /\ status' = IF Usable THEN "running" ELSE "failed"
    /\ UNCHANGED <<block, deepest, main, lcf, merged, directives, own, check>>

(***************************************************************************)
(* The expansion in ngx_http_rn_handler                                    *)
(***************************************************************************)

ZonesOf(rule) ==
    CASE rule.ref.kind = "zone" -> <<rule.ref.name>>
      [] rule.ref.kind = "group" -> groups[rule.ref.name]
      [] rule.ref.kind = "guard_only" -> <<>>

Resources(rules) == FlattenSeq([i \in DOMAIN rules |-> ZonesOf(rules[i])])

GuardRefs(rules) == FlattenSeq([i \in DOMAIN rules |-> rules[i].guards])

\* Fault: a repeated guard is sent again.
DistinctGuardsRepeated(rules) == GuardRefs(rules)

\* guard_defs: a definition that is already there is not added again.
DistinctGuards(rules) ==
    LET refs == GuardRefs(rules)
        defs[n \in 0..Len(refs)] ==
            IF n = 0 THEN <<>>
            ELSE LET found == defs[n - 1]
                 IN  IF refs[n] \in Range(found) THEN found
                     ELSE Append(found, refs[n])
    IN  defs[Len(refs)]

\* The sum of a list of numbers.
Total(ns) ==
    LET sum[n \in 0..Len(ns)] == IF n = 0 THEN 0 ELSE sum[n - 1] + ns[n]
    IN  sum[Len(ns)]

\* The sizes of the arrays, counted beforehand.
Counted(rules) ==
    Total([i \in DOMAIN rules |->
              LET ref == rules[i].ref IN
              CASE ref.kind = "zone" -> 1
                [] ref.kind = "group" -> Len(groups[ref.name])
                [] ref.kind = "guard_only" -> 0])

CountedGuards(rules) == Total([i \in DOMAIN rules |-> Len(rules[i].guards)])

\* The names a check of block b renders: its zones, guards, their trackers
\* and its label.
Rendered(b) ==
    LET rules == lcf[b].rules
        used == Range(DistinctGuards(rules))
    IN  Range(Resources(rules)) \cup used \cup {guards[x] : x \in used}
          \cup (IF lcf[b].label_set THEN {lcf[b].label} ELSE {})

\* Every name the handler looks up in block b is defined.
Found(b) ==
    \A i \in DOMAIN lcf[b].rules :
        LET rule == lcf[b].rules[i] IN
        /\ Resolved(rule.ref)
        /\ rule.ref.kind = "group" =>
              \A j \in DOMAIN groups[rule.ref.name] :
                  groups[rule.ref.name][j] \in zones
        /\ \A j \in DOMAIN rule.guards :
              /\ rule.guards[j] \in DOMAIN guards
              /\ guards[rule.guards[j]] \in trackers

\* A main request is handled in block b; of the dynamic names, those in
\* `invalid' do not render to something valid and those in `wide' to a window
\* the client refuses.
Outcome(b, invalid, wide) ==
    IF lcf[b].enabled = "off" /\ lcf[b].report = "off" THEN "loc_disabled"
    ELSE IF ~enabled THEN "main_disabled"
    ELSE IF lcf[b].enabled = "off" THEN "report_only"
    ELSE IF lcf[b].rules = <<>> THEN "no_rules"
    ELSE IF ~Found(b) THEN "preflight_failure"
    ELSE IF Counted(lcf[b].rules) = 0 /\ CountedGuards(lcf[b].rules) = 0
    THEN "empty_rule_expansion"
    ELSE IF Rendered(b) \cap (Malformed \cup invalid) # {}
    THEN "preflight_failure"
    ELSE IF Range(Resources(lcf[b].rules)) \cap (Wide \cup wide) # {}
    THEN "start_failure"
    ELSE "sent"

\* The check was handed to the client.
Started == {"start_failure", "sent"}

Request(b, invalid, wide) ==
    /\ status = "running" /\ b > 0
    /\ LET outcome == Outcome(b, invalid, wide)
           started == outcome \in Started
       IN  check' = [outcome |-> outcome, block |-> b, invalid |-> invalid,
                     resources |-> IF started THEN Resources(lcf[b].rules)
                                              ELSE <<>>,
                     guards |-> IF started THEN DistinctGuards(lcf[b].rules)
                                           ELSE <<>>]
    /\ UNCHANGED <<status, block, deepest, main, lcf, merged, directives, own>>

Next ==
    \/ \E t \in KeyTtls : AuthKey(t)
    \/ \E h \in Horizons : Policy(h)
    \/ \E d \in Singles : MainDirective(d)
    \/ BadMainDirective
    \/ \E z \in Zones : Zone(z)
    \/ \E t \in Trackers : Tracker(t)
    \/ \E g \in Groups, zs \in NameSeqs(Zones, MaxNames) : Group(g, zs)
    \/ \E x \in Guards, t \in Trackers : Guard(x, t)
    \/ Open \/ Close
    \/ \E ref \in ZoneRefs \cup GroupRefs \cup {NoRef},
          xs \in NameSeqs(Guards, MaxGuards) : Rule([ref |-> ref, guards |-> xs])
    \/ \E t \in Trackers \cup {"off"} : Report(t)
    \/ \E l \in Labels : Label(l)
    \/ BadDirective
    \/ EndOfFile \/ Merge \/ Loaded
    \/ \E b \in 1..Depth, invalid \in SUBSET Dynamic,
          wide \in SUBSET (Dynamic \cap Zones) : Request(b, invalid, wide)

Spec == Init /\ [][Next]_vars

(***************************************************************************)
(* Properties                                                              *)
(***************************************************************************)

Confs == [enabled : {"unset", "on", "off"}, rules : Seq(Rules),
          report_set : BOOLEAN, report : Trackers \cup {"off"},
          label_set : BOOLEAN, label : Labels \cup {"none"}]

\* Every variable keeps its type, and no flag of a merged block is unset.
TypeOK ==
    /\ status \in {"parsing", "merging", "running", "failed"}
    /\ block \in Blocks /\ deepest \in Blocks /\ merged \in Blocks
    /\ zones \subseteq Zones /\ trackers \subseteq Trackers
    /\ DOMAIN groups \subseteq Groups
    /\ \A g \in DOMAIN groups : groups[g] \in Seq(Zones)
    /\ DOMAIN guards \subseteq Guards
    /\ \A x \in DOMAIN guards : guards[x] \in Trackers
    /\ given \subseteq Singles \cup {"auth_key", "policy"}
    /\ ttl \in Nat /\ horizon \in Nat /\ enabled \in BOOLEAN
    /\ lcf \in [Blocks -> Confs] /\ own \in [Blocks -> Confs]
    /\ \A b \in 1..merged : lcf[b].enabled # "unset"
    /\ directives \in Nat

\* A name that was accepted anywhere in the configuration is defined, then and
\* ever after: the lookups of the handler never fail, in whatever order the
\* file defines and uses names.
ReferencesResolve ==
    /\ \A g \in DOMAIN groups : Range(groups[g]) \subseteq zones
    /\ \A x \in DOMAIN guards : guards[x] \in trackers
    /\ \A b \in Blocks :
          /\ Found(b)
          /\ lcf[b].report \in trackers \cup {"off"}

\* A block that is enabled asks: whatever mixture of own and inherited
\* directives made it so, the module is enabled, there are rules, and they
\* expand to at least one resource or guard.
EnabledAsks ==
    status = "running" =>
        \A b \in 1..Depth :
            /\ lcf[b].report # "off" => enabled
            /\ lcf[b].enabled = "on" =>
                  /\ enabled
                  /\ Resources(lcf[b].rules) # <<>>
                        \/ DistinctGuards(lcf[b].rules) # <<>>

\* A running configuration with an enabled block has a key, and the horizon of
\* the policy is within the key's dedup_ttl_ms_max, whichever of the two
\* directives came first and whether or not there was a policy directive.
RunningIsUsable ==
    status = "running" /\ (\E b \in 1..Depth : lcf[b].enabled = "on"
                                                \/ lcf[b].report # "off")
        => "auth_key" \in given /\ (ttl > 0 => horizon <= ttl)

\* The block nearest to b, from inside out, for which Own holds; 0 if none.
Nearest(b, Own(_)) ==
    LET S == {i \in 1..b : Own(i)}
    IN  IF S = {} THEN 0 ELSE CHOOSE i \in S : \A j \in S : j <= i

\* What is in force in a block is what the nearest enclosing block that says
\* something about it says: rules replace inherited rules as a whole, and the
\* same holds, independently, for the report and the label.
NearestWins ==
    status = "running" =>
        \A b \in 1..Depth :
            /\ lcf[b].rules =
                  own[Nearest(b, LAMBDA i : own[i].rules # <<>>)].rules
            /\ lcf[b].report = own[Nearest(b, LAMBDA i : own[i].report_set)].report
            /\ lcf[b].label = own[Nearest(b, LAMBDA i : own[i].label_set)].label

Occurrences(z, zs) == Cardinality({i \in DOMAIN zs : zs[i] = z})

\* The combined check has one resource for every occurrence of a zone, and
\* every guard once, in the order in which the rules name them first; both fit
\* the arrays counted for them.
ExpandsAll ==
    check.outcome \in Started =>
        LET rules == lcf[check.block].rules
            refs == GuardRefs(rules)
            first(x) == CHOOSE i \in DOMAIN refs :
                           refs[i] = x /\ \A j \in 1..i - 1 : refs[j] # x
        IN  /\ Len(check.resources) = Counted(rules)
            /\ Len(check.guards) <= CountedGuards(rules)
            /\ \A z \in Zones :
                  Occurrences(z, check.resources)
                    = Total([i \in DOMAIN rules |->
                                Occurrences(z, ZonesOf(rules[i]))])
            /\ Range(check.guards) = Range(refs)
            /\ \A i, j \in DOMAIN check.guards :
                  i < j => first(check.guards[i]) < first(check.guards[j])

\* A check fails before the client sees it only for a value with variables
\* that is in this request's check: the values without were validated when
\* their directives were read, in whatever block and for whichever rule, and
\* the names were found then.
StaticWasValidated ==
    check.outcome = "preflight_failure" =>
        check.invalid \cap Rendered(check.block) # {}

\* Whatever the order of definitions and uses, and whatever is inherited, the
\* lookups ngx_http_rn_handler makes by name succeed, and a check that fails
\* in preflight failed for a value with variables.  This says nothing of the
\* client, which refuses a check with a window above the key's limit, static
\* or not, on each request.
LookupsSucceed == ReferencesResolve /\ StaticWasValidated

\* A location that is enabled asks about something, with a key that admits the
\* policy: no mixture of inherited directives, and no order of the key and the
\* policy, passes ngx_http_rn_init and then lets every request through unasked
\* or asks with a horizon above the key's limit.
EnabledIsUsable == EnabledAsks /\ RunningIsUsable
=============================================================================
