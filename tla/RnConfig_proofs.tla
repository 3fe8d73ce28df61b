--------------------------- MODULE RnConfig_proofs ---------------------------
(***************************************************************************)
(* Machine-checked proofs about RnConfig, for any names, any depth of      *)
(* nested blocks and any number of directives.                             *)
(***************************************************************************)
EXTENDS RnConfig, Recursion, SequenceTheorems, FiniteSetTheorems, TLAPS

(***************************************************************************)
(* The inductive invariant                                                 *)
(***************************************************************************)

\* The stages of loading.
Stages ==
    /\ status = "parsing" => merged = 0
    /\ status = "running" => merged = Depth /\ Usable
    /\ status # "running" => check = NoCheck
    /\ lcf[0] = EmptyConf
    /\ status \in {"merging", "running"} => own[0] = EmptyConf

\* A definition refers to definitions before it.
Names ==
    /\ \A g \in DOMAIN groups :
          groups[g] # <<>> /\ Range(groups[g]) \subseteq zones
    /\ \A x \in DOMAIN guards : guards[x] \in trackers

\* What was validated when it was defined is valid.
Validated ==
    /\ \A z \in zones : Accepted(z)
    /\ \A t \in trackers : Accepted(t)
    /\ \A x \in DOMAIN guards : Accepted(x)

\* What is known of a block, its own directives or what it inherits: its rules
\* passed ngx_http_rn_rule, and what is on in it enabled the module.
BlockHolds(c) ==
    /\ \A i \in DOMAIN c.rules : RuleValid(c.rules[i])
    /\ c.report \in trackers \cup {"off"}
    /\ c.enabled = "on" => enabled /\ c.rules # <<>>
    /\ c.report # "off" => enabled
    /\ ~c.report_set => c.report = "off"
    /\ ~c.label_set => c.label = "none"
    /\ c.label_set => Accepted(c.label)

\* What is in force in block b is what the nearest block says.
InForce(b) ==
    /\ lcf[b].rules = own[Nearest(b, LAMBDA i : own[i].rules # <<>>)].rules
    /\ lcf[b].report = own[Nearest(b, LAMBDA i : own[i].report_set)].report
    /\ lcf[b].label = own[Nearest(b, LAMBDA i : own[i].label_set)].label

\* Blocks are merged from the outside in.
Inherited ==
    status \in {"merging", "running"} =>
        /\ \A b \in 0..merged : InForce(b)
        /\ \A b \in (merged + 1)..Depth : lcf[b] = own[b]

Inv ==
    /\ TypeOK
    /\ Stages
    /\ Names
    /\ Validated
    /\ \A b \in Blocks : BlockHolds(lcf[b])
    /\ Inherited

(***************************************************************************)
(* Types                                                                   *)
(***************************************************************************)

\* What nginx has read is a sequence of names.
LEMMA NameSeqsType ==
    ASSUME NEW S, NEW max \in Nat, NEW xs \in NameSeqs(S, max)
    PROVE  xs \in Seq(S)
<1>1. PICK n \in 0..max : xs \in [1..n -> S]
  BY DEF NameSeqs
<1>2. n \in Nat
  OBVIOUS
<1>3. QED
  BY <1>1, <1>2

\* A definition that is added leaves the earlier ones alone.
LEMMA ExtendFields ==
    ASSUME NEW f, NEW x, NEW y, x \notin DOMAIN f
    PROVE  LET e == Extend(f, x, y)
           IN  /\ DOMAIN e = DOMAIN f \cup {x} /\ e[x] = y
               /\ \A k \in DOMAIN f : e[k] = f[k]
BY DEF Extend

\* The fields of a merged block.
LEMMA MergedType ==
    ASSUME NEW prev \in Confs, NEW conf \in Confs
    PROVE  Merged(prev, conf) \in Confs /\ Merged(prev, conf).enabled # "unset"
<1>1. MergedEnabled(prev, conf) \in {"on", "off"}
  BY DEF MergedEnabled, Confs
<1>2. MergedRules(prev, conf) \in Seq(Rules)
  BY DEF MergedRules, Confs
<1>3. QED
  BY <1>1, <1>2 DEF Merged, Confs

\* The block after ratelimitly, ratelimitly_report and ratelimitly_label.
WithRule(c, rule) == [c EXCEPT !.rules = Append(@, rule), !.enabled = "on"]
WithReport(c, t) == [c EXCEPT !.report_set = TRUE, !.report = t]
WithLabel(c, l) == [c EXCEPT !.label_set = TRUE, !.label = l]

\* ratelimitly appends its rule and switches the block on.
LEMMA WithRuleFields ==
    ASSUME NEW c \in Confs, NEW rule \in Rules
    PROVE  LET d == WithRule(c, rule)
           IN  /\ d \in Confs /\ d.rules = Append(c.rules, rule)
               /\ d.enabled = "on" /\ d.report = c.report /\ d.label = c.label
               /\ d.report_set = c.report_set /\ d.label_set = c.label_set
<1>1. Append(c.rules, rule) \in Seq(Rules)
  BY DEF Confs
<1>2. QED
  BY <1>1 DEF WithRule, Confs

\* ratelimitly_report sets the tracker and leaves the rules alone.
LEMMA WithReportFields ==
    ASSUME NEW c \in Confs, NEW t \in Trackers \cup {"off"}
    PROVE  LET d == WithReport(c, t)
           IN  /\ d \in Confs /\ d.report_set /\ d.report = t
               /\ d.rules = c.rules /\ d.enabled = c.enabled
               /\ d.label = c.label /\ d.label_set = c.label_set
BY DEF WithReport, Confs

\* The label directive sets the label and leaves the rules alone.
LEMMA WithLabelFields ==
    ASSUME NEW c \in Confs, NEW l \in Labels
    PROVE  LET d == WithLabel(c, l)
           IN  /\ d \in Confs /\ d.label_set /\ d.label = l
               /\ d.rules = c.rules /\ d.enabled = c.enabled
               /\ d.report = c.report /\ d.report_set = c.report_set
BY DEF WithLabel, Confs

\* The rules Next enumerates are rules.
LEMMA RuleType ==
    ASSUME NEW ref \in ZoneRefs \cup GroupRefs \cup {NoRef},
           NEW xs \in NameSeqs(Guards, MaxGuards)
    PROVE  [ref |-> ref, guards |-> xs] \in Rules
<1>1. xs \in Seq(Guards)
  BY NameSeqsType, ConfigAssumption
<1>2. QED
  BY <1>1 DEF Rules

\* Every step is one of these.
LEMMA StepForms ==
    ASSUME Next
    PROVE  \/ \E t \in KeyTtls : AuthKey(t)
           \/ \E h \in Horizons : Policy(h)
           \/ \E d \in Singles : MainDirective(d)
           \/ \E z \in Zones : Zone(z)
           \/ \E t \in Trackers : Tracker(t)
           \/ \E g \in Groups, zs \in Seq(Zones) : Group(g, zs)
           \/ \E x \in Guards, t \in Trackers : Guard(x, t)
           \/ Open \/ Close \/ (Refuse /\ status = "parsing")
           \/ \E rule \in Rules : Rule(rule)
           \/ \E t \in Trackers \cup {"off"} : Report(t)
           \/ \E l \in Labels : Label(l)
           \/ EndOfFile \/ Merge \/ Loaded
           \/ \E b \in 1..Depth : \E invalid, wide : Request(b, invalid, wide)
<1>1. ASSUME NEW g \in Groups, NEW zs \in NameSeqs(Zones, MaxNames), Group(g, zs)
      PROVE  \E s \in Seq(Zones) : Group(g, s)
  BY <1>1, NameSeqsType, ConfigAssumption
<1>2. ASSUME NEW ref \in ZoneRefs \cup GroupRefs \cup {NoRef},
             NEW xs \in NameSeqs(Guards, MaxGuards), Rule([ref |-> ref, guards |-> xs])
      PROVE  \E rule \in Rules : Rule(rule)
  BY <1>2, RuleType
<1>3. ASSUME BadMainDirective \/ BadDirective
      PROVE  Refuse /\ status = "parsing"
  BY <1>3 DEF BadMainDirective, BadDirective, InHttp, InBlock
<1>4. QED
  BY <1>1, <1>2, <1>3 DEF Next

\* What Rule, Report and Label do to their block.
LEMMA RuleDirective ==
    ASSUME NEW rule \in Rules, Rule(rule)
    PROVE  lcf' = [lcf EXCEPT ![block] = WithRule(lcf[block], rule)]
BY DEF Rule, WithRule

\* Report is WithReport of the block that is read.
LEMMA ReportDirective ==
    ASSUME NEW t, Report(t)
    PROVE  lcf' = [lcf EXCEPT ![block] = WithReport(lcf[block], t)]
BY DEF Report, WithReport

\* Label is WithLabel of the block that is read.
LEMMA LabelDirective ==
    ASSUME NEW l, Label(l)
    PROVE  lcf' = [lcf EXCEPT ![block] = WithLabel(lcf[block], l)]
BY DEF Label, WithLabel

\* Initially every variable has its type.
LEMMA TypeInit == Init => TypeOK
<1> SUFFICES ASSUME Init PROVE TypeOK
  OBVIOUS
<1>1. EmptyConf \in Confs
  BY DEF EmptyConf, Confs
<1>2. 0 \in Blocks /\ 1..0 = {}
  BY ConfigAssumption DEF Blocks
<1>3. DOMAIN groups = {} /\ DOMAIN guards = {}
  BY DEF Init
<1>4. lcf \in [Blocks -> Confs] /\ own \in [Blocks -> Confs]
  BY <1>1 DEF Init
<1>5. QED
  BY <1>2, <1>3, <1>4 DEF Init, TypeOK

\* Every step keeps the types; nothing is merged while a block is read.
LEMMA TypeStep ==
    ASSUME TypeOK, status = "parsing" => merged = 0, [Next]_vars
    PROVE  TypeOK'
<1>0. Depth \in Nat /\ block \in Nat /\ deepest \in Nat /\ merged \in Nat
  BY ConfigAssumption DEF TypeOK, Blocks
<1>1. CASE UNCHANGED vars
  BY <1>1 DEF vars, main, TypeOK
<1>2. ASSUME \/ \E t \in KeyTtls : AuthKey(t)
             \/ \E h \in Horizons : Policy(h)
             \/ \E d \in Singles : MainDirective(d)
      PROVE  TypeOK'
  <2>1. ASSUME NEW t \in KeyTtls, AuthKey(t)
        PROVE  TypeOK'
    BY <2>1, ConfigAssumption DEF AuthKey, TypeOK
  <2>2. ASSUME NEW h \in Horizons, Policy(h)
        PROVE  TypeOK'
    BY <2>2, ConfigAssumption DEF Policy, TypeOK
  <2>3. ASSUME NEW d \in Singles, MainDirective(d)
        PROVE  TypeOK'
    BY <2>3 DEF MainDirective, TypeOK
  <2>4. QED
    BY <1>2, <2>1, <2>2, <2>3
<1>3. ASSUME NEW z \in Zones, Zone(z)
      PROVE  TypeOK'
  BY <1>3 DEF Zone, TypeOK
<1>4. ASSUME NEW t \in Trackers, Tracker(t)
      PROVE  TypeOK'
  BY <1>4 DEF Tracker, TypeOK
<1>5. ASSUME NEW g \in Groups, NEW zs \in Seq(Zones), Group(g, zs)
      PROVE  TypeOK'
  <2>1. /\ DOMAIN groups' = DOMAIN groups \cup {g} /\ groups'[g] = zs
        /\ \A k \in DOMAIN groups : groups'[k] = groups[k]
    BY <1>5 DEF Group, GroupValid, Extend
  <2>2. /\ DOMAIN groups' \subseteq Groups
        /\ \A k \in DOMAIN groups' : groups'[k] \in Seq(Zones)
    BY <2>1 DEF TypeOK
  <2>3. QED
    BY <1>5, <2>2 DEF Group, TypeOK
<1>6. ASSUME NEW x \in Guards, NEW t \in Trackers, Guard(x, t)
      PROVE  TypeOK'
  <2>1. /\ DOMAIN guards' = DOMAIN guards \cup {x} /\ guards'[x] = t
        /\ \A k \in DOMAIN guards : guards'[k] = guards[k]
    BY <1>6 DEF Guard, GuardValid, Extend
  <2>2. /\ DOMAIN guards' \subseteq Guards
        /\ \A k \in DOMAIN guards' : guards'[k] \in Trackers
    BY <2>1 DEF TypeOK
  <2>3. QED
    BY <1>6, <2>2 DEF Guard, TypeOK
<1>7. CASE Open
  <2>1. block' \in Blocks /\ deepest' \in Blocks
    BY <1>0, <1>7 DEF Open, Blocks
  <2>2. QED
    BY <1>7, <2>1 DEF Open, main, TypeOK
<1>8. CASE Close
  <2>1. block' \in Blocks
    BY <1>0, <1>8 DEF Close, Blocks, TypeOK
  <2>2. QED
    BY <1>8, <2>1 DEF Close, main, TypeOK
<1>9. CASE Refuse
  BY <1>9 DEF Refuse, main, TypeOK
<1>10. ASSUME NEW c \in Confs, lcf' = [lcf EXCEPT ![block] = c],
              status = "parsing", enabled' \in BOOLEAN,
              directives' = directives + 1,
              UNCHANGED <<status, block, deepest, zones, trackers, groups,
                          guards, given, ttl, horizon, merged, own>>
       PROVE  TypeOK'
  <2>1. lcf' \in [Blocks -> Confs]
    BY <1>10 DEF TypeOK
  <2>2. 1..merged' = {}
    BY <1>10
  <2>3. QED
    BY <1>10, <2>1, <2>2 DEF TypeOK
<1>11. ASSUME NEW rule \in Rules, Rule(rule)
       PROVE  TypeOK'
  <2>1. WithRule(lcf[block], rule) \in Confs
    BY WithRuleFields DEF TypeOK
  <2>2. QED
    BY <1>10, <1>11, <2>1, RuleDirective DEF Rule, InBlock
<1>12. ASSUME NEW t \in Trackers \cup {"off"}, Report(t)
       PROVE  TypeOK'
  <2>1. WithReport(lcf[block], t) \in Confs
    BY WithReportFields DEF TypeOK
  <2>2. enabled' \in BOOLEAN
    BY <1>12 DEF Report, Enabling, TypeOK
  <2>3. QED
    BY <1>10, <1>12, <2>1, <2>2, ReportDirective DEF Report, InBlock
<1>13. ASSUME NEW l \in Labels, Label(l)
       PROVE  TypeOK'
  <2>1. WithLabel(lcf[block], l) \in Confs
    BY WithLabelFields DEF TypeOK
  <2>2. enabled' \in BOOLEAN
    BY <1>13 DEF Label, main, TypeOK
  <2>3. QED
    BY <1>10, <1>13, <2>1, <2>2, LabelDirective DEF Label, main, InBlock
<1>14. CASE EndOfFile
  BY <1>14 DEF EndOfFile, main, TypeOK
<1>15. CASE Merge
  <2>1. merged + 1 \in Blocks /\ merged \in Blocks
    BY <1>0, <1>15 DEF Merge, Blocks
  <2> DEFINE m == Merged(lcf[merged], lcf[merged + 1])
  <2>2. m \in Confs /\ m.enabled # "unset"
    BY <2>1, MergedType DEF TypeOK
  <2>3. /\ lcf' = [lcf EXCEPT ![merged + 1] = m] /\ merged' = merged + 1
        /\ UNCHANGED <<status, block, deepest, main, directives, own, check>>
    BY <1>15 DEF Merge
  <2> HIDE DEF m
  <2>4. lcf' \in [Blocks -> Confs]
    BY <2>2, <2>3 DEF TypeOK
  <2>5. ASSUME NEW b \in 1..(merged + 1)
        PROVE  lcf'[b].enabled # "unset"
    <3>1. b \in Blocks /\ (b # merged + 1 => b \in 1..merged)
      BY <1>0, <2>1, <2>5 DEF Blocks
    <3>2. QED
      BY <2>1, <2>2, <2>3, <3>1 DEF TypeOK
  <2>6. QED
    BY <2>1, <2>3, <2>4, <2>5 DEF TypeOK, main
<1>16. CASE Loaded
  BY <1>16 DEF Loaded, main, TypeOK
<1>17. ASSUME NEW b, NEW invalid, NEW wide,
              Request(b, invalid, wide)
       PROVE  TypeOK'
  BY <1>17 DEF Request, main, TypeOK
<1>18. QED
  BY <1>1, <1>2, <1>3, <1>4, <1>5, <1>6, <1>7, <1>8, <1>9, <1>11, <1>12, <1>13,
     <1>14, <1>15, <1>16, <1>17, StepForms

(***************************************************************************)
(* Steps while the file is read                                            *)
(***************************************************************************)

\* A step that keeps every definition keeps every reference.  Blocks other
\* than b, the one it touches if any, are as they were.
LEMMA Reading ==
    ASSUME Inv, TypeOK', status = "parsing", Names', Validated',
           zones \subseteq zones', trackers \subseteq trackers',
           DOMAIN groups \subseteq DOMAIN groups',
           DOMAIN guards \subseteq DOMAIN guards',
           enabled => enabled',
           NEW b \in 1..Depth,
           \A i \in Blocks \ {b} : lcf'[i] = lcf[i],
           lcf'[b] = lcf[b] \/ BlockHolds(lcf[b])',
           UNCHANGED <<status, merged, own, check>>
    PROVE  Inv'
<1>1. 0 \in Blocks \ {b} /\ b \in Blocks
  BY ConfigAssumption DEF Blocks
<1>2. Stages'
  BY <1>1 DEF Inv, Stages
<1>3. ASSUME NEW i \in Blocks, lcf'[i] = lcf[i]
      PROVE  BlockHolds(lcf[i])'
  <2>1. BlockHolds(lcf[i])
    BY DEF Inv
  <2>2. \A r \in Rules : RuleValid(r) => RuleValid(r)'
    <3> SUFFICES ASSUME NEW r \in Rules, RuleValid(r) PROVE RuleValid(r)'
      OBVIOUS
    <3>1. r.ref.kind \in {"zone", "group", "guard_only"}
      BY DEF Rules, ZoneRefs, GroupRefs, NoRef
    <3>2. Resolved(r.ref)'
      BY <3>1 DEF RuleValid, Resolved
    <3>3. QED
      BY <3>2 DEF RuleValid
  <2>3. lcf[i].rules \in Seq(Rules)
    BY DEF Inv, TypeOK, Confs
  <2>4. \A j \in DOMAIN lcf[i].rules : lcf[i].rules[j] \in Rules
    BY <2>3
  <2>5. QED
    BY <1>3, <2>1, <2>2, <2>4 DEF BlockHolds
<1>4. \A i \in Blocks : BlockHolds(lcf[i])'
  BY <1>1, <1>3
<1>5. Inherited'
  BY DEF Inherited
<1>6. QED
  BY <1>2, <1>4, <1>5 DEF Inv

\* Directives of the http block.
LEMMA DefinitionInv ==
    ASSUME Inv, TypeOK',
           \/ \E t \in KeyTtls : AuthKey(t)
           \/ \E h \in Horizons : Policy(h)
           \/ \E d \in Singles : MainDirective(d)
           \/ \E z \in Zones : Zone(z)
           \/ \E t \in Trackers : Tracker(t)
           \/ \E g \in Groups, zs \in Seq(Zones) : Group(g, zs)
           \/ \E x \in Guards, t \in Trackers : Guard(x, t)
    PROVE  Inv'
<1>1. 1 \in 1..Depth
  BY ConfigAssumption
<1>2. Names /\ Validated
  BY DEF Inv
<1>3. ASSUME status = "parsing", Names', Validated',
             zones \subseteq zones', trackers \subseteq trackers',
             DOMAIN groups \subseteq DOMAIN groups',
             DOMAIN guards \subseteq DOMAIN guards',
             UNCHANGED <<status, enabled, lcf, merged, own, check>>
      PROVE  Inv'
  BY <1>1, <1>3, Reading
<1>4. ASSUME \/ \E t \in KeyTtls : AuthKey(t)
             \/ \E h \in Horizons : Policy(h)
             \/ \E d \in Singles : MainDirective(d)
      PROVE  Inv'
  <2>1. /\ UNCHANGED <<zones, trackers, groups, guards>>
        /\ UNCHANGED <<status, enabled, lcf, merged, own, check>>
        /\ status = "parsing"
    BY <1>4 DEF AuthKey, Policy, MainDirective, InHttp
  <2>2. Names' /\ Validated'
    BY <1>2, <2>1 DEF Names, Validated
  <2>3. QED
    BY <1>3, <2>1, <2>2
<1>5. ASSUME NEW z \in Zones, Zone(z)
      PROVE  Inv'
  <2>1. Names' /\ Validated'
    BY <1>2, <1>5 DEF Names, Validated, Zone
  <2>2. QED
    BY <1>3, <1>5, <2>1 DEF Zone, InHttp
<1>6. ASSUME NEW t \in Trackers, Tracker(t)
      PROVE  Inv'
  <2>1. Names' /\ Validated'
    BY <1>2, <1>6 DEF Names, Validated, Tracker
  <2>2. QED
    BY <1>3, <1>6, <2>1 DEF Tracker, InHttp
<1>7. ASSUME NEW g \in Groups, NEW zs \in Seq(Zones), Group(g, zs)
      PROVE  Inv'
  <2>1. /\ DOMAIN groups' = DOMAIN groups \cup {g} /\ groups'[g] = zs
        /\ \A k \in DOMAIN groups : groups'[k] = groups[k]
    BY <1>7 DEF Group, GroupValid, Extend
  <2>2. zs # <<>> /\ Range(zs) \subseteq zones
    BY <1>7 DEF Group, GroupValid, Range
  <2>3. Names' /\ Validated'
    BY <1>2, <1>7, <2>1, <2>2 DEF Names, Validated, Group
  <2>4. QED
    BY <1>3, <1>7, <2>1, <2>3 DEF Group, InHttp
<1>8. ASSUME NEW x \in Guards, NEW t \in Trackers, Guard(x, t)
      PROVE  Inv'
  <2>1. /\ DOMAIN guards' = DOMAIN guards \cup {x} /\ guards'[x] = t
        /\ \A k \in DOMAIN guards : guards'[k] = guards[k] /\ t \in trackers
    BY <1>8 DEF Guard, GuardValid, Extend
  <2>2. t \in trackers
    BY <1>8 DEF Guard, GuardValid
  <2>3. Names' /\ Validated'
    BY <1>2, <1>8, <2>1, <2>2 DEF Names, Validated, Guard
  <2>4. QED
    BY <1>3, <1>8, <2>1, <2>3 DEF Guard, InHttp
<1>9. QED
  BY <1>4, <1>5, <1>6, <1>7, <1>8

\* A directive that leaves its block sound.
LEMMA BlockInv ==
    ASSUME Inv, TypeOK', InBlock, NEW c \in Confs,
           lcf' = [lcf EXCEPT ![block] = c], enabled => enabled',
           \A i \in DOMAIN c.rules :
              RuleValid(c.rules[i]) \/ c.rules[i] \in Range(lcf[block].rules),
           c.report \in trackers \cup {"off"},
           c.enabled = "on" => enabled' /\ c.rules # <<>>,
           c.report # "off" => enabled',
           ~c.report_set => c.report = "off",
           ~c.label_set => c.label = "none",
           c.label_set => Accepted(c.label),
           UNCHANGED <<status, block, zones, trackers, groups, guards, merged,
                       own, check>>
    PROVE  Inv'
<1>1. /\ block \in 1..Depth /\ block \in Blocks /\ status = "parsing"
      /\ lcf \in [Blocks -> Confs] /\ lcf[block] \in Confs
      /\ BlockHolds(lcf[block])
  BY ConfigAssumption DEF Inv, TypeOK, Blocks, InBlock
<1>2. Names' /\ Validated'
  BY DEF Inv, Names, Validated
<1>3. PICK b \in 1..Depth : b = block
  BY <1>1
<1>4. lcf'[b] = c /\ \A i \in Blocks \ {b} : lcf'[i] = lcf[i]
  BY <1>1, <1>3
<1>5. \A i \in DOMAIN c.rules : RuleValid(c.rules[i])
  BY <1>1 DEF BlockHolds, Range
<1>6. \A i \in DOMAIN c.rules : RuleValid(c.rules[i])'
  BY <1>5 DEF RuleValid, Resolved
<1>7. BlockHolds(lcf[b])'
  BY <1>4, <1>6 DEF BlockHolds
<1>8. QED
  BY <1>1, <1>2, <1>4, <1>7, Reading

\* A rule's names are those of directives read before.
LEMMA RuleInv ==
    ASSUME Inv, TypeOK', NEW rule \in Rules, Rule(rule)
    PROVE  Inv'
<1> DEFINE c == WithRule(lcf[block], rule)
<1>1. lcf' = [lcf EXCEPT ![block] = c]
  BY RuleDirective
<1>2. lcf[block] \in Confs /\ BlockHolds(lcf[block])
  BY DEF Inv, TypeOK
<1>3. /\ c \in Confs /\ c.rules = Append(lcf[block].rules, rule)
      /\ c.report = lcf[block].report /\ c.label = lcf[block].label
      /\ c.report_set = lcf[block].report_set
      /\ c.label_set = lcf[block].label_set
  BY <1>2, WithRuleFields
<1>4. RuleValid(rule) /\ InBlock /\ enabled'
  BY Zenon DEF Rule
<1>5. UNCHANGED <<status, block, zones, trackers, groups, guards, merged, own,
                  check>>
  BY DEF Rule
<1> HIDE DEF c
<1>6. lcf[block].rules \in Seq(Rules)
  BY <1>2 DEF Confs
<1>7. c.rules # <<>>
  BY <1>3, <1>6
<1>8. ASSUME NEW i \in DOMAIN c.rules
      PROVE  RuleValid(c.rules[i]) \/ c.rules[i] \in Range(lcf[block].rules)
  BY <1>3, <1>4, <1>6 DEF Range
<1>9. QED
  BY <1>1, <1>2, <1>3, <1>4, <1>5, <1>7, <1>8, BlockInv DEF BlockHolds

\* So is the tracker of a report.
LEMMA ReportInv ==
    ASSUME Inv, TypeOK', NEW t \in Trackers \cup {"off"}, Report(t)
    PROVE  Inv'
<1> DEFINE c == WithReport(lcf[block], t)
<1>1. lcf' = [lcf EXCEPT ![block] = c]
  BY ReportDirective
<1>2. lcf[block] \in Confs /\ BlockHolds(lcf[block])
  BY DEF Inv, TypeOK
<1>3. /\ c \in Confs /\ c.report_set /\ c.report = t
      /\ c.rules = lcf[block].rules /\ c.enabled = lcf[block].enabled
      /\ c.label = lcf[block].label /\ c.label_set = lcf[block].label_set
  BY <1>2, WithReportFields
<1>4. InBlock /\ t \in trackers \cup {"off"} /\ enabled' = (enabled \/ t # "off")
  BY Zenon DEF Report, Enabling
<1>5. UNCHANGED <<status, block, zones, trackers, groups, guards, merged, own,
                  check>>
  BY DEF Report
<1> HIDE DEF c
<1>6. (enabled => enabled') /\ (t # "off" => enabled')
  BY <1>4
<1>7. \A i \in DOMAIN c.rules : RuleValid(c.rules[i])
  BY <1>2, <1>3 DEF BlockHolds
<1>8. QED
  BY <1>1, <1>2, <1>3, <1>4, <1>5, <1>6, <1>7, BlockInv DEF BlockHolds

\* A label refers to nothing.
LEMMA LabelInv ==
    ASSUME Inv, TypeOK', NEW l \in Labels, Label(l)
    PROVE  Inv'
<1> DEFINE c == WithLabel(lcf[block], l)
<1>1. lcf' = [lcf EXCEPT ![block] = c]
  BY LabelDirective
<1>2. lcf[block] \in Confs /\ BlockHolds(lcf[block])
  BY DEF Inv, TypeOK
<1>3. /\ c \in Confs /\ c.label_set /\ c.label = l
      /\ c.rules = lcf[block].rules
      /\ c.enabled = lcf[block].enabled
      /\ c.report = lcf[block].report /\ c.report_set = lcf[block].report_set
  BY <1>2, WithLabelFields
<1>4. InBlock /\ Accepted(l)
  BY DEF Label
<1>5. UNCHANGED <<status, block, zones, trackers, groups, guards, enabled,
                  merged, own, check>>
  BY DEF Label, main
<1> HIDE DEF c
<1>6. \A i \in DOMAIN c.rules : RuleValid(c.rules[i])
  BY <1>2, <1>3 DEF BlockHolds
<1>7. QED
  BY <1>1, <1>2, <1>3, <1>4, <1>5, <1>6, BlockInv DEF BlockHolds

(***************************************************************************)
(* The end of the file, merging, and requests                              *)
(***************************************************************************)

\* Blocks open and close; a directive may be refused.
LEMMA StructureInv ==
    ASSUME Inv, TypeOK', Open \/ Close \/ (Refuse /\ status = "parsing")
    PROVE  Inv'
<1>1. /\ UNCHANGED <<zones, trackers, groups, guards, enabled, lcf, merged, own,
                     check>>
      /\ status = "parsing" /\ status' \in {"parsing", "failed"}
  BY DEF Open, Close, Refuse, main
<1>2. Stages'
  BY <1>1 DEF Inv, Stages
<1>3. Names' /\ Validated' /\ \A b \in Blocks : BlockHolds(lcf[b])'
  BY <1>1 DEF Inv, Names, Validated, BlockHolds, RuleValid, Resolved
<1>4. Inherited'
  BY <1>1 DEF Inherited
<1>5. QED
  BY <1>2, <1>3, <1>4 DEF Inv

\* At the end of the file the http block, which takes no such directive, is
\* where inheritance starts.
LEMMA EndOfFileInv ==
    ASSUME Inv, TypeOK', EndOfFile
    PROVE  Inv'
<1>1. /\ UNCHANGED <<zones, trackers, groups, guards, enabled, lcf, merged,
                     check>>
      /\ status = "parsing" /\ status' = "merging" /\ own' = lcf
  BY DEF EndOfFile, InHttp, main
<1>2. merged = 0 /\ lcf[0] = EmptyConf /\ check = NoCheck
  BY <1>1 DEF Inv, Stages
<1>3. Stages'
  BY <1>1, <1>2 DEF Stages
<1>4. Names' /\ Validated' /\ \A b \in Blocks : BlockHolds(lcf[b])'
  BY <1>1 DEF Inv, Names, Validated, BlockHolds, RuleValid, Resolved
<1>5. Inherited'
  <2>1. ASSUME NEW b \in 0..0
        PROVE  InForce(b)'
    <3>1. b = 0 /\ 1..0 = {}
      BY <2>1
    <3>2. QED
      BY <1>1, <3>1 DEF InForce, Nearest
  <2>2. QED
    BY <1>1, <1>2, <2>1 DEF Inherited
<1>6. QED
  BY <1>3, <1>4, <1>5 DEF Inv

\* ngx_http_rn_init accepts the configuration or refuses it.
LEMMA LoadedInv ==
    ASSUME Inv, TypeOK', Loaded
    PROVE  Inv'
<1>1. /\ UNCHANGED <<zones, trackers, groups, guards, given, ttl, horizon,
                     enabled,                      lcf, merged, own, check>>
      /\ status = "merging" /\ merged = Depth
      /\ status' = IF Usable THEN "running" ELSE "failed"
  BY DEF Loaded, main
<1>2. check = NoCheck
  BY <1>1 DEF Inv, Stages
<1>3. Usable' <=> Usable
  BY <1>1 DEF Usable
<1>4. Stages'
  BY <1>1, <1>2, <1>3 DEF Inv, Stages
<1>5. Names' /\ Validated' /\ \A b \in Blocks : BlockHolds(lcf[b])'
  BY <1>1 DEF Inv, Names, Validated, BlockHolds, RuleValid, Resolved
<1>6. Inherited'
  <2>1. \A i \in 0..merged : InForce(i) => InForce(i)'
    BY <1>1 DEF InForce, Nearest
  <2>2. QED
    BY <1>1, <2>1 DEF Inv, Inherited
<1>7. QED
  BY <1>4, <1>5, <1>6 DEF Inv

\* Sound rules refer to defined names only: rn_find_zone, rn_find_group and
\* the guard and tracker lookups of the handler succeed.
LEMMA RulesFound ==
    ASSUME TypeOK, Names, NEW b \in Blocks, BlockHolds(lcf[b])
    PROVE  Found(b)
<1> SUFFICES ASSUME NEW i \in DOMAIN lcf[b].rules
             PROVE  LET rule == lcf[b].rules[i] IN
                    /\ Resolved(rule.ref)
                    /\ rule.ref.kind = "group" =>
                          \A j \in DOMAIN groups[rule.ref.name] :
                              groups[rule.ref.name][j] \in zones
                    /\ \A j \in DOMAIN rule.guards :
                          /\ rule.guards[j] \in DOMAIN guards
                          /\ guards[rule.guards[j]] \in trackers
  BY DEF Found
<1> DEFINE rule == lcf[b].rules[i]
<1>1. RuleValid(rule)
  BY DEF BlockHolds
<1> HIDE DEF rule
<1>2. rule.ref.kind = "group" => rule.ref.name \in DOMAIN groups
  BY <1>1 DEF RuleValid, Resolved
<1>3. rule.ref.kind = "group" => Range(groups[rule.ref.name]) \subseteq zones
  BY <1>2 DEF Names
<1>4. QED
  BY <1>1, <1>3 DEF RuleValid, Names, Range, rule

\* A request of a running worker.
LEMMA RequestInv ==
    ASSUME Inv, TypeOK', NEW b \in 1..Depth, NEW invalid, NEW wide,
           Request(b, invalid, wide)
    PROVE  Inv'
<1>1. /\ UNCHANGED <<zones, trackers, groups, guards, given, ttl, horizon,
                     enabled,                      lcf, merged, own, status>>
      /\ status = "running"
  BY DEF Request, main
<1>2. Stages'
  BY <1>1 DEF Inv, Stages, Usable
<1>3. Names' /\ Validated' /\ \A i \in Blocks : BlockHolds(lcf[i])'
  BY <1>1 DEF Inv, Names, Validated, BlockHolds, RuleValid, Resolved
<1>4. Inherited'
  <2>1. \A i \in 0..merged : InForce(i) => InForce(i)'
    BY <1>1 DEF InForce, Nearest
  <2>2. QED
    BY <1>1, <2>1 DEF Inv, Inherited
<1>5. QED
  BY <1>2, <1>3, <1>4 DEF Inv

\* The nearest of a set of blocks.
NearestIn(S) ==
    IF S = {} THEN 0 ELSE CHOOSE i \in S : \A j \in S : j <= i

\* The nearest block that sets something is the innermost, if that does.
LEMMA NearestStep ==
    ASSUME NEW m \in Nat, NEW S \in SUBSET (1..(m + 1)), m + 1 \in S
    PROVE  NearestIn(S) = m + 1
<1>1. \A j \in S : j <= m + 1 /\ j \in Nat
  OBVIOUS
<1>2. \A i \in S : (\A j \in S : j <= i) => i = m + 1
  BY <1>1
<1>3. QED
  BY <1>1, <1>2 DEF NearestIn

\* Merging the next block: its own directives win, the rest it inherits.
LEMMA MergeInv ==
    ASSUME Inv, TypeOK', Merge
    PROVE  Inv'
<1>0. PICK m \in Nat : m = merged
  BY ConfigAssumption DEF Inv, TypeOK, Blocks
<1> DEFINE n == m + 1
           prev == lcf[m]
           conf == lcf[n]
           new == Merged(prev, conf)
<1>1. /\ m \in Nat /\ n \in Nat /\ m \in Blocks /\ n \in Blocks /\ n # 0
      /\ m \in 0..m /\ n \in n..Depth /\ status = "merging"
  BY <1>0, ConfigAssumption DEF Inv, TypeOK, Blocks, Merge
<1>2. /\ lcf' = [lcf EXCEPT ![n] = new] /\ merged' = n
      /\ UNCHANGED <<zones, trackers, groups, guards, given, ttl, horizon,
                     enabled,                      own, status, check>>
  BY <1>0 DEF Merge, main
<1>3. /\ lcf \in [Blocks -> Confs] /\ prev \in Confs /\ conf \in Confs
      /\ BlockHolds(prev) /\ BlockHolds(conf) /\ InForce(m) /\ conf = own[n]
  BY <1>0, <1>1 DEF Inv, TypeOK, Inherited
<1>4. /\ new.enabled = MergedEnabled(prev, conf)
      /\ new.rules = MergedRules(prev, conf)
      /\ new.report = IF ~conf.report_set /\ prev.report_set THEN prev.report
                      ELSE conf.report
      /\ new.label = IF ~conf.label_set /\ prev.label_set THEN prev.label
                     ELSE conf.label
  BY DEF Merged
<1>5. new.report_set <=> conf.report_set \/ prev.report_set
  BY DEF Merged
<1>6. new.label_set <=> conf.label_set \/ prev.label_set
  BY DEF Merged
<1> HIDE DEF new, prev, conf
<1>7. lcf'[n] = new /\ \A b \in Blocks \ {n} : lcf'[b] = lcf[b]
  BY <1>1, <1>2, <1>3
<1>8. Stages'
  BY <1>1, <1>2, <1>7, ConfigAssumption DEF Inv, Stages, Blocks
<1>9. Names' /\ Validated'
  BY <1>2 DEF Inv, Names, Validated
<1>10. \A b \in Blocks : BlockHolds(lcf[b])'
  <2>1. BlockHolds(new)
    <3>1. \A i \in DOMAIN new.rules : RuleValid(new.rules[i])
      BY <1>3, <1>4 DEF MergedRules, BlockHolds
    <3>2. new.enabled = "on" => enabled /\ new.rules # <<>>
      BY <1>3, <1>4 DEF MergedEnabled, MergedRules, BlockHolds
    <3>3. /\ new.report \in trackers \cup {"off"}
          /\ new.report # "off" => enabled
      BY <1>3, <1>4 DEF BlockHolds
    <3>4. /\ ~new.report_set => new.report = "off"
          /\ ~new.label_set => new.label = "none"
          /\ new.label_set => Accepted(new.label)
      BY <1>3, <1>4, <1>5, <1>6 DEF BlockHolds
    <3>5. QED
      BY <3>1, <3>2, <3>3, <3>4 DEF BlockHolds
  <2>2. ASSUME NEW b \in Blocks
        PROVE  BlockHolds(lcf[b])'
    <3>1. PICK c : c = lcf'[b] /\ BlockHolds(c)
      BY <1>7, <2>1 DEF Inv
    <3>2. \A i \in DOMAIN c.rules : RuleValid(c.rules[i]) => RuleValid(c.rules[i])'
      BY <1>2 DEF RuleValid, Resolved
    <3>3. QED
      BY <1>2, <3>1, <3>2 DEF BlockHolds
  <2>3. QED
    BY <2>2
<1>11. Inherited'
  <2>1. ASSUME NEW b \in 0..m
        PROVE  InForce(b)'
    <3>1. InForce(b)
      BY <1>0, <1>1 DEF Inv, Inherited
    <3>2. b \in Blocks \ {n}
      BY <1>1, ConfigAssumption DEF Blocks
    <3>3. lcf'[b] = lcf[b]
      BY <1>7, <3>2
    <3>4. QED
      BY <1>2, <3>1, <3>3 DEF InForce, Nearest
  <2>2. InForce(n)'
    <3> DEFINE R(b) == {i \in 1..b : own[i].rules # <<>>}
               P(b) == {i \in 1..b : own[i].report_set}
               L(b) == {i \in 1..b : own[i].label_set}
    <3>1. /\ prev.rules = own[NearestIn(R(m))].rules
          /\ prev.report = own[NearestIn(P(m))].report
          /\ prev.label = own[NearestIn(L(m))].label
      BY <1>3 DEF InForce, Nearest, NearestIn, prev
    <3>2. 1..n = (1..m) \cup {n} /\ n \in 1..n
      BY <1>1
    <3>3. new.rules = own[NearestIn(R(n))].rules
      <4>1. CASE conf.rules = <<>>
        <5>1. R(n) = R(m)
          BY <1>3, <3>2, <4>1
        <5>2. QED
          BY <1>4, <3>1, <4>1, <5>1 DEF MergedRules
      <4>2. CASE conf.rules # <<>>
        <5>1. R(n) \in SUBSET (1..n) /\ n \in R(n)
          BY <1>3, <3>2, <4>2
        <5>2. NearestIn(R(n)) = n
          BY <1>1, <5>1, NearestStep
        <5>3. QED
          BY <1>3, <1>4, <4>2, <5>2 DEF MergedRules
      <4>3. QED
        BY <4>1, <4>2
    <3>4. new.report = own[NearestIn(P(n))].report
      <4>1. CASE ~conf.report_set
        <5>1. P(n) = P(m)
          BY <1>3, <3>2, <4>1
        <5>2. new.report = prev.report
          BY <1>3, <1>4, <4>1 DEF BlockHolds
        <5>3. QED
          BY <3>1, <5>1, <5>2
      <4>2. CASE conf.report_set
        <5>1. P(n) \in SUBSET (1..n) /\ n \in P(n)
          BY <1>3, <3>2, <4>2
        <5>2. NearestIn(P(n)) = n
          BY <1>1, <5>1, NearestStep
        <5>3. QED
          BY <1>3, <1>4, <4>2, <5>2
      <4>3. QED
        BY <4>1, <4>2
    <3>5. new.label = own[NearestIn(L(n))].label
      <4>1. CASE ~conf.label_set
        <5>1. L(n) = L(m)
          BY <1>3, <3>2, <4>1
        <5>2. new.label = prev.label
          BY <1>3, <1>4, <4>1 DEF BlockHolds
        <5>3. QED
          BY <3>1, <5>1, <5>2
      <4>2. CASE conf.label_set
        <5>1. L(n) \in SUBSET (1..n) /\ n \in L(n)
          BY <1>3, <3>2, <4>2
        <5>2. NearestIn(L(n)) = n
          BY <1>1, <5>1, NearestStep
        <5>3. QED
          BY <1>3, <1>4, <4>2, <5>2
      <4>3. QED
        BY <4>1, <4>2
    <3>6. /\ lcf'[n].rules =
                own'[NearestIn({i \in 1..n : own'[i].rules # <<>>})].rules
          /\ lcf'[n].report =
                own'[NearestIn({i \in 1..n : own'[i].report_set})].report
          /\ lcf'[n].label =
                own'[NearestIn({i \in 1..n : own'[i].label_set})].label
      BY <1>2, <1>7, <3>3, <3>4, <3>5
    <3>7. QED
      BY <3>6 DEF InForce, Nearest, NearestIn
  <2>3. ASSUME NEW b \in 0..n
        PROVE  b \in 0..m \/ b = n
    BY <1>1, <2>3
  <2>4. ASSUME NEW b \in (n + 1)..Depth
        PROVE  lcf'[b] = own'[b]
    <3>1. b \in (m + 1)..Depth /\ b \in Blocks \ {n}
      BY <1>1, <2>4, ConfigAssumption DEF Blocks
    <3>2. QED
      BY <1>0, <1>1, <1>2, <1>7, <3>1 DEF Inv, Inherited
  <2>5. QED
    BY <1>1, <1>2, <2>1, <2>2, <2>3, <2>4 DEF Inherited
<1>12. QED
  BY <1>8, <1>9, <1>10, <1>11 DEF Inv

(***************************************************************************)
(* The invariant holds                                                     *)
(***************************************************************************)

\* Initially the invariant holds.
LEMMA InvInit == Init => Inv
<1> SUFFICES ASSUME Init PROVE Inv
  OBVIOUS
<1>1. TypeOK
  BY TypeInit
<1>2. DOMAIN groups = {} /\ DOMAIN guards = {}
  BY DEF Init
<1>3. 0 \in Blocks /\ status = "parsing" /\ check = NoCheck /\ merged = 0
      /\ lcf = [b \in Blocks |-> EmptyConf]
  BY ConfigAssumption DEF Init, Blocks
<1>4. Stages /\ Names /\ Inherited
  BY <1>2, <1>3 DEF Stages, Names, Inherited
<1>5. Validated
  BY <1>2 DEF Init, Validated
<1>6. BlockHolds(EmptyConf)
  BY DEF BlockHolds, EmptyConf
<1>7. QED
  BY <1>1, <1>3, <1>4, <1>5, <1>6 DEF Inv

\* Every step keeps it.
LEMMA InvStep == Inv /\ [Next]_vars => Inv'
<1> SUFFICES ASSUME Inv, [Next]_vars PROVE Inv'
  OBVIOUS
<1>1. TypeOK'
  BY TypeStep DEF Inv, Stages
<1>2. CASE UNCHANGED vars
  <2>1. UNCHANGED <<zones, trackers, groups, guards, given, ttl, horizon,
                     enabled,                     lcf, merged, own, status, check>>
    BY <1>2 DEF vars, main
  <2>2. Stages' /\ Names' /\ Validated' /\ \A i \in Blocks : BlockHolds(lcf[i])'
    BY <2>1 DEF Inv, Stages, Usable, Names, Validated, BlockHolds, RuleValid, Resolved
  <2>3. \A i \in 0..merged : InForce(i) => InForce(i)'
    BY <2>1 DEF InForce, Nearest
  <2>4. Inherited'
    BY <2>1, <2>3 DEF Inv, Inherited
  <2>5. QED
    BY <1>1, <2>2, <2>4 DEF Inv
<1>3. CASE Next
  <2>1. CASE \/ Open \/ Close \/ (Refuse /\ status = "parsing")
    BY <1>1, <2>1, StructureInv
  <2>2. QED
    BY <1>1, <1>3, <2>1, StepForms, DefinitionInv, RuleInv, ReportInv, LabelInv,
       EndOfFileInv, MergeInv, LoadedInv, RequestInv
<1>4. QED
  BY <1>2, <1>3

\* So it always holds.
LEMMA Invariant == Spec => []Inv
BY InvInit, InvStep, PTL DEF Spec

(***************************************************************************)
(* The theorems                                                            *)
(***************************************************************************)

\* Every variable keeps its type, and a merged block has no unset flag.
THEOREM TypeCorrect == Spec => []TypeOK
<1>1. Inv => TypeOK
  BY DEF Inv
<1>2. QED
  BY <1>1, Invariant, PTL

\* In a running worker every block has the rules, the report and the label of
\* the nearest block that states them, at any depth.
THEOREM ConfigNearestWins == Spec => []NearestWins
<1>1. ASSUME Inv, status = "running", NEW b \in 1..Depth
      PROVE  InForce(b)
  <2>1. merged = Depth /\ b \in 0..merged
    BY <1>1, ConfigAssumption DEF Inv, Stages
  <2>2. QED
    BY <1>1, <2>1 DEF Inv, Inherited
<1>2. Inv => NearestWins
  BY <1>1 DEF NearestWins, InForce
<1>3. QED
  BY <1>2, Invariant, PTL

(***************************************************************************)
(* Expansion: what the recursive definitions of RnConfig compute           *)
(***************************************************************************)

\* f concatenates the first 1, 2, ... n of a list of lists.
Flattens(seqs, n, f) ==
    \A i \in 1..n : f[i] = IF i = 1 THEN seqs[i] ELSE f[i - 1] \o seqs[i]

\* FlattenSeq is the last of these concatenations.
LEMMA FlattenSeqIs ==
    ASSUME NEW S, NEW seqs \in Seq(Seq(S)), Len(seqs) # 0
    PROVE  \E f \in [1..Len(seqs) -> Seq(S)] :
              Flattens(seqs, Len(seqs), f) /\ FlattenSeq(seqs) = f[Len(seqs)]
<1> DEFINE n == Len(seqs)
           Step(f) == [i \in 1..n |-> IF i = 1 THEN seqs[i]
                                      ELSE f[i - 1] \o seqs[i]]
           c == CHOOSE f : f = Step(f)
           next == [k \in 1 + 1..n |-> [s \in Seq(S) |-> s \o seqs[k]]]
<1>1. n \in Nat /\ n >= 1 /\ n \in 1..n /\ \A i \in 1..n : seqs[i] \in Seq(S)
  OBVIOUS
<1>2. \A k \in 1 + 1..n : \A s \in Seq(S) : next[k][s] \in Seq(S)
  BY <1>1
<1>3. PICK f \in [1..n -> Seq(S)] : Follows(f, 1, n, seqs[1], next)
  <2> HIDE DEF next, n
  <2>1. seqs[1] \in Seq(S) /\ n \in Int /\ 1 \in Int /\ 1 <= n
    BY <1>1
  <2>2. QED
    BY <1>2, <2>1, Recursive, Zenon
<1>4. \A i \in 1..n : f[i] = IF i = 1 THEN seqs[i] ELSE f[i - 1] \o seqs[i]
  <2>1. ASSUME NEW i \in 1 + 1..n
        PROVE  f[i] = f[i - 1] \o seqs[i]
    <3>1. i - 1 \in 1..n
      BY <1>1
    <3>2. f[i - 1] \in Seq(S)
      BY <3>1
    <3>3. next[i][f[i - 1]] = f[i - 1] \o seqs[i]
      BY <3>2
    <3>4. QED
      BY <1>3, <3>3, Zenon DEF Follows
  <2>2. \A i \in 1..n : i # 1 => i \in 1 + 1..n
    BY <1>1
  <2>3. f[1] = seqs[1]
    BY <1>3, Zenon DEF Follows
  <2>4. QED
    BY <2>1, <2>2, <2>3
<1> HIDE DEF next
<1>5. f = Step(f)
  BY <1>4
<1>6. c = Step(c)
  BY <1>5
<1>7. FlattenSeq(seqs) = c[n]
  BY DEF FlattenSeq
<1> HIDE DEF c
<1>8. ASSUME NEW i \in 1..n
      PROVE  c[i] = IF i = 1 THEN seqs[i] ELSE c[i - 1] \o seqs[i]
  <2>1. Step(c)[i] = IF i = 1 THEN seqs[i] ELSE c[i - 1] \o seqs[i]
    OBVIOUS
  <2>2. QED
    BY <1>6, <2>1
<1>9. c[n] = f[n]
  <2>0. PICK a \in Int : a = 1
    OBVIOUS
  <2>1. Agree(c, f, a)
    <3>1. a \in 1..n
      BY <1>1, <2>0
    <3>2. QED
      BY <1>4, <1>8, <2>0, <3>1 DEF Agree
  <2>2. ASSUME NEW k \in a + 1..n, Agree(c, f, k - 1)
        PROVE  Agree(c, f, k)
    <3>1. k \in 1..n /\ k # 1
      BY <1>1, <2>0
    <3>2. QED
      BY <1>4, <1>8, <2>2, <3>1 DEF Agree
  <2>3. n \in Int /\ n \in a..n
    BY <1>1, <2>0
  <2> HIDE DEF n
  <2>4. Agree(c, f, n)
    BY <2>1, <2>2, <2>3, SameUpTo
  <2>5. QED
    BY <2>4 DEF Agree
<1>10. QED
  BY <1>1, <1>4, <1>7, <1>9 DEF Flattens

\* It is a list, and it is empty only if the first of the lists is.
LEMMA FlattenSeqNonEmpty ==
    ASSUME NEW S, NEW seqs \in Seq(Seq(S)), Len(seqs) # 0
    PROVE  /\ FlattenSeq(seqs) \in Seq(S)
           /\ seqs[1] # <<>> => FlattenSeq(seqs) # <<>>
<1> DEFINE n == Len(seqs)
<1>1. n \in Nat /\ n \in 1..n /\ \A i \in 1..n : seqs[i] \in Seq(S)
  OBVIOUS
<1>2. PICK f \in [1..n -> Seq(S)] :
          Flattens(seqs, n, f) /\ FlattenSeq(seqs) = f[n]
  BY FlattenSeqIs
<1>3. FlattenSeq(seqs) \in Seq(S)
  BY <1>1, <1>2
<1>4. ASSUME seqs[1] # <<>>, f[n] = <<>>
      PROVE  FALSE
  <2> DEFINE T == {k \in 1..n : f[k] = <<>>}
  <2>1. T \in SUBSET Nat /\ n \in T
    BY <1>1, <1>4
  <2> HIDE DEF T
  <2>2. PICK k \in T : \A y \in T : k <= y
    BY <2>1, LeastNumber
  <2>3. k \in 1..n /\ f[k] = <<>> /\ k \in Nat /\ k >= 1
    BY <1>1, <2>2 DEF T
  <2>4. f[k] = IF k = 1 THEN seqs[k] ELSE f[k - 1] \o seqs[k]
    BY <1>2, <2>3 DEF Flattens
  <2>5. k # 1
    BY <1>4, <2>3, <2>4
  <2>6. k - 1 \in 1..n /\ k - 1 \notin T
    BY <1>1, <2>2, <2>3, <2>5
  <2>7. f[k - 1] # <<>> /\ f[k - 1] \in Seq(S) /\ seqs[k] \in Seq(S)
    BY <1>1, <1>2, <2>3, <2>6 DEF T
  <2>8. f[k - 1] \o seqs[k] # <<>>
    BY <2>7
  <2>9. QED
    BY <2>3, <2>4, <2>5, <2>8
<1>5. QED
  BY <1>2, <1>3, <1>4

\* The guard definitions found among the first n references.
Collects(refs, n, f) ==
    \A i \in 0..n :
        f[i] = IF i = 0 THEN <<>>
               ELSE IF refs[i] \in Range(f[i - 1]) THEN f[i - 1]
                    ELSE Append(f[i - 1], refs[i])

\* DistinctGuards is what they are after the last reference.
LEMMA DistinctGuardsIs ==
    ASSUME NEW S, NEW rules, GuardRefs(rules) \in Seq(S)
    PROVE  LET refs == GuardRefs(rules)
           IN  \E f \in [0..Len(refs) -> Seq(S)] :
                  /\ Collects(refs, Len(refs), f)
                  /\ DistinctGuards(rules) = f[Len(refs)]
<1> DEFINE refs == GuardRefs(rules)
           n == Len(refs)
           With(found, i) == IF refs[i] \in Range(found) THEN found
                             ELSE Append(found, refs[i])
           Step(f) == [i \in 0..n |-> IF i = 0 THEN <<>> ELSE With(f[i - 1], i)]
           c == CHOOSE f : f = Step(f)
           next == [k \in 0 + 1..n |-> [s \in Seq(S) |-> With(s, k)]]
<1>1. n \in Nat /\ n \in 0..n /\ \A i \in 1..n : refs[i] \in S
  OBVIOUS
<1>2. \A k \in 0 + 1..n : \A s \in Seq(S) : next[k][s] \in Seq(S)
  BY <1>1
<1>3. PICK f \in [0..n -> Seq(S)] : Follows(f, 0, n, <<>>, next)
  <2> HIDE DEF next, n
  <2>1. <<>> \in Seq(S) /\ n \in Int /\ 0 \in Int /\ 0 <= n
    BY <1>1
  <2>2. QED
    BY <1>2, <2>1, Recursive, Zenon
<1>4. \A i \in 0..n : f[i] = IF i = 0 THEN <<>> ELSE With(f[i - 1], i)
  <2>1. ASSUME NEW i \in 0 + 1..n
        PROVE  f[i] = With(f[i - 1], i)
    <3>1. i - 1 \in 0..n
      BY <1>1
    <3>2. f[i - 1] \in Seq(S)
      BY <3>1
    <3> HIDE DEF With
    <3>3. next[i][f[i - 1]] = With(f[i - 1], i)
      BY <3>2
    <3>4. QED
      BY <1>3, <3>3, Zenon DEF Follows
  <2>2. \A i \in 0..n : i # 0 => i \in 0 + 1..n
    BY <1>1
  <2>3. f[0] = <<>>
    BY <1>3, Zenon DEF Follows
  <2> HIDE DEF With
  <2>4. QED
    BY <2>1, <2>2, <2>3
<1> HIDE DEF next
<1>5. DistinctGuards(rules) = c[n]
  BY DEF DistinctGuards
<1>6. Collects(refs, n, f)
  BY <1>4 DEF Collects
<1> HIDE DEF With
<1>7. f = Step(f)
  BY <1>4
<1>8. c = Step(c)
  BY <1>7
<1> HIDE DEF c
<1>9. ASSUME NEW i \in 0..n
      PROVE  c[i] = IF i = 0 THEN <<>> ELSE With(c[i - 1], i)
  <2>1. Step(c)[i] = IF i = 0 THEN <<>> ELSE With(c[i - 1], i)
    OBVIOUS
  <2>2. QED
    BY <1>8, <2>1
<1>10. c[n] = f[n]
  <2>0. PICK a \in Int : a = 0
    OBVIOUS
  <2>1. Agree(c, f, a)
    <3>1. a \in 0..n
      BY <1>1, <2>0
    <3>2. QED
      BY <1>4, <1>9, <2>0, <3>1 DEF Agree
  <2>2. ASSUME NEW k \in a + 1..n, Agree(c, f, k - 1)
        PROVE  Agree(c, f, k)
    <3>1. k \in 0..n /\ k # 0
      BY <1>1, <2>0
    <3>2. QED
      BY <1>4, <1>9, <2>2, <3>1 DEF Agree
  <2>3. n \in Int /\ n \in a..n
    BY <1>1, <2>0
  <2> HIDE DEF n
  <2>4. Agree(c, f, n)
    BY <2>1, <2>2, <2>3, SameUpTo
  <2>5. QED
    BY <2>4 DEF Agree
<1>11. QED
  BY <1>5, <1>6, <1>10

\* The first occurrence of x.
FirstOf(refs, x) == CHOOSE i \in DOMAIN refs :
                       refs[i] = x /\ \A j \in 1..i - 1 : refs[j] # x

\* Every element has a first place, not after its own.
LEMMA FirstOfIs ==
    ASSUME NEW S, NEW refs \in Seq(S), NEW k \in 1..Len(refs)
    PROVE  LET i == FirstOf(refs, refs[k])
           IN  i \in 1..k /\ refs[i] = refs[k] /\ \A j \in 1..i - 1 : refs[j] # refs[k]
<1> DEFINE T == {i \in 1..Len(refs) : refs[i] = refs[k]}
           x == refs[k]
           P(i) == refs[i] = x /\ \A j \in 1..i - 1 : refs[j] # x
<1>1. Len(refs) \in Nat /\ DOMAIN refs = 1..Len(refs) /\ k \in Nat
  OBVIOUS
<1>2. T \in SUBSET Nat /\ k \in T
  BY <1>1
<1> HIDE DEF T
<1>3. PICK m \in T : \A y \in T : m <= y
  BY <1>2, LeastNumber
<1>4. m \in DOMAIN refs /\ refs[m] = x
  BY <1>1, <1>3 DEF T
<1>5. \A j \in 1..m - 1 : refs[j] # x
  <2>1. SUFFICES ASSUME NEW j \in 1..m - 1, refs[j] = x PROVE FALSE
    OBVIOUS
  <2>2. j \in T
    BY <1>1, <1>4, <2>1 DEF T
  <2>3. QED
    BY <1>1, <1>3, <1>4, <2>2
<1> HIDE DEF x
<1>6. P(m)
  BY <1>4, <1>5
<1> DEFINE i == CHOOSE h \in DOMAIN refs : P(h)
<1>7. i \in DOMAIN refs /\ P(i)
  <2> HIDE DEF P
  <2>1. QED
    BY <1>4, <1>6
<1>8. i = FirstOf(refs, x)
  BY DEF FirstOf
<1> HIDE DEF i
<1>9. i <= k
  <2>1. ~(k < i)
    BY <1>1, <1>7 DEF x
  <2>2. QED
    BY <1>1, <1>7, <2>1
<1>10. QED
  BY <1>1, <1>7, <1>8, <1>9 DEF x

\* What guard_defs holds after the first k references: every guard named so
\* far, once, in the order of first occurrence.
Collected(refs, k, found) ==
    /\ Len(found) <= k
    /\ Range(found) = {refs[i] : i \in 1..k}
    /\ \A i, j \in DOMAIN found :
          i < j => FirstOf(refs, found[i]) < FirstOf(refs, found[j])

\* One more reference.
LEMMA CollectedStep ==
    ASSUME NEW S, NEW refs \in Seq(S), NEW k \in 1..Len(refs),
           NEW found \in Seq(S), Collected(refs, k - 1, found),
           NEW next, next = IF refs[k] \in Range(found) THEN found
                            ELSE Append(found, refs[k])
    PROVE  Collected(refs, k, next)
<1>1. /\ Len(refs) \in Nat /\ DOMAIN refs = 1..Len(refs) /\ k \in Nat
      /\ k >= 1 /\ k - 1 \in Nat /\ refs[k] \in S
  OBVIOUS
<1>2. {refs[i] : i \in 1..k} = {refs[i] : i \in 1..(k - 1)} \cup {refs[k]}
  <2>1. 1..k = (1..(k - 1)) \cup {k}
    BY <1>1
  <2>2. QED
    BY <2>1
<1>3. CASE refs[k] \in Range(found)
  BY <1>1, <1>2, <1>3 DEF Collected
<1>4. CASE refs[k] \notin Range(found)
  <2>1. /\ next = Append(found, refs[k]) /\ Len(found) \in Nat
        /\ Len(next) = Len(found) + 1
        /\ DOMAIN next = 1..(Len(found) + 1) /\ DOMAIN found = 1..Len(found)
        /\ next[Len(found) + 1] = refs[k]
        /\ \A i \in 1..Len(found) : next[i] = found[i]
    BY <1>1, <1>4
  <2>2. Range(next) = Range(found) \cup {refs[k]}
    <3>1. DOMAIN next = DOMAIN found \cup {Len(found) + 1}
      BY <2>1
    <3>2. QED
      BY <2>1, <3>1 DEF Range
  <2>3. Range(next) = {refs[i] : i \in 1..k}
    BY <1>2, <2>2 DEF Collected
  <2>4. FirstOf(refs, refs[k]) = k
    <3>1. FirstOf(refs, refs[k]) \in 1..k /\ refs[FirstOf(refs, refs[k])] = refs[k]
      BY FirstOfIs
    <3>2. FirstOf(refs, refs[k]) \notin 1..(k - 1)
      BY <1>4, <3>1 DEF Collected
    <3>3. QED
      BY <1>1, <3>1, <3>2
  <2>5. ASSUME NEW i \in DOMAIN found
        PROVE  FirstOf(refs, found[i]) < k
    <3>1. found[i] \in Range(found)
      BY DEF Range
    <3>2. PICK h \in 1..(k - 1) : found[i] = refs[h]
      BY <3>1 DEF Collected
    <3>3. h \in 1..Len(refs) /\ h < k /\ h \in Nat
      BY <1>1
    <3>4. FirstOf(refs, refs[h]) \in 1..h
      BY <3>3, FirstOfIs
    <3>5. QED
      BY <1>1, <3>2, <3>3, <3>4
  <2>6. ASSUME NEW i \in DOMAIN next, NEW j \in DOMAIN next, i < j
        PROVE  FirstOf(refs, next[i]) < FirstOf(refs, next[j])
    <3>1. i \in DOMAIN found /\ next[i] = found[i]
      BY <2>1, <2>6
    <3>2. CASE j = Len(found) + 1
      BY <2>1, <2>4, <2>5, <3>1, <3>2
    <3>3. CASE j # Len(found) + 1
      <4>1. j \in DOMAIN found /\ next[j] = found[j]
        BY <2>1, <3>3
      <4>2. QED
        BY <2>6, <3>1, <4>1 DEF Collected
    <3>4. QED
      BY <3>2, <3>3
  <2>7. Len(next) <= k
    BY <1>1, <2>1 DEF Collected
  <2>8. QED
    BY <2>3, <2>6, <2>7 DEF Collected
<1>5. QED
  BY <1>3, <1>4

\* By induction, the loop over all references has collected each of them once.
LEMMA CollectsCollected ==
    ASSUME NEW S, NEW refs \in Seq(S), NEW f \in [0..Len(refs) -> Seq(S)],
           Collects(refs, Len(refs), f)
    PROVE  Collected(refs, Len(refs), f[Len(refs)])
<1> DEFINE n == Len(refs)
           T == {k \in 0..n : ~Collected(refs, k, f[k])}
<1>1. n \in Nat /\ n \in 0..n
  OBVIOUS
<1> SUFFICES ASSUME n \in T PROVE FALSE
  BY <1>1
<1>2. T \in SUBSET Nat
  BY <1>1
<1> HIDE DEF T
<1>3. PICK k \in T : \A y \in T : k <= y
  <2>1. T # {}
    OBVIOUS
  <2>2. QED
    BY <1>2, <2>1, LeastNumber
<1>4. k \in 0..n /\ ~Collected(refs, k, f[k]) /\ k \in Nat
  BY <1>1, <1>3 DEF T
<1>5. k # 0
  <2>1. f[0] = <<>>
    BY <1>1 DEF Collects
  <2>2. Collected(refs, 0, <<>>)
    BY DEF Collected, Range
  <2>3. QED
    BY <1>4, <2>1, <2>2
<1>6. k - 1 \in 0..n /\ k - 1 \notin T /\ k \in 1..n
  BY <1>1, <1>3, <1>4, <1>5
<1>7. Collected(refs, k - 1, f[k - 1])
  BY <1>6 DEF T
<1>8. f[k - 1] \in Seq(S)
  BY <1>6
<1>9. f[k] = IF refs[k] \in Range(f[k - 1]) THEN f[k - 1]
             ELSE Append(f[k - 1], refs[k])
  BY <1>4, <1>5 DEF Collects
<1>10. QED
  BY <1>4, <1>6, <1>7, <1>8, <1>9, CollectedStep

\* What a valid rule asks about: zones, and guards if there are none.
LEMMA RuleAsks ==
    ASSUME Inv, NEW rule \in Rules, RuleValid(rule)
    PROVE  /\ ZonesOf(rule) \in Seq(Zones) /\ rule.guards \in Seq(Guards)
           /\ ZonesOf(rule) # <<>> \/ rule.guards # <<>>
<1>1. rule.guards \in Seq(Guards)
  BY DEF Rules
<1>2. CASE rule.ref \in ZoneRefs
  <2>1. rule.ref.kind = "zone" /\ rule.ref.name \in Zones
    BY <1>2 DEF ZoneRefs
  <2>2. ZonesOf(rule) = <<rule.ref.name>>
    BY <2>1 DEF ZonesOf
  <2>3. QED
    BY <1>1, <2>1, <2>2
<1>3. CASE rule.ref \in GroupRefs
  <2>1. rule.ref.kind = "group"
    BY <1>3 DEF GroupRefs
  <2>2. ZonesOf(rule) = groups[rule.ref.name]
    BY <2>1 DEF ZonesOf
  <2>3. rule.ref.name \in DOMAIN groups
    BY <2>1 DEF RuleValid, Resolved
  <2>4. groups[rule.ref.name] \in Seq(Zones) /\ groups[rule.ref.name] # <<>>
    BY <2>3 DEF Inv, TypeOK, Names
  <2>5. QED
    BY <1>1, <2>2, <2>4
<1>4. CASE rule.ref = NoRef
  <2>1. rule.ref.kind = "guard_only"
    BY <1>4 DEF NoRef
  <2>2. ZonesOf(rule) = <<>>
    BY <2>1 DEF ZonesOf
  <2>3. rule.guards # <<>>
    BY <1>4 DEF RuleValid
  <2>4. QED
    BY <1>1, <2>2, <2>3
<1>5. QED
  BY <1>2, <1>3, <1>4 DEF Rules

\* The lists the handler strings together are lists of names.
LEMMA Expansion ==
    ASSUME Inv, NEW b \in Blocks
    PROVE  LET rules == lcf[b].rules
               zs == [i \in DOMAIN rules |-> ZonesOf(rules[i])]
               xs == [i \in DOMAIN rules |-> rules[i].guards]
           IN  /\ rules \in Seq(Rules)
               /\ zs \in Seq(Seq(Zones)) /\ xs \in Seq(Seq(Guards))
               /\ Len(zs) = Len(rules) /\ Len(xs) = Len(rules)
               /\ Resources(rules) = FlattenSeq(zs)
               /\ GuardRefs(rules) = FlattenSeq(xs)
<1> DEFINE rules == lcf[b].rules
           zs == [i \in DOMAIN rules |-> ZonesOf(rules[i])]
           xs == [i \in DOMAIN rules |-> rules[i].guards]
<1>1. rules \in Seq(Rules) /\ \A i \in DOMAIN rules : RuleValid(rules[i])
  BY DEF Inv, TypeOK, Confs, BlockHolds
<1>2. Resources(rules) = FlattenSeq(zs) /\ GuardRefs(rules) = FlattenSeq(xs)
  BY DEF Resources, GuardRefs
<1> HIDE DEF rules
<1>3. ASSUME NEW i \in DOMAIN rules
      PROVE  ZonesOf(rules[i]) \in Seq(Zones) /\ rules[i].guards \in Seq(Guards)
  <2>1. rules[i] \in Rules
    BY <1>1
  <2>2. QED
    BY <1>1, <2>1, RuleAsks
<1>4. DOMAIN rules = 1..Len(rules) /\ Len(rules) \in Nat
  BY <1>1
<1>5. zs \in [1..Len(rules) -> Seq(Zones)] /\ xs \in [1..Len(rules) -> Seq(Guards)]
  BY <1>3, <1>4
<1> HIDE DEF zs, xs
<1>6. zs \in Seq(Seq(Zones)) /\ xs \in Seq(Seq(Guards))
  BY <1>4, <1>5
<1>7. Len(zs) = Len(rules) /\ Len(xs) = Len(rules)
  BY <1>4, <1>5, <1>6
<1>8. QED
  BY <1>1, <1>2, <1>6, <1>7 DEF rules, zs, xs

\* Rules that were accepted expand to something.
LEMMA RulesAsk ==
    ASSUME Inv, NEW b \in Blocks, lcf[b].rules # <<>>
    PROVE  Resources(lcf[b].rules) # <<>> \/ DistinctGuards(lcf[b].rules) # <<>>
<1> DEFINE rules == lcf[b].rules
           zs == [i \in DOMAIN rules |-> ZonesOf(rules[i])]
           xs == [i \in DOMAIN rules |-> rules[i].guards]
           refs == GuardRefs(rules)
<1>1. /\ rules \in Seq(Rules)
      /\ zs \in Seq(Seq(Zones)) /\ xs \in Seq(Seq(Guards))
      /\ Len(zs) = Len(rules) /\ Len(xs) = Len(rules)
      /\ Resources(rules) = FlattenSeq(zs) /\ refs = FlattenSeq(xs)
  BY Expansion
<1>2. 1 \in DOMAIN rules /\ rules[1] \in Rules /\ Len(rules) # 0
  BY <1>1
<1>3. RuleValid(rules[1])
  BY <1>2 DEF Inv, BlockHolds
<1>4. zs[1] = ZonesOf(rules[1]) /\ xs[1] = rules[1].guards
  BY <1>2
<1>5. zs[1] # <<>> \/ xs[1] # <<>>
  BY <1>2, <1>3, <1>4, RuleAsks
<1> HIDE DEF zs, xs, refs
<1>6. CASE zs[1] # <<>>
  BY <1>1, <1>2, <1>6, FlattenSeqNonEmpty
<1>7. CASE xs[1] # <<>>
  <2>1. refs \in Seq(Guards) /\ refs # <<>>
    BY <1>1, <1>2, <1>7, FlattenSeqNonEmpty
  <2>2. PICK f \in [0..Len(refs) -> Seq(Guards)] :
            Collects(refs, Len(refs), f) /\ DistinctGuards(rules) = f[Len(refs)]
    BY <2>1, DistinctGuardsIs DEF refs
  <2>3. Range(DistinctGuards(rules)) = {refs[i] : i \in 1..Len(refs)}
    BY <2>1, <2>2, CollectsCollected DEF Collected
  <2>4. refs[1] \in Range(DistinctGuards(rules))
    BY <2>1, <2>3
  <2>5. QED
    BY <2>4 DEF Range
<1>8. QED
  BY <1>5, <1>6, <1>7

(***************************************************************************)
(* In a running configuration a location that is enabled asks about at     *)
(* least one resource or guard, and there is a key whose dedup_ttl_ms_max  *)
(* admits the policy: ngx_http_rn_init accepts nothing else, however rules *)
(* and reports are inherited and whichever of the two directives, if both  *)
(* are there, came first.                                                  *)
(***************************************************************************)
THEOREM ConfigEnabledIsUsable == Spec => []EnabledIsUsable
<1>1. ASSUME Inv, status = "running", NEW b \in 1..Depth
      PROVE  /\ lcf[b].report # "off" => enabled
             /\ lcf[b].enabled = "on" =>
                   /\ enabled
                   /\ Resources(lcf[b].rules) # <<>>
                         \/ DistinctGuards(lcf[b].rules) # <<>>
  <2>1. b \in Blocks
    BY ConfigAssumption DEF Blocks
  <2>2. BlockHolds(lcf[b])
    BY <1>1, <2>1 DEF Inv
  <2>3. QED
    BY <1>1, <2>1, <2>2, RulesAsk DEF BlockHolds
<1>2. Inv => EnabledAsks
  BY <1>1 DEF EnabledAsks
<1>3. Inv => RunningIsUsable
  BY <1>1 DEF RunningIsUsable, Inv, Stages, Usable
<1>4. QED
  BY <1>2, <1>3, Invariant, PTL DEF EnabledIsUsable

\* The partial sums of a list of numbers.
Sums(ns, n, f) ==
    \A i \in 0..n : f[i] = IF i = 0 THEN 0 ELSE f[i - 1] + ns[i]

\* Total is the last of them.
LEMMA TotalIs ==
    ASSUME NEW ns \in Seq(Nat)
    PROVE  \E f \in [0..Len(ns) -> Nat] :
              Sums(ns, Len(ns), f) /\ Total(ns) = f[Len(ns)]
<1> DEFINE n == Len(ns)
           Step(f) == [i \in 0..n |-> IF i = 0 THEN 0 ELSE f[i - 1] + ns[i]]
           c == CHOOSE f : f = Step(f)
           next == [k \in 0 + 1..n |-> [s \in Nat |-> s + ns[k]]]
<1>1. n \in Nat /\ n \in 0..n /\ \A i \in 1..n : ns[i] \in Nat
  OBVIOUS
<1>2. \A k \in 0 + 1..n : \A s \in Nat : next[k][s] \in Nat
  BY <1>1
<1>3. PICK f \in [0..n -> Nat] : Follows(f, 0, n, 0, next)
  <2> HIDE DEF next, n
  <2>1. 0 \in Nat /\ n \in Int /\ 0 \in Int /\ 0 <= n
    BY <1>1
  <2>2. QED
    BY <1>2, <2>1, Recursive, Zenon
<1>4. \A i \in 0..n : f[i] = IF i = 0 THEN 0 ELSE f[i - 1] + ns[i]
  <2>1. ASSUME NEW i \in 0 + 1..n
        PROVE  f[i] = f[i - 1] + ns[i]
    <3>1. i - 1 \in 0..n
      BY <1>1
    <3>2. f[i - 1] \in Nat
      BY <3>1
    <3>3. next[i][f[i - 1]] = f[i - 1] + ns[i]
      BY <3>2
    <3>4. QED
      BY <1>3, <3>3, Zenon DEF Follows
  <2>2. \A i \in 0..n : i # 0 => i \in 0 + 1..n
    BY <1>1
  <2>3. f[0] = 0
    BY <1>3, Zenon DEF Follows
  <2>4. QED
    BY <2>1, <2>2, <2>3
<1> HIDE DEF next
<1>5. Total(ns) = c[n]
  BY DEF Total
<1>6. f = Step(f)
  BY <1>4
<1>7. c = Step(c)
  BY <1>6
<1> HIDE DEF c
<1>8. ASSUME NEW i \in 0..n
      PROVE  c[i] = IF i = 0 THEN 0 ELSE c[i - 1] + ns[i]
  <2>1. Step(c)[i] = IF i = 0 THEN 0 ELSE c[i - 1] + ns[i]
    OBVIOUS
  <2>2. QED
    BY <1>7, <2>1
<1>9. c[n] = f[n]
  <2>0. PICK a \in Int : a = 0
    OBVIOUS
  <2>1. Agree(c, f, a)
    <3>1. a \in 0..n
      BY <1>1, <2>0
    <3>2. QED
      BY <1>4, <1>8, <2>0, <3>1 DEF Agree
  <2>2. ASSUME NEW k \in a + 1..n, Agree(c, f, k - 1)
        PROVE  Agree(c, f, k)
    <3>1. k \in 0..n /\ k # 0
      BY <1>1, <2>0
    <3>2. QED
      BY <1>4, <1>8, <2>2, <3>1 DEF Agree
  <2>3. n \in Int /\ n \in a..n
    BY <1>1, <2>0
  <2> HIDE DEF n
  <2>4. Agree(c, f, n)
    BY <2>1, <2>2, <2>3, SameUpTo
  <2>5. QED
    BY <2>4 DEF Agree
<1>10. QED
  BY <1>4, <1>5, <1>9 DEF Sums

\* A measure that adds up over \o adds up over FlattenSeq.
LEMMA FlattenSeqMeasure ==
    ASSUME NEW S, NEW seqs \in Seq(Seq(S)), Len(seqs) # 0,
           NEW w \in [Seq(S) -> Nat],
           \A s, t \in Seq(S) : w[s \o t] = w[s] + w[t]
    PROVE  w[FlattenSeq(seqs)] = Total([i \in DOMAIN seqs |-> w[seqs[i]]])
<1> DEFINE n == Len(seqs)
           ns == [i \in DOMAIN seqs |-> w[seqs[i]]]
<1>1. /\ n \in Nat /\ n \in 1..n /\ DOMAIN seqs = 1..n
      /\ \A i \in 1..n : seqs[i] \in Seq(S)
  OBVIOUS
<1>2. ns \in Seq(Nat) /\ Len(ns) = n /\ \A i \in 1..n : ns[i] = w[seqs[i]]
  <2>1. ns \in [1..n -> Nat]
    BY <1>1
  <2>2. \A i \in 1..n : ns[i] = w[seqs[i]]
    BY <1>1
  <2> HIDE DEF ns
  <2>3. QED
    BY <1>1, <2>1, <2>2
<1> HIDE DEF ns
<1>3. PICK f \in [1..n -> Seq(S)] :
          Flattens(seqs, n, f) /\ FlattenSeq(seqs) = f[n]
  BY FlattenSeqIs
<1>4. PICK g \in [0..n -> Nat] : Sums(ns, n, g) /\ Total(ns) = g[n]
  BY <1>2, TotalIs
<1> DEFINE T == {k \in 1..n : w[f[k]] # g[k]}
<1>5. SUFFICES ASSUME w[f[n]] # g[n] PROVE FALSE
  BY <1>3, <1>4 DEF ns
<1>6. T \in SUBSET Nat /\ n \in T
  BY <1>1, <1>5
<1> HIDE DEF T
<1>7. PICK k \in T : \A y \in T : k <= y
  BY <1>6, LeastNumber
<1>8. k \in 1..n /\ w[f[k]] # g[k] /\ k \in Nat /\ k >= 1
  BY <1>1, <1>7 DEF T
<1>9. /\ f[k] = IF k = 1 THEN seqs[k] ELSE f[k - 1] \o seqs[k]
      /\ g[k] = g[k - 1] + w[seqs[k]]
      /\ g[0] = 0 /\ g[k - 1] \in Nat /\ w[seqs[k]] \in Nat
  <2>1. k \in 0..n /\ k - 1 \in 0..n /\ k # 0 /\ 0 \in 0..n
    BY <1>1, <1>8
  <2>2. f[k] = IF k = 1 THEN seqs[k] ELSE f[k - 1] \o seqs[k]
    BY <1>3, <1>8 DEF Flattens
  <2>3. g[k] = g[k - 1] + ns[k] /\ g[0] = 0
    BY <1>4, <2>1 DEF Sums
  <2>4. QED
    BY <1>1, <1>2, <1>4, <1>8, <2>1, <2>2, <2>3
<1>10. CASE k = 1
  BY <1>8, <1>9, <1>10
<1>11. CASE k # 1
  <2>1. k - 1 \in 1..n /\ k - 1 \notin T
    BY <1>1, <1>7, <1>8, <1>11
  <2>2. w[f[k - 1]] = g[k - 1] /\ f[k - 1] \in Seq(S) /\ seqs[k] \in Seq(S)
    BY <1>1, <1>3, <1>8, <2>1 DEF T
  <2>3. w[f[k - 1] \o seqs[k]] = w[f[k - 1]] + w[seqs[k]]
    BY <2>2
  <2>4. QED
    BY <1>8, <1>9, <1>11, <2>2, <2>3
<1>12. QED
  BY <1>10, <1>11

\* The positions of z in s.
Places(z, s) == {i \in DOMAIN s : s[i] = z}

\* Places can be counted.
LEMMA PlacesFinite ==
    ASSUME NEW S, NEW z, NEW s \in Seq(S)
    PROVE  /\ IsFiniteSet(Places(z, s)) /\ Places(z, s) \subseteq 1..Len(s)
           /\ Occurrences(z, s) = Cardinality(Places(z, s))
           /\ Occurrences(z, s) \in Nat
<1>1. DOMAIN s = 1..Len(s) /\ Len(s) \in Nat
  OBVIOUS
<1>2. Places(z, s) \subseteq 1..Len(s)
  BY <1>1 DEF Places
<1>3. IsFiniteSet(1..Len(s))
  BY <1>1, FS_Interval
<1>4. IsFiniteSet(Places(z, s))
  BY <1>2, <1>3, FS_Subset
<1>5. Occurrences(z, s) = Cardinality(Places(z, s))
  BY DEF Occurrences, Places
<1>6. QED
  BY <1>2, <1>4, <1>5, FS_CardinalityType

\* Occurrences add up.
LEMMA OccurrencesAdd ==
    ASSUME NEW S, NEW z, NEW s \in Seq(S), NEW t \in Seq(S)
    PROVE  Occurrences(z, s \o t) = Occurrences(z, s) + Occurrences(z, t)
<1> DEFINE m == Len(s)
           A == Places(z, s)
           B == Places(z, t)
           shift == [j \in B |-> m + j]
           C == {m + j : j \in B}
<1>1. /\ s \o t \in Seq(S) /\ m \in Nat /\ Len(t) \in Nat
      /\ DOMAIN s = 1..m /\ DOMAIN t = 1..Len(t)
      /\ DOMAIN (s \o t) = 1..(m + Len(t))
      /\ \A i \in 1..m : (s \o t)[i] = s[i]
      /\ \A i \in 1..Len(t) : (s \o t)[m + i] = t[i]
  OBVIOUS
<1>2. /\ IsFiniteSet(A) /\ A \subseteq 1..m /\ Occurrences(z, s) = Cardinality(A)
      /\ IsFiniteSet(B) /\ B \subseteq 1..Len(t)
      /\ Occurrences(z, t) = Cardinality(B)
      /\ Occurrences(z, s \o t) = Cardinality(Places(z, s \o t))
      /\ Cardinality(A) \in Nat /\ Cardinality(B) \in Nat
  BY <1>1, PlacesFinite
<1>3. Places(z, s \o t) = A \cup C
  <2>1. ASSUME NEW i \in Places(z, s \o t)
        PROVE  i \in A \cup C
    <3>1. i \in 1..(m + Len(t)) /\ (s \o t)[i] = z
      BY <1>1, <2>1 DEF Places
    <3>2. CASE i <= m
      BY <1>1, <3>1, <3>2 DEF Places
    <3>3. CASE ~(i <= m)
      <4>1. i - m \in 1..Len(t) /\ i = m + (i - m)
        BY <1>1, <3>1, <3>3
      <4>2. i - m \in B
        BY <1>1, <3>1, <4>1 DEF Places
      <4>3. QED
        BY <4>1, <4>2
    <3>4. QED
      BY <3>2, <3>3
  <2>2. ASSUME NEW i \in A
        PROVE  i \in Places(z, s \o t)
    BY <1>1, <2>2 DEF Places
  <2>3. ASSUME NEW j \in B
        PROVE  m + j \in Places(z, s \o t)
    <3>1. j \in 1..Len(t) /\ t[j] = z
      BY <1>1 DEF Places
    <3>2. m + j \in 1..(m + Len(t))
      BY <1>1, <3>1
    <3>3. QED
      BY <1>1, <3>1, <3>2 DEF Places
  <2>4. QED
    BY <2>1, <2>2, <2>3
<1> HIDE DEF A, B
<1>4. A \cap C = {}
  BY <1>1, <1>2
<1>5. ExistsBijection(B, C)
  <2>1. shift \in [B -> C]
    OBVIOUS
  <2>2. \A a, b \in B : shift[a] = shift[b] => a = b
    BY <1>1, <1>2
  <2>3. \A c \in C : \E j \in B : shift[j] = c
    OBVIOUS
  <2>4. DOMAIN shift = B
    OBVIOUS
  <2> HIDE DEF shift, C
  <2>5. shift \in Injection(B, C) /\ shift \in Surjection(B, C)
    BY <2>1, <2>2, <2>3, <2>4 DEF Injection, Surjection, IsInjective
  <2>6. QED
    BY <2>5 DEF ExistsBijection, Bijection
<1> HIDE DEF C
<1>6. IsFiniteSet(C) /\ Cardinality(C) = Cardinality(B)
  BY <1>2, <1>5, FS_Bijection
<1>7. Cardinality(A \cup C) = Cardinality(A) + Cardinality(C) - Cardinality({})
  BY <1>2, <1>4, <1>6, FS_Union
<1>8. QED
  BY <1>2, <1>3, <1>6, <1>7, FS_EmptySet

\* The length and the occurrences of z are such measures.
LEMMA FlattenSeqCounts ==
    ASSUME NEW S, NEW seqs \in Seq(Seq(S)), Len(seqs) # 0
    PROVE  /\ Len(FlattenSeq(seqs)) = Total([i \in DOMAIN seqs |-> Len(seqs[i])])
           /\ \A z : Occurrences(z, FlattenSeq(seqs))
                       = Total([i \in DOMAIN seqs |-> Occurrences(z, seqs[i])])
<1>1. FlattenSeq(seqs) \in Seq(S)
  BY FlattenSeqNonEmpty
<1>2. \A i \in DOMAIN seqs : seqs[i] \in Seq(S)
  OBVIOUS
<1>3. Len(FlattenSeq(seqs)) = Total([i \in DOMAIN seqs |-> Len(seqs[i])])
  <2> DEFINE w == [s \in Seq(S) |-> Len(s)]
  <2>1. w \in [Seq(S) -> Nat]
    OBVIOUS
  <2>2. \A s, t \in Seq(S) : w[s \o t] = w[s] + w[t]
    OBVIOUS
  <2>3. w[FlattenSeq(seqs)] = Len(FlattenSeq(seqs))
    BY <1>1
  <2>4. [i \in DOMAIN seqs |-> w[seqs[i]]] = [i \in DOMAIN seqs |-> Len(seqs[i])]
    BY <1>2
  <2> HIDE DEF w
  <2>5. w[FlattenSeq(seqs)] = Total([i \in DOMAIN seqs |-> w[seqs[i]]])
    BY <2>1, <2>2, FlattenSeqMeasure
  <2>6. QED
    BY <2>3, <2>4, <2>5
<1>4. ASSUME NEW z
      PROVE  Occurrences(z, FlattenSeq(seqs))
               = Total([i \in DOMAIN seqs |-> Occurrences(z, seqs[i])])
  <2> DEFINE w == [s \in Seq(S) |-> Occurrences(z, s)]
  <2>1. w \in [Seq(S) -> Nat]
    BY PlacesFinite
  <2>2. ASSUME NEW s \in Seq(S), NEW t \in Seq(S)
        PROVE  w[s \o t] = w[s] + w[t]
    <3>1. s \o t \in Seq(S)
      OBVIOUS
    <3>2. QED
      BY <3>1, OccurrencesAdd
  <2>3. w[FlattenSeq(seqs)] = Occurrences(z, FlattenSeq(seqs))
    BY <1>1
  <2>4. [i \in DOMAIN seqs |-> w[seqs[i]]]
          = [i \in DOMAIN seqs |-> Occurrences(z, seqs[i])]
    BY <1>2
  <2> HIDE DEF w
  <2>5. w[FlattenSeq(seqs)] = Total([i \in DOMAIN seqs |-> w[seqs[i]]])
    BY <2>1, <2>2, FlattenSeqMeasure
  <2>6. QED
    BY <2>3, <2>4, <2>5
<1>5. QED
  BY <1>3, <1>4

\* The last check that was sent is the expansion of its block's rules.
Sent ==
    check.outcome \in Started =>
        /\ check.block \in 1..Depth /\ lcf[check.block].rules # <<>>
        /\ check.resources = Resources(lcf[check.block].rules)
        /\ check.guards = DistinctGuards(lcf[check.block].rules)

\* No step changes what the last check was made from.
LEMMA SentStep ==
    ASSUME Inv, Sent, [Next]_vars
    PROVE  Sent'
<1>1. CASE UNCHANGED <<lcf, groups, check>>
  <2>1. Resources(lcf[check.block].rules)' = Resources(lcf[check.block].rules)
    BY <1>1 DEF Resources, ZonesOf
  <2>2. DistinctGuards(lcf[check.block].rules)'
          = DistinctGuards(lcf[check.block].rules)
    BY <1>1 DEF DistinctGuards, GuardRefs
  <2>3. QED
    BY <1>1, <2>1, <2>2 DEF Sent
<1>2. CASE check = NoCheck /\ check' = NoCheck
  BY <1>2 DEF Sent, NoCheck, Started
<1>3. ASSUME NEW b \in 1..Depth, NEW invalid, NEW wide,
           Request(b, invalid, wide)
      PROVE  Sent'
  <2>1. UNCHANGED <<lcf, groups>>
    BY <1>3 DEF Request, main
  <2>2. Resources(lcf[b].rules)' = Resources(lcf[b].rules)
    BY <2>1 DEF Resources, ZonesOf
  <2>3. DistinctGuards(lcf[b].rules)' = DistinctGuards(lcf[b].rules)
    BY <2>1 DEF DistinctGuards, GuardRefs
  <2>4. /\ check'.outcome = Outcome(b, invalid, wide) /\ check'.block = b
        /\ Outcome(b, invalid, wide) \in Started =>
              /\ check'.resources = Resources(lcf[b].rules)
              /\ check'.guards = DistinctGuards(lcf[b].rules)
    BY <1>3 DEF Request
  <2>5. Outcome(b, invalid, wide) \in Started => lcf[b].rules # <<>>
    BY DEF Outcome, Started
  <2>6. QED
    BY <2>1, <2>2, <2>3, <2>4, <2>5 DEF Sent
<1>4. CASE status # "running" /\ UNCHANGED check
  BY <1>2, <1>4 DEF Inv, Stages
<1>5. CASE UNCHANGED vars
  BY <1>1, <1>5 DEF vars, main
<1>6. CASE Next
  <2>1. CASE \E b \in 1..Depth : \E invalid, wide : Request(b, invalid, wide)
    BY <1>3, <2>1
  <2>2. CASE ~ \E b \in 1..Depth : \E invalid, wide : Request(b, invalid, wide)
    <3>1. status # "running" /\ UNCHANGED check
      BY <1>6, <2>2, StepForms
         DEF AuthKey, Policy, MainDirective, Zone, Tracker, Group, Guard, Open, Close, Refuse,
             Rule, Report, Label, EndOfFile, Merge, Loaded, InHttp, InBlock
    <3>2. QED
      BY <1>4, <3>1
  <2>3. QED
    BY <2>1, <2>2
<1>7. QED
  BY <1>5, <1>6

\* So every check was made from the rules of its block.
LEMMA SentAlways == Spec => []Sent
<1>1. Init => Sent
  BY DEF Init, NoCheck, Sent, Started
<1>2. QED
  BY <1>1, Invariant, SentStep, PTL DEF Spec

(***************************************************************************)
(* The combined check names every zone of every rule as often as the rules *)
(* and their groups name it, every guard once and in the order of first    *)
(* use, and fits the arrays ngx_http_rn_handler allocated from its counts, *)
(* for any rules.                                                          *)
(***************************************************************************)
THEOREM ConfigExpandsAll == Spec => []ExpandsAll
<1>1. ASSUME Inv, Sent, check.outcome \in Started
      PROVE  ExpandsAll
  <2> DEFINE b == check.block
             rules == lcf[b].rules
             zs == [i \in DOMAIN rules |-> ZonesOf(rules[i])]
             xs == [i \in DOMAIN rules |-> rules[i].guards]
             refs == GuardRefs(rules)
  <2>1. /\ b \in Blocks /\ rules # <<>> /\ check.resources = Resources(rules)
        /\ check.guards = DistinctGuards(rules)
    BY <1>1, ConfigAssumption DEF Sent, Blocks
  <2>2. /\ rules \in Seq(Rules)
        /\ zs \in Seq(Seq(Zones)) /\ xs \in Seq(Seq(Guards))
        /\ Len(zs) = Len(rules) /\ Len(xs) = Len(rules)
        /\ Resources(rules) = FlattenSeq(zs) /\ refs = FlattenSeq(xs)
    BY <1>1, <2>1, Expansion
  <2>3. /\ DOMAIN zs = DOMAIN rules /\ DOMAIN xs = DOMAIN rules
        /\ Len(rules) # 0 /\ \A i \in DOMAIN rules : rules[i] \in Rules
    BY <2>1, <2>2
  <2>4. \A i \in DOMAIN rules : zs[i] = ZonesOf(rules[i]) /\ xs[i] = rules[i].guards
    OBVIOUS
  <2> HIDE DEF rules, zs, xs, refs
  <2>5. Len(check.resources) = Counted(rules)
    <3> DEFINE Places1(i) ==
                 LET ref == rules[i].ref IN
                 CASE ref.kind = "zone" -> 1
                   [] ref.kind = "group" -> Len(groups[ref.name])
                   [] ref.kind = "guard_only" -> 0
    <3>1. ASSUME NEW i \in DOMAIN rules
          PROVE  Len(zs[i]) = Places1(i)
      <4>1. rules[i].ref.kind \in {"zone", "group", "guard_only"}
        BY <2>3 DEF Rules, ZoneRefs, GroupRefs, NoRef
      <4>2. zs[i] = ZonesOf(rules[i])
        BY <2>4
      <4>3. CASE rules[i].ref.kind = "zone"
        BY <4>2, <4>3 DEF ZonesOf
      <4>4. CASE rules[i].ref.kind = "group"
        BY <4>2, <4>4 DEF ZonesOf
      <4>5. CASE rules[i].ref.kind = "guard_only"
        BY <4>2, <4>5 DEF ZonesOf
      <4>6. QED
        BY <4>1, <4>3, <4>4, <4>5
    <3>2. [i \in DOMAIN rules |-> Len(zs[i])] = [i \in DOMAIN rules |-> Places1(i)]
      BY <3>1
    <3>3. Counted(rules) = Total([i \in DOMAIN rules |-> Places1(i)])
      BY DEF Counted
    <3> HIDE DEF Places1
    <3>4. QED
      BY <2>1, <2>2, <2>3, <3>2, <3>3, FlattenSeqCounts
  <2>6. /\ refs \in Seq(Guards)
        /\ Len(refs) = CountedGuards(rules)
    <3>1. [i \in DOMAIN rules |-> Len(xs[i])]
            = [i \in DOMAIN rules |-> Len(rules[i].guards)]
      BY <2>4
    <3>2. QED
      BY <2>2, <2>3, <3>1, FlattenSeqCounts, FlattenSeqNonEmpty DEF CountedGuards
  <2>7. Collected(refs, Len(refs), check.guards)
    <3>1. PICK f \in [0..Len(refs) -> Seq(Guards)] :
              Collects(refs, Len(refs), f) /\ DistinctGuards(rules) = f[Len(refs)]
      BY <2>6, DistinctGuardsIs DEF refs
    <3>2. QED
      BY <2>1, <2>6, <3>1, CollectsCollected
  <2>8. ASSUME NEW z \in Zones
        PROVE  Occurrences(z, check.resources)
                 = Total([i \in DOMAIN rules |-> Occurrences(z, ZonesOf(rules[i]))])
    <3>1. [i \in DOMAIN rules |-> Occurrences(z, zs[i])]
            = [i \in DOMAIN rules |-> Occurrences(z, ZonesOf(rules[i]))]
      BY <2>4
    <3>2. Occurrences(z, FlattenSeq(zs))
            = Total([i \in DOMAIN zs |-> Occurrences(z, zs[i])])
      BY <2>2, <2>3, FlattenSeqCounts
    <3>3. QED
      BY <2>1, <2>2, <2>3, <3>1, <3>2
  <2>9. Range(check.guards) = Range(refs)
    <3>1. DOMAIN refs = 1..Len(refs)
      BY <2>6
    <3>2. Range(refs) = {refs[i] : i \in 1..Len(refs)}
      BY <3>1 DEF Range
    <3>3. QED
      BY <2>7, <3>2 DEF Collected
  <2>10. \A i, j \in DOMAIN check.guards :
            i < j => FirstOf(refs, check.guards[i]) < FirstOf(refs, check.guards[j])
    BY <2>7 DEF Collected
  <2>11. Len(check.guards) <= CountedGuards(rules)
    BY <2>6, <2>7 DEF Collected
  <2>12. QED
    BY <2>5, <2>8, <2>9, <2>10, <2>11 DEF ExpandsAll, FirstOf, rules, refs
<1>2. Inv /\ Sent => ExpandsAll
  <2>1. CASE check.outcome \in Started
    BY <1>1, <2>1
  <2>2. CASE check.outcome \notin Started
    BY <2>2 DEF ExpandsAll
  <2>3. QED
    BY <2>1, <2>2
<1>3. QED
  BY <1>2, Invariant, SentAlways, PTL


(***************************************************************************)
(* What a check renders was validated                                      *)
(***************************************************************************)

\* The names a rule comes to are defined.
LEMMA RuleNames ==
    ASSUME Inv, NEW rule \in Rules, RuleValid(rule)
    PROVE  ZonesOf(rule) \in Seq(zones) /\ rule.guards \in Seq(DOMAIN guards)
<1>1. rule.guards \in Seq(Guards)
  BY DEF Rules
<1>2. \A i \in DOMAIN rule.guards : rule.guards[i] \in DOMAIN guards
  BY DEF RuleValid
<1>3. rule.guards \in Seq(DOMAIN guards)
  BY <1>1, <1>2
<1>4. CASE rule.ref \in ZoneRefs
  <2>1. rule.ref.kind = "zone"
    BY <1>4 DEF ZoneRefs
  <2>2. ZonesOf(rule) = <<rule.ref.name>> /\ rule.ref.name \in zones
    BY <2>1 DEF ZonesOf, RuleValid, Resolved
  <2>3. QED
    BY <1>3, <2>2
<1>5. CASE rule.ref \in GroupRefs
  <2>1. rule.ref.kind = "group"
    BY <1>5 DEF GroupRefs
  <2>2. ZonesOf(rule) = groups[rule.ref.name]
    BY <2>1 DEF ZonesOf
  <2>3. rule.ref.name \in DOMAIN groups
    BY <2>1 DEF RuleValid, Resolved
  <2>4. PICK zs \in Seq(Zones) :
            zs = groups[rule.ref.name] /\ Range(zs) \subseteq zones
    BY <2>3 DEF Inv, TypeOK, Names
  <2>5. \A i \in DOMAIN zs : zs[i] \in zones
    BY <2>4 DEF Range
  <2>6. zs \in Seq(zones)
    BY <2>5
  <2>7. QED
    BY <1>3, <2>2, <2>4, <2>6
<1>6. CASE rule.ref = NoRef
  <2>1. rule.ref.kind = "guard_only"
    BY <1>6 DEF NoRef
  <2>2. ZonesOf(rule) = <<>>
    BY <2>1 DEF ZonesOf
  <2>3. QED
    BY <1>3, <2>2
<1>7. QED
  BY <1>4, <1>5, <1>6 DEF Rules

\* So are the names the rules of a block come to, and with the trackers of the
\* guards and the label they are what the check renders: none is malformed.
LEMMA RenderedAccepted ==
    ASSUME Inv, NEW b \in Blocks, lcf[b].rules # <<>>
    PROVE  Rendered(b) \cap Malformed = {}
<1> DEFINE rules == lcf[b].rules
           zs == [i \in DOMAIN rules |-> ZonesOf(rules[i])]
           xs == [i \in DOMAIN rules |-> rules[i].guards]
           refs == GuardRefs(rules)
           used == Range(DistinctGuards(rules))
<1>1. rules \in Seq(Rules) /\ \A i \in DOMAIN rules : RuleValid(rules[i])
  BY DEF Inv, TypeOK, Confs, BlockHolds
<1>2. Resources(rules) = FlattenSeq(zs) /\ refs = FlattenSeq(xs)
  BY DEF Resources, GuardRefs
<1>3. Rendered(b) = Range(Resources(rules)) \cup used \cup {guards[x] : x \in used}
                      \cup (IF lcf[b].label_set THEN {lcf[b].label} ELSE {})
  BY DEF Rendered
<1>4. rules # <<>>
  OBVIOUS
<1>5. lcf[b].label_set => Accepted(lcf[b].label)
  BY DEF Inv, BlockHolds
<1> HIDE DEF rules
<1>6. ASSUME NEW i \in DOMAIN rules
      PROVE  /\ ZonesOf(rules[i]) \in Seq(zones)
             /\ rules[i].guards \in Seq(DOMAIN guards)
  <2>1. rules[i] \in Rules
    BY <1>1
  <2>2. QED
    BY <1>1, <2>1, RuleNames
<1>7. DOMAIN rules = 1..Len(rules) /\ Len(rules) \in Nat /\ Len(rules) # 0
  BY <1>1, <1>4
<1>8. /\ zs \in [1..Len(rules) -> Seq(zones)]
      /\ xs \in [1..Len(rules) -> Seq(DOMAIN guards)]
  BY <1>6, <1>7
<1> HIDE DEF zs, xs, refs, used
<1>9. /\ zs \in Seq(Seq(zones)) /\ Len(zs) # 0
      /\ xs \in Seq(Seq(DOMAIN guards)) /\ Len(xs) # 0
  BY <1>7, <1>8
<1>10. Resources(rules) \in Seq(zones) /\ refs \in Seq(DOMAIN guards)
  BY <1>2, <1>9, FlattenSeqNonEmpty
<1>11. Range(Resources(rules)) \subseteq zones
  BY <1>10 DEF Range
<1>12. used \subseteq DOMAIN guards
  <2>1. PICK f \in [0..Len(refs) -> Seq(DOMAIN guards)] :
            /\ Collects(refs, Len(refs), f)
            /\ DistinctGuards(rules) = f[Len(refs)]
    BY <1>10, DistinctGuardsIs DEF refs
  <2>2. used = {refs[i] : i \in 1..Len(refs)}
    BY <1>10, <2>1, CollectsCollected DEF Collected, used
  <2>3. QED
    BY <1>10, <2>2
<1>13. /\ \A z \in Range(Resources(rules)) : z \notin Malformed
       /\ \A x \in used : x \notin Malformed /\ guards[x] \notin Malformed
  BY <1>11, <1>12 DEF Inv, Names, Validated, Accepted
<1>14. QED
  BY <1>3, <1>5, <1>13 DEF Accepted

\* A check fails in preflight for a value of its own request only.
LEMMA StaticStep ==
    ASSUME Inv, StaticWasValidated, [Next]_vars
    PROVE  StaticWasValidated'
<1>1. CASE UNCHANGED vars
  <2>1. UNCHANGED <<lcf, groups, guards, check>>
    BY <1>1 DEF vars, main
  <2>2. Rendered(check.block)' = Rendered(check.block)
    BY <2>1 DEF Rendered, Resources, ZonesOf, DistinctGuards, GuardRefs
  <2>3. QED
    BY <2>1, <2>2 DEF StaticWasValidated
<1>2. ASSUME NEW b \in 1..Depth, NEW invalid, NEW wide,
             Request(b, invalid, wide)
      PROVE  StaticWasValidated'
  <2>1. UNCHANGED <<lcf, groups, guards>>
    BY <1>2 DEF Request, main
  <2>2. /\ check'.outcome = Outcome(b, invalid, wide) /\ check'.block = b
        /\ check'.invalid = invalid
    BY <1>2 DEF Request
  <2>3. b \in Blocks
    BY ConfigAssumption DEF Blocks
  <2>4. Found(b)
    BY <2>3, RulesFound DEF Inv
  <2>5. Outcome(b, invalid, wide) = "preflight_failure"
          => /\ lcf[b].rules # <<>>
             /\ Rendered(b) \cap (Malformed \cup invalid) # {}
    BY <2>4 DEF Outcome
  <2>6. lcf[b].rules # <<>> => Rendered(b) \cap Malformed = {}
    BY <2>3, RenderedAccepted
  <2>7. Rendered(b)' = Rendered(b)
    BY <2>1 DEF Rendered, Resources, ZonesOf, DistinctGuards, GuardRefs
  <2>8. QED
    BY <2>2, <2>5, <2>6, <2>7 DEF StaticWasValidated
<1>3. CASE status # "running" /\ UNCHANGED check
  <2>1. check'.outcome = "none"
    BY <1>3 DEF Inv, Stages, NoCheck
  <2>2. QED
    BY <2>1 DEF StaticWasValidated
<1>4. CASE Next
  <2>1. CASE \E b \in 1..Depth : \E invalid, wide : Request(b, invalid, wide)
    BY <1>2, <2>1
  <2>2. CASE ~ \E b \in 1..Depth : \E invalid, wide : Request(b, invalid, wide)
    <3>1. status # "running" /\ UNCHANGED check
      BY <1>4, <2>2, StepForms
         DEF AuthKey, Policy, MainDirective, Zone, Tracker, Group, Guard, Open,
             Close, Refuse, Rule, Report, Label, EndOfFile, Merge, Loaded,
             InHttp, InBlock
    <3>2. QED
      BY <1>3, <3>1
  <2>3. QED
    BY <2>1, <2>2
<1>5. QED
  BY <1>1, <1>4

(***************************************************************************)
(* The lookups the handler makes by name succeed whatever the order of     *)
(* definitions and uses, and a check that fails in preflight renders a     *)
(* value with variables that is invalid: ngx_http_rn_zone, _tracker,       *)
(* _guard and _label refused every other invalid value.  A window above    *)
(* the key's limit, which the client refuses, is not a preflight failure.  *)
(***************************************************************************)
THEOREM ConfigLookupsSucceed == Spec => []LookupsSucceed
<1>1. ASSUME Inv, NEW b \in Blocks
      PROVE  Found(b) /\ lcf[b].report \in trackers \cup {"off"}
  BY <1>1, RulesFound DEF Inv, BlockHolds
<1>2. Inv => ReferencesResolve
  BY <1>1 DEF Inv, ReferencesResolve, Names
<1>3. Init => StaticWasValidated
  BY DEF Init, NoCheck, StaticWasValidated
<1>4. QED
  BY <1>2, <1>3, Invariant, StaticStep, PTL DEF Spec, LookupsSucceed
=============================================================================
