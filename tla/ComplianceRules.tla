--------------------------- MODULE ComplianceRules ---------------------------
(***************************************************************************)
(* The GDPR rules of package compliance, the YAML-defined rules and the    *)
(* score, as operators on a property graph G with fields                   *)
(*    nodes : node ID -> [label, props], props a map of strings,           *)
(*    edges : a set of [label, from, to].                                  *)
(* A rule returns a set of results: it never says two things of one node.  *)
(* Details and messages are left out.  Spellings that the code compares    *)
(* ignoring case are one value.  Time is counted in hours; TimeOf is       *)
(* time.Parse: timestamps outside its domain cannot be parsed.             *)
(***************************************************************************)
EXTENDS Integers, Sequences, FiniteSets

CONSTANTS
    TimeOf,         \* timestamp string -> hours, for those that parse
    DateOnly,       \* the timestamps that are a date without a time
    Hardcoded,      \* IDs of the hardcoded rules this instance registers
    YAMLFiles       \* the files of the rules directory, in the order of the walk

\* A timestamp that parses is a time; the empty string does not parse.
ASSUME TimeAssumption == "" \notin DOMAIN TimeOf /\ \A t \in DOMAIN TimeOf : TimeOf[t] \in Int

NoNode == <<"", 0>>     \* a result that is about no particular node

Map(k, v) == [x \in {k} |-> v]
EmptyMap  == [x \in {} |-> x]

\* n.Properties[k].(string): the empty string when absent.
Prop(G, n, k) == IF k \in DOMAIN G.nodes[n].props THEN G.nodes[n].props[k] ELSE ""

NodesByLabel(G, l) == {n \in DOMAIN G.nodes : G.nodes[n].label = l}
Having(G, l, k, v) ==
    {n \in NodesByLabel(G, l) : k \in DOMAIN G.nodes[n].props /\ G.nodes[n].props[k] = v}
Neighbors(G, n)    == {e \in G.edges : n \in {e.from, e.to}}
HasEdgeLabel(G, n, l) == \E e \in Neighbors(G, n) : e.label = l

Result(n, s) == [node |-> n, status |-> s]
Judged(S, Ok(_)) == {Result(n, IF Ok(n) THEN "pass" ELSE "fail") : n \in S}

checkPropertyNotEmpty(G, label, prop) ==
    Judged(NodesByLabel(G, label), LAMBDA n : Prop(G, n, prop) # "")

checkHasEdge(G, label, edgeLabel) ==
    Judged(NodesByLabel(G, label), LAMBDA n : HasEdgeLabel(G, n, edgeLabel))
-----------------------------------------------------------------------------
(* The hardcoded rules, by their IDs.                                        *)

gdprSetup001(G) ==
    LET S == NodesByLabel(G, "OrgSetup")
        complete(n) == Prop(G, n, "dpoName") # "" /\ Prop(G, n, "dpoEmail") # ""
    IN  {Result(NoNode, IF S # {} /\ \A n \in S : complete(n) THEN "pass" ELSE "fail")}

\* Requests that are done, and the verdict on an open one; a deadline that
\* does not parse is passed over without a result.
Done(G, n) == Prop(G, n, "status") \in {"completed", "closed"}

Overdue(G, n, k, now) ==
    /\ Prop(G, n, k) \in DOMAIN TimeOf
    /\ now > TimeOf[Prop(G, n, k)]

ByDeadline(G, S, k, now) ==
    {Result(n, IF Prop(G, n, k) = "" THEN "warning"
               ELSE IF Overdue(G, n, k, now) THEN "fail" ELSE "pass") :
        n \in {m \in S : Prop(G, m, k) = "" \/ Prop(G, m, k) \in DOMAIN TimeOf}}

gdprDSR001(G, now) ==
    LET S == NodesByLabel(G, "DataSubjectRequest")
        done == {n \in S : Done(G, n)}
    IN  {Result(n, "pass") : n \in done} \cup ByDeadline(G, S \ done, "deadline", now)

gdprDSR002(G) ==
    Judged({n \in NodesByLabel(G, "DataSubjectRequest") : Prop(G, n, "status") = "completed"},
           LAMBDA n : Prop(G, n, "responseDetails") # "")

gdprBreach001(G) ==
    LET grave(n) == Prop(G, n, "severity") \in {"high", "critical"}
        found(n) == Prop(G, n, "discoveredAt")
        told(n)  == Prop(G, n, "authorityNotifiedAt")
    IN  {Result(n, CASE ~grave(n) -> "pass"
                     [] grave(n) /\ told(n) = "" -> "fail"
                     [] grave(n) /\ told(n) # "" /\ ~({found(n), told(n)} \subseteq DOMAIN TimeOf \ DateOnly)
                            -> "warning"
                     [] OTHER -> IF TimeOf[told(n)] - TimeOf[found(n)] > 72 THEN "fail" ELSE "pass") :
            n \in NodesByLabel(G, "DataBreach")}

gdprBreach002(G) ==
    Judged(NodesByLabel(G, "DataBreach"),
           LAMBDA n : HasEdgeLabel(G, n, "BREACH_INVOLVES") => Prop(G, n, "subjectsNotifiedAt") # "")

\* The To ends of the edges with label l at the nodes of S.
Targets(G, S, l) == {e.to : e \in {f \in UNION {Neighbors(G, n) : n \in S} : f.label = l}}

gdprDPIA001(G) ==
    LET covered == Targets(G, NodesByLabel(G, "DPIA"), "DPIA_FOR")
    IN  Judged({n \in NodesByLabel(G, "ProcessingActivity") : Prop(G, n, "riskLevel") = "high"},
               LAMBDA n : n \in covered)

gdprDPIA002(G) == checkHasEdge(G, "DPIA", "HAS_RISK")

gdprProc001(G) ==
    Judged(NodesByLabel(G, "DataProcessor"),
           LAMBDA n : Prop(G, n, "contractStatus") \in {"signed", "active"})

gdprEvidence001(G) ==
    Judged({n \in NodesByLabel(G, "ChecklistItem") : Prop(G, n, "status") = "compliant"},
           LAMBDA n : HasEdgeLabel(G, n, "EVIDENCED_BY"))

\* Faulty variant: domestic transfers need a safeguard too.
gdprFlow003All(G) == checkPropertyNotEmpty(G, "DataFlow", "safeguard")

gdprFlow003(G) ==
    Judged({n \in NodesByLabel(G, "DataFlow") : Prop(G, n, "transferType") = "international"},
           LAMBDA n : Prop(G, n, "safeguard") # "")

\* Reads flows, edges and legal bases, and appends nothing in any branch.
gdprFlow004(G) == {}

ActiveActivities(G) ==
    {n \in NodesByLabel(G, "ProcessingActivity") : Prop(G, n, "status") \in {"", "active"}}

gdprFlow005(G) ==
    LET covered == Targets(G, NodesByLabel(G, "DataFlow"), "FROM_ACTIVITY")
    IN  {Result(n, IF n \in covered THEN "pass" ELSE "warning") : n \in ActiveActivities(G)}

gdprInsp001(G, now) ==
    ByDeadline(G, {n \in NodesByLabel(G, "InspectionFinding") : Prop(G, n, "status") = "open"},
               "targetDate", now)

gdprInsp002(G) ==
    Judged({n \in NodesByLabel(G, "RemediationAction") : Prop(G, n, "status") = "completed"},
           LAMBDA n : Prop(G, n, "verifiedBy") # "")
-----------------------------------------------------------------------------
(* The registry: what each rule is called, and how a scan runs it.           *)

Rule(id, module, severity) ==
    [id |-> id, framework |-> "gdpr", module |-> module, severity |-> severity]

RegisterGDPRRules ==
    { Rule("SETUP-001", "setup", "critical"), Rule("ROPA-001", "ropa", "critical"),
      Rule("ROPA-002", "ropa", "high"),       Rule("ROPA-003", "ropa", "medium"),
      Rule("ROPA-004", "ropa", "high"),       Rule("DSR-001", "dsr", "critical"),
      Rule("DSR-002", "dsr", "high"),         Rule("BREACH-001", "breach", "critical"),
      Rule("BREACH-002", "breach", "critical"), Rule("DPIA-001", "dpia", "critical"),
      Rule("DPIA-002", "dpia", "high"),       Rule("PROC-001", "processor", "high"),
      Rule("EVIDENCE-001", "evidence", "medium") }

RegisterDataFlowRules ==
    { Rule("FLOW-001", "dataflow", "high"),     Rule("FLOW-002", "dataflow", "critical"),
      Rule("FLOW-003", "dataflow", "critical"), Rule("FLOW-004", "dataflow", "critical"),
      Rule("FLOW-005", "dataflow", "medium"),   Rule("INSP-001", "inspection", "high"),
      Rule("INSP-002", "inspection", "medium") }

\* A file without a rule ID ends the walk; the rules before it stay registered.
YAMLRules == {YAMLFiles[i] : i \in {j \in DOMAIN YAMLFiles : \A k \in 1..j : YAMLFiles[k].id # ""}}

\* A YAML rule with an unknown severity is of medium severity.
YAMLSeverity(d) == IF d.severity \in {"critical", "high", "medium", "low"} THEN d.severity ELSE "medium"

LoadYAMLRules ==
    {[Rule(d.id, d.module, YAMLSeverity(d)) EXCEPT !.framework = d.framework] : d \in YAMLRules}

Rules == {r \in RegisterGDPRRules \cup RegisterDataFlowRules : r.id \in Hardcoded} \cup LoadYAMLRules

\* A YAML rule without a node label, or with an unknown condition, is an error.
YAMLError(d) == d.label = "" \/ d.condition \notin {"", "property_not_empty", "has_edge"}

yamlEvaluate(d, G) ==
    IF d.condition = "has_edge" THEN checkHasEdge(G, d.label, d.edgeLabel)
    ELSE Judged(NodesByLabel(G, d.label), LAMBDA n : \A k \in d.required : Prop(G, n, k) # "")

Evaluate(id, G, now) ==
    CASE id = "SETUP-001"    -> gdprSetup001(G)
      [] id = "ROPA-001"     -> checkPropertyNotEmpty(G, "ProcessingActivity", "legalBasis")
      [] id = "ROPA-002"     -> checkPropertyNotEmpty(G, "ProcessingActivity", "retentionPeriod")
      [] id = "ROPA-003"     -> checkHasEdge(G, "ProcessingActivity", "PROCESSES_CATEGORY")
      [] id = "ROPA-004"     -> checkHasEdge(G, "ProcessingActivity", "PROTECTED_BY")
      [] id = "DSR-001"      -> gdprDSR001(G, now)
      [] id = "DSR-002"      -> gdprDSR002(G)
      [] id = "BREACH-001"   -> gdprBreach001(G)
      [] id = "BREACH-002"   -> gdprBreach002(G)
      [] id = "DPIA-001"     -> gdprDPIA001(G)
      [] id = "DPIA-002"     -> gdprDPIA002(G)
      [] id = "PROC-001"     -> gdprProc001(G)
      [] id = "EVIDENCE-001" -> gdprEvidence001(G)
      [] id = "FLOW-001"     -> checkHasEdge(G, "DataFlow", "CARRIES")
      [] id = "FLOW-002"     -> checkHasEdge(G, "DataFlow", "GOVERNED_BY")
      [] id = "FLOW-003"     -> gdprFlow003(G)
      [] id = "FLOW-004"     -> gdprFlow004(G)
      [] id = "FLOW-005"     -> gdprFlow005(G)
      [] id = "INSP-001"     -> gdprInsp001(G, now)
      [] id = "INSP-002"     -> gdprInsp002(G)
      [] OTHER -> UNION {yamlEvaluate(d, G) : d \in {y \in YAMLRules : y.id = id /\ ~YAMLError(y)}}

\* What RunScan records of one rule: a warning for an error, "na" for no result.
RuleResults(r, G, now) ==
    LET found == IF \E d \in YAMLRules : d.id = r.id /\ YAMLError(d) THEN {Result(NoNode, "warning")}
                 ELSE Evaluate(r.id, G, now)
    IN  {[rule |-> r.id, severity |-> r.severity, node |-> x.node, status |-> x.status] :
            x \in IF found = {} THEN {Result(NoNode, "na")} ELSE found}
-----------------------------------------------------------------------------
(* The score, in tenths of a percent.  Weights are doubled: low is 0.5.      *)

Weight(severity) ==
    CASE severity = "critical" -> 6 [] severity = "high" -> 4
      [] severity = "low" -> 1      [] OTHER -> 2

Counted(R, status) == {x \in R : x.status = status}

\* The sum of the weights of the results, severity by severity (a rule has one of
\* these four).
TotalWeight(R) ==
    LET weigh(s) == Weight(s) * Cardinality({x \in R : x.severity = s})
    IN  weigh("critical") + weigh("high") + weigh("medium") + weigh("low")

CalculateScore(R) ==
    LET applicable == R \ Counted(R, "na")
    IN  IF applicable = {} THEN 1000
        ELSE (TotalWeight(Counted(R, "pass")) * 1000) \div TotalWeight(applicable)
-----------------------------------------------------------------------------
(* ValidateDataFlows checks the flows again, without the rules.              *)

FlowChecks(G, f) ==
    LET carried == {e.to : e \in {x \in Neighbors(G, f) : x.label = "CARRIES"}}
        special == \E c \in carried : c \in DOMAIN G.nodes /\ Prop(G, c, "isSpecial") = "true"
        foreign == Prop(G, f, "transferType") = "international"
        ok(b)   == IF b THEN "pass" ELSE "fail"
    IN  { <<"FLOW-001", ok(HasEdgeLabel(G, f, "CARRIES"))>>,
          <<"FLOW-002", ok(HasEdgeLabel(G, f, "GOVERNED_BY"))>>,
          <<"FLOW-003", IF foreign THEN ok(Prop(G, f, "safeguard") # "") ELSE "na">>,
          <<"FLOW-004", IF special THEN ok(Prop(G, f, "legalBasis") = "consent") ELSE "na">> }

Overall(checks) == IF \E c \in checks : c[2] = "fail" THEN "fail" ELSE "pass"

\* Activities the validation warns about (FLOW-005).
UncoveredActivities(G) ==
    ActiveActivities(G) \ Targets(G, NodesByLabel(G, "DataFlow"), "FROM_ACTIVITY")

\* Faulty variant: a day that has begun counts as gone.
DaysLeftBegun(h) == (h \div 24) - 1

\* GET .../dsr/sla: whole days left, cut off towards zero.
DaysLeft(h) == IF h >= 0 THEN h \div 24 ELSE -((-h) \div 24)

DSRSLA(G, now) ==
    {[node |-> n,
      overdue |-> /\ Prop(G, n, "deadline") \in DOMAIN TimeOf
                  /\ DaysLeft(TimeOf[Prop(G, n, "deadline")] - now) < 0] :
        n \in {m \in NodesByLabel(G, "DataSubjectRequest") : ~Done(G, m)}}
=============================================================================
