------------------------------ MODULE Compliance ------------------------------
(***************************************************************************)
(* The compliance engine and its HTTP API: the GDPR register, data flows   *)
(* and their validation, scans, inspections with findings, remediation and *)
(* sign-off, and the audit log.  Everything is kept in the graph.          *)
(*                                                                         *)
(* A handler is a request of a client.  It makes one graph call per step,  *)
(* so requests interleave between any two calls.  What a handler reads     *)
(* decides the list of calls it still has to make (todo); GraphCall makes  *)
(* the first of them, or it fails.  A node that a request creates is       *)
(* referred to, in its later calls, by a register.                         *)
(*                                                                         *)
(* IDs in paths and bodies are the client's: they may name anything.       *)
(*                                                                         *)
(* The model is one life of a process on a graph that earlier lives have   *)
(* filled.  The counter behind new IDs starts again with the process, so   *)
(* CreateNode and CreateEdge may give an ID that is in use, and replace    *)
(* what has it; within this life they give no ID twice.                    *)
(***************************************************************************)
EXTENDS ComplianceRules, SequencesExt

CONSTANTS
    Client,         \* concurrent requests
    Ops,            \* the operations this instance exercises
    Bodies,         \* label -> property maps that are posted for it
    Updates,        \* label -> property maps that are put on it
    Statuses,       \* label -> the status a posted inspection record comes with; "" is none
    Named,          \* use -> the IDs that clients name: edge labels, PUT routes by label, "delete", "signoff"
    Posted,         \* the [label, from, to] given to POST /api/v1/edges
    ScanRequests,   \* [framework, module] asked for; "" is any
    Seeded,         \* the graph at start: reference data, agents and earlier entries
    MaxRequests,    \* bound on requests
    MaxFaults,      \* bound on calls that fail
    Instants        \* the times, in hours, at which anything happens

\* The clock starts at 0 and counts whole hours.
ASSUME InstantsAssumption == Instants \subseteq Nat /\ MaxRequests \in Nat /\ MaxFaults \in Nat

VARIABLES
    nodes, edges,   \* the graph; an edge is [id, label, from, to]
    given, drawn,   \* the IDs of nodes and of edges given since the process started
    scanSeq,        \* Engine.scanSeq
    now,            \* the clock
    req,            \* client -> the request it is executing
    requests,       \* number of requests so far
    faults,         \* number of calls that have failed
    held,           \* history: client signing off -> findings open ever since
    done,           \* history: the <<operation, ID>> of the writes that took effect
    lost,           \* history: the <<scan, result>> whose evaluation could not be stored
    unlogged        \* history: the <<event type, ID>> whose event could not be written

graph == <<nodes, edges, given, drawn>>
history == <<done, lost, unlogged>>
vars == <<graph, scanSeq, now, req, requests, faults, held, history>>

G == [nodes |-> nodes, edges |-> edges]
-----------------------------------------------------------------------------
(* Calls on the graph.                                                       *)

\* Registers: where the IDs of the nodes a request created are kept.
Main  == <<"main", 0>>      \* what the request is about
Part  == <<"part", 0>>      \* an evaluation or a validation
Event == <<"event", 0>>     \* the audit event
NoRegs == [main |-> NoNode, part |-> NoNode, event |-> NoNode]

CreateNode(reg, label, props)  == [call |-> "node", reg |-> reg, label |-> label, props |-> props]
CreateEdge(label, from, to)    == [call |-> "edge", label |-> label, from |-> from, to |-> to]
UpsertNode(id, label, props)   == [call |-> "upsert", id |-> id, label |-> label, props |-> props]
DeleteNode(id)                 == [call |-> "delete", id |-> id]

\* An edge between a node and the first node of a label with key = val, found
\* by listing the label; back: from that node, rather than to it.
LinkBy(label, end, of, key, val, back) ==
    [call |-> "link", label |-> label, end |-> end, of |-> of, key |-> key, val |-> val, back |-> back]

\* Nodes are listed in a fixed order.
First(S) == CHOOSE n \in S : TRUE

\* A register is not an ID; a body holds finitely many IDs.
ASSUME NamedAssumption ==
    /\ \A u \in DOMAIN Updates \cup {"delete", "signoff", "PART_OF_INSPECTION"} : Named[u] \cap {Main, Part, Event} = {}
    /\ \A u \in {"PROCESSES_CATEGORY", "CARRIES", "INSPECTS", "AFFECTS"} : IsFiniteSet(Named[u])

Idle == [op |-> "idle"]
Begin(op, todo) == [op |-> op, todo |-> todo, regs |-> NoRegs, no |-> requests + 1, made |-> 0]

\* A request that has read what it needs goes on to make calls.
Proceed(c, op, todo) == [op |-> op, todo |-> todo, regs |-> req[c].regs, no |-> req[c].no, made |-> req[c].made]

\* A new ID is one nobody has (known by the request and the call it comes from,
\* so that the order of unrelated calls is not kept), or one left by an earlier life.
NewID(c, label, used, taken) == ({<<label, req[c].no, req[c].made>>} \cup {n \in used : n[1] = label}) \ taken

Put(f, n, r) == [m \in DOMAIN f \cup {n} |-> IF m = n THEN r ELSE f[m]]

\* A map with the entries of another put into it.
Merge(old, new) == [k \in DOMAIN old \cup DOMAIN new |-> IF k \in DOMAIN new THEN new[k] ELSE old[k]]

Resolve(c, id) == IF id \in {Main, Part, Event} THEN req[c].regs[id[1]] ELSE id

\* A related node may be a register; the event remembers it by its ID.
LogEvent(type, related) ==
    << CreateNode("event", "ComplianceEvent",
                  [eventType |-> type, relatedNodeId |-> related]),
       CreateEdge("RELATES_TO", Event, related) >>

Stored(c, a) ==
    IF a.call = "node" /\ a.label = "ComplianceEvent"
    THEN [a EXCEPT !.props.relatedNodeId = Resolve(c, @)] ELSE a

Calling(c) == req[c].op # "idle" /\ req[c].todo # <<>>
Call(c) == Stored(c, Head(req[c].todo))
Called(c) == [req[c] EXCEPT !.todo = Tail(@), !.made = @ + 1]

\* The node or edge that has the ID, if there is one, is replaced.
NodeCall(c) ==
    /\ Call(c).call = "node"
    /\ \E id \in NewID(c, Call(c).label, DOMAIN nodes, given) :
          /\ nodes' = Put(nodes, id, [label |-> Call(c).label, props |-> Call(c).props])
          /\ given' = given \cup {id}
          /\ req' = [req EXCEPT ![c] = [Called(c) EXCEPT !.regs[Call(c).reg] = id]]
          /\ done' = done \cup IF Call(c).reg = "main" THEN {<<req[c].op, id>>} ELSE {}
    /\ UNCHANGED <<edges, drawn>>

\* CreateEdge looks up both ends; the handlers ignore its error.
NewEdge(c, label, from, to) ==
    IF {from, to} \subseteq DOMAIN nodes
    THEN \E id \in NewID(c, label, {e.id : e \in edges}, drawn) :
          /\ edges' = {e \in edges : e.id # id} \cup {[id |-> id, label |-> label, from |-> from, to |-> to]}
          /\ drawn' = drawn \cup {id}
          /\ UNCHANGED <<nodes, given>>
    ELSE UNCHANGED graph

EdgeCall(c) ==
    /\ \/ /\ Call(c).call = "edge"
          /\ NewEdge(c, Call(c).label, Resolve(c, Call(c).from), Resolve(c, Call(c).to))
       \/ /\ Call(c).call = "link"
          /\ LET S == Having(G, Call(c).of, Call(c).key, Call(c).val)
             IN  IF S = {} THEN UNCHANGED graph
                 ELSE IF Call(c).back THEN NewEdge(c, Call(c).label, First(S), Resolve(c, Call(c).end))
                 ELSE NewEdge(c, Call(c).label, Resolve(c, Call(c).end), First(S))
    /\ req' = [req EXCEPT ![c] = Called(c)]
    /\ UNCHANGED done

\* An entity that exists keeps its label; if its read fails it is replaced.
Upsert(c, Read) ==
    /\ Call(c).call = "upsert"
    /\ nodes' = Put(nodes, Call(c).id,
                    IF Call(c).id \in Read
                    THEN [nodes[Call(c).id] EXCEPT !.props = Merge(@, Call(c).props)]
                    ELSE [label |-> Call(c).label, props |-> Call(c).props])
    /\ req' = [req EXCEPT ![c] = Called(c)]
    /\ done' = done \cup {<<req[c].op, Call(c).id>>}
    /\ UNCHANGED <<edges, given, drawn>>

DeleteCall(c) ==
    /\ Call(c).call = "delete"
    /\ nodes' = [n \in DOMAIN nodes \ {Call(c).id} |-> nodes[n]]
    /\ edges' = {e \in edges : Call(c).id \notin {e.from, e.to}}
    /\ req' = [req EXCEPT ![c] = Called(c)]
    /\ UNCHANGED <<given, drawn, done>>

GraphCall(c) ==
    /\ Calling(c)
    /\ NodeCall(c) \/ EdgeCall(c) \/ Upsert(c, DOMAIN nodes) \/ DeleteCall(c)
    /\ UNCHANGED <<scanSeq, now, requests, lost, unlogged>>

\* The call changes nothing.  The error of a write that the request is about is
\* answered; without its node an evaluation, a validation or an event is left
\* out; an edge is passed over.
Decisive(a) == a.call \in {"upsert", "delete"} \/ (a.call = "node" /\ a.reg = "main")

CallFails(c) ==
    /\ Calling(c)
    /\ req' = [req EXCEPT ![c] =
                  IF Decisive(Call(c)) THEN Idle
                  ELSE IF Call(c).call = "node" THEN [Called(c) EXCEPT !.todo = <<>>]
                  ELSE Called(c)]
    /\ lost' = lost \cup
          IF req[c].op = "scanned" /\ (Call(c).call = "node" \/ Call(c).label = "PART_OF_SCAN")
          THEN {<<req[c].regs.main, ev>> : ev \in req[c].storing} ELSE {}
    /\ unlogged' = unlogged \cup
          IF Call(c).call = "node" /\ Call(c).reg = "event"
          THEN {<<Call(c).props.eventType, Call(c).props.relatedNodeId>>} ELSE {}
    /\ UNCHANGED <<graph, scanSeq, now, requests, done>>

\* The answer is sent when there is nothing left to do.
Answer(c) ==
    /\ req[c].op # "idle" /\ req[c].todo = <<>>
    /\ req[c].op \notin {"scan", "validate", "signoff"}
    /\ req[c].op = "scanned" => req[c].results = {}
    /\ req' = [req EXCEPT ![c] = Idle]
    /\ UNCHANGED <<graph, scanSeq, now, requests, history>>

Receive(c, op, r) ==
    /\ op \in Ops
    /\ req[c].op = "idle" /\ requests < MaxRequests
    /\ req' = [req EXCEPT ![c] = r]
    /\ requests' = requests + 1
    /\ UNCHANGED <<graph, now, history>>

Handle(c, op, todo) == Receive(c, op, Begin(op, todo)) /\ UNCHANGED scanSeq

\* At most one of the IDs named for a use, and any of them, as edges.
OneOf(label)  == {{}} \cup {{n} : n \in Named[label]}
EdgesTo(label, S) == SetToSeq({CreateEdge(label, Main, n) : n \in S})
-----------------------------------------------------------------------------
(* The GDPR register and data flows.                                         *)

\* The labels whose POST route is handleGDPRCreate; activities and flows have handlers of their own.
PlainLabels ==
    {"DataCategory", "SecurityMeasure", "DataSubjectRequest", "DataBreach", "DPIA", "DataProcessor", "Evidence"}

GDPRCreate(c) ==
    \E l \in PlainLabels \cap DOMAIN Bodies : \E p \in Bodies[l] :
        Handle(c, "create", <<CreateNode("main", l, p)>>)

GDPRCreateWithEdges(c) ==
    \E p \in Bodies["ProcessingActivity"], basis \in OneOf("HAS_LEGAL_BASIS"),
       measure \in OneOf("PROTECTED_BY"), cats \in SUBSET Named["PROCESSES_CATEGORY"] :
        Handle(c, "ropa",
            <<CreateNode("main", "ProcessingActivity", p)>>
            \o EdgesTo("HAS_LEGAL_BASIS", basis) \o EdgesTo("PROTECTED_BY", measure)
            \o EdgesTo("PROCESSES_CATEGORY", cats))

\* The existing node is looked up; what was found is written in a later step.
Singleton(c, S) ==
    \E p \in Updates["OrgSetup"] :
        Handle(c, "singleton",
            IF S = {} THEN <<CreateNode("main", "OrgSetup", p)>>
            ELSE <<UpsertNode(First(S), "OrgSetup", p)>>)

GDPRUpsertSingleton(c) == Singleton(c, NodesByLabel(G, "OrgSetup"))

\* The error of the listing is ignored.
SingletonUnread(c) == Singleton(c, {})

\* PUT: inspections, findings and remediations also write an audit event.
EventOf == [Inspection |-> "inspection_updated", InspectionFinding |-> "finding_updated",
            RemediationAction |-> "remediation_updated"]

Update(c) ==
    \E l \in DOMAIN Updates : \E n \in Named[l], p \in Updates[l] :
        Handle(c, "update", <<UpsertNode(n, l, p)>>
            \o IF l \in DOMAIN EventOf THEN LogEvent(EventOf[l], n) ELSE <<>>)

\* DELETE .../ropa, .../evidence, .../data-flows and /api/v1/nodes.
Delete(c) == \E n \in Named["delete"] : Handle(c, "delete", <<DeleteNode(n)>>)

\* POST /api/v1/edges: how DPIA_FOR, HAS_RISK and EVIDENCED_BY come about.
PostEdge(c) == \E e \in Posted : Handle(c, "edge", <<CreateEdge(e.label, e.from, e.to)>>)

DataFlowCreate(c) ==
    \E p \in Bodies["DataFlow"], from \in OneOf("FROM_ACTIVITY"), to \in OneOf("TO_ACTIVITY"),
       proc \in OneOf("TO_PROCESSOR"), cats \in SUBSET Named["CARRIES"], basis \in OneOf("GOVERNED_BY") :
        Handle(c, "flow",
            <<CreateNode("main", "DataFlow", p)>>
            \o EdgesTo("FROM_ACTIVITY", from) \o EdgesTo("TO_ACTIVITY", to) \o EdgesTo("TO_PROCESSOR", proc)
            \o EdgesTo("CARRIES", cats) \o EdgesTo("GOVERNED_BY", basis)
            \o LogEvent("dataflow_created", Main))

\* The flows are listed once, with their properties; each is then checked
\* against the edges and categories of that moment, and stored.
ValidateDataFlows(c) ==
    \E insp \in {NoNode} \cup Named["PART_OF_INSPECTION"] :
        Receive(c, "validate",
            Merge(Begin("validate", <<>>),
                  [insp |-> insp,
                   flows |-> [f \in NodesByLabel(G, "DataFlow") |-> nodes[f]]]))
        /\ UNCHANGED scanSeq

ValidateFlow(c) ==
    /\ req[c].op = "validate" /\ req[c].todo = <<>> /\ DOMAIN req[c].flows # {}
    /\ LET f == First(DOMAIN req[c].flows)
           seen == [G EXCEPT !.nodes = Put(nodes, f, req[c].flows[f])]
       IN  req' = [req EXCEPT
            ![c].flows = [x \in DOMAIN @ \ {f} |-> @[x]],
            ![c].todo =
                << CreateNode("part", "DataFlowValidation",
                              [flowId |-> f, status |-> Overall(FlowChecks(seen, f))]),
                   CreateEdge("VALIDATES", Part, f) >>
                \o IF req[c].insp = NoNode THEN <<>>
                   ELSE <<CreateEdge("PART_OF_INSPECTION", Part, req[c].insp)>>]
    /\ UNCHANGED <<graph, scanSeq, now, requests, history>>

ValidateEnd(c) ==
    /\ req[c].op = "validate" /\ req[c].todo = <<>> /\ DOMAIN req[c].flows = {}
    /\ req' = [req EXCEPT ![c] = Proceed(c, "validated", LogEvent("dataflow_validation", req[c].insp))]
    /\ UNCHANGED <<graph, scanSeq, now, requests, history>>
-----------------------------------------------------------------------------
(* Scans.                                                                    *)

RunScan(c) ==
    \E r \in ScanRequests :
        /\ Receive(c, "scan",
            Merge(Begin("scan", <<>>),
                  [id |-> scanSeq + 1, framework |-> r.framework, results |-> {},
                   rules |-> {x \in Rules : /\ r.framework \in {"", x.framework}
                                            /\ r.module \in {"", x.module}}]))
        /\ scanSeq' = scanSeq + 1

\* The scheduler scans one framework after the other.
SchedulerScan(c) ==
    \E fw \in {r.framework : r \in Rules} :
        /\ "schedule" \in Ops
        /\ Receive(c, "schedule",
            Merge(Begin("scan", <<>>),
                  [id |-> scanSeq + 1, framework |-> fw, results |-> {},
                   rules |-> {x \in Rules : x.framework = fw}]))
        /\ scanSeq' = scanSeq + 1

Scanned(c, Results(_)) ==
    /\ req[c].op = "scan" /\ req[c].rules # {}
    /\ LET r == CHOOSE x \in req[c].rules : TRUE
       IN  req' = [req EXCEPT ![c].rules = @ \ {r}, ![c].results = @ \cup Results(r)]
    /\ UNCHANGED <<graph, scanSeq, now, requests, history>>

ScanRule(c) == Scanned(c, LAMBDA r : RuleResults(r, G, now))

\* A rule that cannot list the label it is about is recorded as a warning.
RuleFails(c) ==
    Scanned(c, LAMBDA r : {[rule |-> r.id, severity |-> r.severity, node |-> NoNode, status |-> "warning"]})

\* The client went away, or the process is stopping: nothing is stored.
ScanCanceled(c) ==
    /\ req[c].op = "scan" /\ req[c].rules # {}
    /\ req' = [req EXCEPT ![c] = Idle]
    /\ UNCHANGED <<graph, scanSeq, now, requests, history>>

\* Faulty variant: results that are about no node are counted but not stored.
StoreEvaluationOfNode(ev) ==
    IF ev.node = NoNode THEN <<>>
    ELSE << CreateNode("part", "ComplianceEvaluation",
                       [ruleId |-> ev.rule, status |-> ev.status, severity |-> ev.severity, nodeId |-> ev.node]),
            CreateEdge("PART_OF_SCAN", Part, Main) >>

StoreEvaluation(ev) ==
    << CreateNode("part", "ComplianceEvaluation",
                  [ruleId |-> ev.rule, status |-> ev.status, severity |-> ev.severity, nodeId |-> ev.node]),
       CreateEdge("PART_OF_SCAN", Part, Main),
       LinkBy("EVALUATED_BY", Part, "ComplianceRule", "ruleId", ev.rule, TRUE) >>

storeScanResults(c) ==
    /\ req[c].op = "scan" /\ req[c].rules = {}
    /\ LET R == req[c].results
           count(s) == Cardinality(Counted(R, s))
       IN  req' = [req EXCEPT ![c] = Merge(Proceed(c, "scanned",
            << CreateNode("main", "ComplianceScan",
                    [scanId |-> req[c].id, framework |-> req[c].framework, completedAt |-> now,
                     passCount |-> count("pass"), failCount |-> count("fail"),
                     warningCount |-> count("warning"), score |-> CalculateScore(R)]),
               LinkBy("SCOPED_TO", Main, "ComplianceFramework", "name", req[c].framework, FALSE) >>),
            [results |-> R, storing |-> {}])]
    /\ UNCHANGED <<graph, scanSeq, now, requests, history>>

\* The results are stored one after the other; storing holds the one at hand.
StoreNext(c) ==
    /\ req[c].op = "scanned" /\ req[c].todo = <<>> /\ req[c].results # {}
    /\ LET ev == CHOOSE x \in req[c].results : TRUE
       IN  req' = [req EXCEPT ![c].results = @ \ {ev}, ![c].storing = {ev}, ![c].todo = StoreEvaluation(ev)]
    /\ UNCHANGED <<graph, scanSeq, now, requests, history>>
-----------------------------------------------------------------------------
(* Inspections.                                                              *)

\* What is posted keeps the status it comes with.
WithStatus(label, default) == {Map("status", IF s = "" THEN default ELSE s) : s \in Statuses[label]}

\* scan: the ID of the baseline scan, if the request has one.
CreateInspection(c) ==
    \E p \in WithStatus("Inspection", "draft"), scope \in SUBSET Named["INSPECTS"], scan \in OneOf("BASED_ON") :
        Handle(c, "inspection",
            <<CreateNode("main", "Inspection", p)>>
            \o EdgesTo("INSPECTS", scope)
            \o SetToSeq({LinkBy("BASED_ON", Main, "ComplianceScan", "scanId", id, FALSE) : id \in scan})
            \o LogEvent("inspection_created", Main))

\* Faulty variant: the finding is linked, and no event is written.
CreateFindingUnlogged(c) ==
    \E i \in Named["HAS_FINDING"] :
        Handle(c, "finding",
            << CreateNode("main", "InspectionFinding", Map("status", "open")),
               CreateEdge("HAS_FINDING", i, Main) >>)

CreateFinding(c) ==
    \E i \in Named["HAS_FINDING"], affected \in SUBSET Named["AFFECTS"], p \in WithStatus("InspectionFinding", "open") :
        Handle(c, "finding",
            << CreateNode("main", "InspectionFinding", p),
               CreateEdge("HAS_FINDING", i, Main) >>
            \o EdgesTo("AFFECTS", affected)
            \o LogEvent("finding_opened", Main))

CreateRemediation(c) ==
    \E f \in Named["REMEDIATED_BY"], p \in WithStatus("RemediationAction", "pending") :
        Handle(c, "remediation",
            << CreateNode("main", "RemediationAction", p),
               CreateEdge("REMEDIATED_BY", f, Main) >>
            \o LogEvent("remediation_created", Main))

\* The findings linked to an inspection, and those of them that are open.
Findings(g, i) == {e.to : e \in {x \in Neighbors(g, i) : x.label = "HAS_FINDING"}}
IsOpen(g, f) == f \in DOMAIN g.nodes /\ Prop(g, f, "status") = "open"
OpenFindings(g, i) == {f \in Findings(g, i) : IsOpen(g, f)}

\* GetNode, of any node; the edges, then the findings one by one, are read later.
\* unseen: the findings whose read failed, and which are passed over.
SignOffInspection(c) ==
    \E i \in Named["signoff"] \cap DOMAIN nodes, a \in Named["APPROVED_BY"] :
        /\ Receive(c, "signoff", Merge(Begin("signoff", <<>>),
                [pc |-> "edges", insp |-> i, label |-> nodes[i].label, approver |-> a, unread |-> {}, unseen |-> {}]))
        /\ UNCHANGED scanSeq

\* Those in hidden are not among what Neighbors returns.
EdgesRead(c, hidden) ==
    /\ req' = [req EXCEPT ![c].pc = "check", ![c].unread = Findings(G, req[c].insp) \ hidden, ![c].unseen = hidden]
    /\ UNCHANGED <<graph, scanSeq, now, requests, history>>

SignOffEdges(c) == req[c].op = "signoff" /\ req[c].pc = "edges" /\ EdgesRead(c, {})

\* The error of Neighbors is ignored; an edge that cannot be read is left out.
SignOffEdgesUnread(c) ==
    /\ req[c].op = "signoff" /\ req[c].pc = "edges"
    /\ \E hidden \in SUBSET Findings(G, req[c].insp) : hidden # {} /\ EdgesRead(c, hidden)

\* Faulty variant: the first finding decides.
SignOffCheckFirst(c) ==
    /\ req[c].op = "signoff" /\ req[c].pc = "check"
    /\ \E f \in req[c].unread :
          req' = IF IsOpen(G, f) THEN [req EXCEPT ![c] = Idle] ELSE [req EXCEPT ![c].unread = {}]
    /\ UNCHANGED <<graph, scanSeq, now, requests, history>>

\* A finding that is open refuses the sign-off; one that is gone is passed over.
SignOffCheck(c) ==
    /\ req[c].op = "signoff" /\ req[c].pc = "check"
    /\ \E f \in req[c].unread :
          req' = IF IsOpen(G, f)
                 THEN [req EXCEPT ![c] = Idle]
                 ELSE [req EXCEPT ![c].unread = @ \ {f}]
    /\ UNCHANGED <<graph, scanSeq, now, requests, history>>

\* So is one that cannot be read.
SignOffCheckUnread(c) ==
    /\ req[c].op = "signoff" /\ req[c].pc = "check"
    /\ \E f \in req[c].unread :
          req' = [req EXCEPT ![c].unread = @ \ {f}, ![c].unseen = @ \cup {f}]
    /\ UNCHANGED <<graph, scanSeq, now, requests, history>>

\* Faulty variant: the event is written before the status.
SignOffWriteLate(c) ==
    /\ req[c].op = "signoff" /\ req[c].pc = "check" /\ req[c].unread = {}
    /\ req' = [req EXCEPT ![c] = Proceed(c, "signing",
            LogEvent("inspection_signed_off", req[c].insp) \o
            << UpsertNode(req[c].insp, req[c].label, [status |-> "signed_off", approverId |-> req[c].approver]) >>)]
    /\ UNCHANGED <<graph, scanSeq, now, requests, history>>

SignOffWrite(c) ==
    /\ req[c].op = "signoff" /\ req[c].pc = "check" /\ req[c].unread = {}
    /\ LET i == req[c].insp
       IN  req' = [req EXCEPT ![c] = Proceed(c, "signing",
            << UpsertNode(i, req[c].label, [status |-> "signed_off", approverId |-> req[c].approver]),
               LinkBy("APPROVED_BY", i, "Agent", "agentId", req[c].approver, FALSE) >>
            \o LogEvent("inspection_signed_off", i))]
    /\ UNCHANGED <<graph, scanSeq, now, requests, history>>
-----------------------------------------------------------------------------
(* EnsureFrameworkNodes runs at start-up, before the servers: one node per   *)
(* framework and per rule, linked, for those that have none yet.  The counter *)
(* has just started again: a framework may replace another of an earlier life. *)

EnsureFrameworkNodes(g) ==
    LET fws   == SetToSeq({fw \in {r.framework : r \in Rules} : Having(g, "ComplianceFramework", "name", fw) = {}})
        rules == SetToSeq({r \in Rules : Having(g, "ComplianceRule", "ruleId", r.id) = {}})
        fwNodes == {<<"ComplianceFramework", i>> : i \in DOMAIN fws}
        ruNodes == {<<"ComplianceRule", i>> : i \in DOMAIN rules}
        added == [n \in DOMAIN g.nodes \cup fwNodes \cup ruNodes |->
                    CASE n \in fwNodes -> [label |-> n[1], props |-> Map("name", fws[n[2]])]
                      [] n \in ruNodes -> [label |-> n[1], props |-> Map("ruleId", rules[n[2]].id)]
                      [] OTHER -> g.nodes[n]]
        fwOf(r) == Having([nodes |-> added], "ComplianceFramework", "name", r.framework)
        linked == {n \in ruNodes : fwOf(rules[n[2]]) # {}}
        ids == {<<"DEFINES_RULE", n[2]>> : n \in linked}
    IN  [nodes |-> added,
         edges |-> {e \in g.edges : e.id \notin ids} \cup
            {[id |-> <<"DEFINES_RULE", n[2]>>, label |-> "DEFINES_RULE",
              from |-> First(fwOf(rules[n[2]])), to |-> n] : n \in linked}]

\* A finite graph of labeled nodes, and of edges that have IDs of their own and
\* both their ends.
WellKept(N, E) ==
    /\ IsFiniteSet(DOMAIN N)
    /\ \A n \in DOMAIN N : DOMAIN N[n] = {"label", "props"}
    /\ \A e \in E : /\ DOMAIN e = {"id", "label", "from", "to"}
                    /\ {e.from, e.to} \subseteq DOMAIN N
                    /\ \A f \in E : e.id = f.id => e = f

\* What is in the graph at start came about as everything else does.
ASSUME SeededAssumption == WellKept(Seeded.nodes, Seeded.edges) /\ IsFiniteSet(Rules)

Init ==
    /\ LET g == EnsureFrameworkNodes(Seeded)
       IN  nodes = g.nodes /\ edges = g.edges
    /\ scanSeq = 0 /\ now = 0
    /\ req = [c \in Client |-> Idle]
    /\ requests = 0 /\ faults = 0 /\ given = {} /\ drawn = {}
    /\ held = [c \in Client |-> {}]
    /\ done = {} /\ lost = {} /\ unlogged = {}

Tick ==
    /\ \E t \in Instants : t > now /\ now' = t
    /\ UNCHANGED <<graph, scanSeq, req, requests, history>>

Register(c) == GDPRCreate(c) \/ GDPRCreateWithEdges(c) \/ GDPRUpsertSingleton(c)
               \/ Update(c) \/ Delete(c) \/ PostEdge(c) \/ DataFlowCreate(c)
Validation(c) == ValidateDataFlows(c) \/ ValidateFlow(c) \/ ValidateEnd(c)
Scan(c) == RunScan(c) \/ SchedulerScan(c) \/ ScanRule(c) \/ ScanCanceled(c)
           \/ storeScanResults(c) \/ StoreNext(c)
Inspect(c) == CreateInspection(c) \/ CreateFinding(c) \/ CreateRemediation(c)
              \/ SignOffInspection(c) \/ SignOffEdges(c) \/ SignOffCheck(c) \/ SignOffWrite(c)

\* A read or a write that fails.
UpsertUnread(c) ==
    /\ Calling(c) /\ Upsert(c, {})
    /\ UNCHANGED <<scanSeq, now, requests, lost, unlogged>>

Fault(c) == CallFails(c) \/ UpsertUnread(c) \/ SingletonUnread(c) \/ RuleFails(c)
            \/ SignOffEdgesUnread(c) \/ SignOffCheckUnread(c)

\* History: the findings that have been open ever since a sign-off began.
Track ==
    held' = [c \in Client |->
          IF req'[c].op # "signoff" THEN {}
          ELSE IF req[c].op # "signoff" THEN OpenFindings(G, req'[c].insp)
          ELSE held[c] \cap OpenFindings(G', req'[c].insp)]

Next ==
    /\ \/ /\ \/ Tick
             \/ \E c \in Client : \/ Register(c) \/ Validation(c) \/ Scan(c) \/ Inspect(c)
                                   \/ GraphCall(c) \/ Answer(c)
          /\ UNCHANGED faults
       \/ /\ faults < MaxFaults /\ faults' = faults + 1
          /\ \E c \in Client : Fault(c)
    /\ Track

Spec == Init /\ [][Next]_vars
-----------------------------------------------------------------------------
(* Properties.                                                               *)

\* Every edge has both its ends and an ID of its own, whatever is created,
\* replaced, deleted and put back in between (CreateEdge looks the ends up, a
\* delete cascades, an upsert may bring a deleted node back).
TypeOK ==
    /\ WellKept(nodes, edges)
    /\ scanSeq \in Nat /\ now \in Nat /\ requests \in 0..MaxRequests /\ faults \in 0..MaxFaults

\* GET .../scans/{id}: the evaluations linked to a scan node.
ScanDetail(s) ==
    {[node |-> n, status |-> Prop(G, n, "status"), severity |-> Prop(G, n, "severity")] :
        n \in {e.from : e \in {x \in edges : x.label = "PART_OF_SCAN" /\ x.to = s}}}

\* The results of a scan whose evaluations could not be stored or linked.
Lost(s) == {x[2] : x \in {y \in lost : y[1] = s}}

\* The scans of this life, but for one that replaced a scan and has its edges.
OwnScans == {s \in NodesByLabel(G, "ComplianceScan") \cap given : s \notin DOMAIN Seeded.nodes}

\* Once a scan has been answered, its counts and its score are those of the
\* evaluations its detail shows and of the results whose evaluation could not be
\* stored, each counted once: concurrent scans do not get into each other's
\* results, and scan IDs tell them apart.
ScanIsWhole ==
    \A s \in OwnScans :
        LET R == ScanDetail(s) \cup Lost(s)
            p == nodes[s].props
        IN  /\ (\A c \in Client : req[c].op = "scanned" => req[c].regs.main # s) =>
                    /\ p.passCount = Cardinality(Counted(R, "pass"))
                    /\ p.failCount = Cardinality(Counted(R, "fail"))
                    /\ p.warningCount = Cardinality(Counted(R, "warning"))
                    /\ p.score = CalculateScore(R)
            /\ \A t \in OwnScans : p.scanId = nodes[t].props.scanId => s = t

\* A scan's data-flow rules and ValidateDataFlows are two implementations of the
\* same checks: on every graph they agree on FLOW-001, 002, 003 and 005.
ScanAgreesWithValidation ==
    /\ \A f \in NodesByLabel(G, "DataFlow") : \A k \in FlowChecks(G, f) :
          k[1] # "FLOW-004" =>
             (Result(f, k[2]) \in Evaluate(k[1], G, now) \/
              (k[2] = "na" /\ \A r \in Evaluate(k[1], G, now) : r.node # f))
    /\ {n \in ActiveActivities(G) : Result(n, "warning") \in gdprFlow005(G)} = UncoveredActivities(G)

\* The SLA page and rule DSR-001 compute lateness differently; the page never
\* calls a request overdue that the rule passes, and misses only requests that
\* are late by less than a day.
SLAAgrees ==
    \A x \in DSRSLA(G, now) :
        /\ x.overdue => Result(x.node, "fail") \in gdprDSR001(G, now)
        /\ Result(x.node, "fail") \in gdprDSR001(G, now) /\ ~x.overdue =>
               now - TimeOf[Prop(G, x.node, "deadline")] < 24

\* A finding that has been open ever since a sign-off began blocks it, whatever
\* findings are created, closed and reopened meanwhile, unless its read failed.
OpenFindingsBlockSignOff ==
    \A c \in Client : req[c].op = "signoff" /\ req[c].pc = "check" /\ req[c].unread = {} =>
        held[c] \subseteq req[c].unseen

\* inspection.go:93: "All findings must be remediated, waived, or accepted."
SignedOffResolved ==
    [][\A i \in NodesByLabel(G, "Inspection") :
          /\ Prop(G, i, "status") # "signed_off"
          /\ Prop(G', i, "status") = "signed_off"
          => OpenFindings(G', i) = {}]_vars

CreationEvent ==
    [Inspection |-> "inspection_created", InspectionFinding |-> "finding_opened",
     RemediationAction |-> "remediation_created", DataFlow |-> "dataflow_created"]

\* The audit log has an event of this type about node n, from this life.
Logged(type, n) ==
    \E m \in NodesByLabel(G, "ComplianceEvent") \cap given :
        nodes[m].props = [eventType |-> type, relatedNodeId |-> n]

\* A request is still to write it.
Pending(type, n) ==
    \E c \in Client : req[c].op # "idle" /\ \E i \in DOMAIN req[c].todo :
        LET a == Stored(c, req[c].todo[i])
        IN  a.call = "node" /\ a.label = "ComplianceEvent" /\ a.props = [eventType |-> type, relatedNodeId |-> n]

Audited(type, n) == Logged(type, n) \/ Pending(type, n) \/ <<type, n>> \in unlogged

\* The audit log is complete but for events that could not be written: whatever
\* requests interleave and fail, an entity that the API created has its creation
\* event, an inspection, finding or remediation that a PUT brought into being an
\* update event, and one that was signed off the event that says so.
AuditTrail ==
    /\ \A n \in given \cap DOMAIN nodes :
          n[1] \in DOMAIN CreationEvent => Audited(CreationEvent[n[1]], n)
    /\ \A n \in DOMAIN nodes \ (given \cup DOMAIN Seeded.nodes) :
          nodes[n].label \in DOMAIN EventOf => \E l \in DOMAIN EventOf : Audited(EventOf[l], n)
    /\ \A n \in DOMAIN nodes :
          Prop(G, n, "status") = "signed_off" =>
              \/ Audited("inspection_signed_off", n)
              \/ n \in DOMAIN Seeded.nodes /\ Prop(Seeded, n, "status") = "signed_off"

\* The operation whose write an event speaks of.
Told == [inspection_created |-> "inspection", finding_opened |-> "finding",
         remediation_created |-> "remediation", dataflow_created |-> "flow",
         inspection_updated |-> "update", finding_updated |-> "update", remediation_updated |-> "update",
         inspection_signed_off |-> "signing"]

\* The audit log says nothing that did not happen: an event speaks of a write
\* that took effect, although requests fail halfway.
AuditTruthful ==
    \A m \in NodesByLabel(G, "ComplianceEvent") \cap given :
        LET p == nodes[m].props
        IN  p.eventType \in DOMAIN Told => <<Told[p.eventType], p.relatedNodeId>> \in done
=============================================================================
