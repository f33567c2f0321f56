--------------------------- MODULE ComplianceProofs ---------------------------
(* Proofs about Compliance, for any clients, requests, seeded graph and clock. *)
EXTENDS Compliance, FiniteSetTheorems, SequenceTheorems, NaturalsInduction, TLAPS

-----------------------------------------------------------------------------
(* Sign-off.                                                                  *)

\* The fields of a request; one that scans or signs off has no calls to make yet.
Formed(r) ==
    /\ "op" \in DOMAIN r
    /\ r.op # "idle" => {"todo", "made", "regs", "no"} \subseteq DOMAIN r
    /\ r.op = "scan" => {"rules", "results", "id", "framework"} \subseteq DOMAIN r /\ r.todo = <<>>
    /\ r.op = "scanned" => {"results", "storing"} \subseteq DOMAIN r
    /\ r.op = "validate" => {"flows", "insp"} \subseteq DOMAIN r
    /\ r.op = "signoff" => {"pc", "insp", "label", "unread", "unseen"} \subseteq DOMAIN r /\ r.todo = <<>>

\* A finding that was open all the time is among those still to be read or those
\* whose read failed, once the edges of the inspection have been read.
Blocking ==
    /\ req = [c \in Client |-> req[c]]
    /\ \A c \in Client :
          /\ Formed(req[c])
          /\ req[c].op = "signoff" /\ req[c].pc = "check" =>
                held[c] \subseteq req[c].unread \cup req[c].unseen

\* What a step may do to the sign-off of client c.
Apart(c) == req'[c].op # "signoff"
Begun(c) == req[c].op # "signoff" /\ req'[c].pc = "edges"
Kept(c)  == req'[c] = req[c]
Read(c)  ==
    /\ req[c].op = "signoff" /\ req'[c].op = "signoff"
    /\ UNCHANGED <<nodes, edges>>
    /\ Findings(G, req'[c].insp) \subseteq req'[c].unread \cup req'[c].unseen
Passed(c) ==
    /\ req[c].op = "signoff" /\ req'[c].op = "signoff"
    /\ UNCHANGED <<nodes, edges>>
    /\ req[c].pc = "check"
    /\ req[c].unseen \subseteq req'[c].unseen
    /\ \E f \in req[c].unread : /\ req'[c].unread = req[c].unread \ {f}
                                /\ ~IsOpen(G, f) \/ f \in req'[c].unseen

\* What a step of client c does to requests.
StepOf(c) ==
    /\ req' = [req EXCEPT ![c] = req'[c]]
    /\ Formed(req'[c])
    /\ Apart(c) \/ Begun(c) \/ Kept(c) \/ Read(c) \/ Passed(c)

\* A request that is received is well formed and is no sign-off past its reading.
LEMMA HandleStep ==
    ASSUME Blocking, NEW c \in Client, NEW op, NEW todo, Handle(c, op, todo), op \notin {"idle", "signoff", "scan", "scanned", "validate"}
    PROVE  StepOf(c)
  <1>1. req' = [req EXCEPT ![c] = Begin(op, todo)]
    BY DEF Handle, Receive
  <1>2. req'[c] = Begin(op, todo) /\ req' = [req EXCEPT ![c] = req'[c]]
    BY <1>1 DEF Blocking
  <1>3. Formed(req'[c]) /\ Apart(c)
    BY <1>2 DEF Begin, Formed, Apart
  <1> QED BY <1>2, <1>3 DEF StepOf

\* Creating, updating and deleting entities starts no sign-off.
LEMMA RegisterStep ==
    ASSUME Blocking, NEW c \in Client, Register(c)
    PROVE  StepOf(c)
  <1>1. CASE GDPRCreate(c) BY <1>1, HandleStep DEF GDPRCreate
  <1>2. CASE GDPRCreateWithEdges(c) BY <1>2, HandleStep DEF GDPRCreateWithEdges
  <1>3. CASE GDPRUpsertSingleton(c) BY <1>3, HandleStep DEF GDPRUpsertSingleton, Singleton
  <1>4. CASE Update(c) BY <1>4, HandleStep DEF Update
  <1>5. CASE Delete(c) BY <1>5, HandleStep DEF Delete
  <1>6. CASE PostEdge(c) BY <1>6, HandleStep DEF PostEdge
  <1>7. CASE DataFlowCreate(c) BY <1>7, HandleStep DEF DataFlowCreate
  <1> QED BY <1>1, <1>2, <1>3, <1>4, <1>5, <1>6, <1>7 DEF Register

\* Neither does a validation of the data flows.
LEMMA ValidationStep ==
    ASSUME Blocking, NEW c \in Client, Validation(c)
    PROVE  StepOf(c)
  <1>1. CASE ValidateDataFlows(c)
    <2>1. PICK insp : req' = [req EXCEPT ![c] = Merge(Begin("validate", <<>>),
                  [insp |-> insp,
                   flows |-> [f \in NodesByLabel(G, "DataFlow") |-> nodes[f]]])]
      BY <1>1 DEF ValidateDataFlows, Receive
    <2>2. req' = [req EXCEPT ![c] = req'[c]] /\ Formed(req'[c]) /\ Apart(c)
      BY <2>1 DEF Blocking, Formed, Apart, Merge, Begin
    <2> QED BY <2>2 DEF StepOf
  <1>2. CASE ValidateFlow(c)
    <2>1. req[c].op = "validate" /\ req' = [req EXCEPT ![c] = req'[c]]
          /\ DOMAIN req'[c] = DOMAIN req[c] /\ req'[c].op = "validate"
      BY <1>2 DEF ValidateFlow, Blocking, Formed
    <2> QED BY <2>1 DEF StepOf, Blocking, Formed, Apart
  <1>3. CASE ValidateEnd(c)
    BY <1>3 DEF ValidateEnd, Proceed, StepOf, Blocking, Formed, Apart
  <1> QED BY <1>1, <1>2, <1>3 DEF Validation

\* Nor a scan.
LEMMA ScanStep ==
    ASSUME Blocking, NEW c \in Client, Scan(c)
    PROVE  StepOf(c)
  <1>1. CASE RunScan(c)
    <2>1. PICK r, R : req' = [req EXCEPT ![c] = Merge(Begin("scan", <<>>),
                  [id |-> scanSeq + 1, framework |-> r, results |-> {}, rules |-> R])]
      BY <1>1 DEF RunScan, Receive
    <2>2. req' = [req EXCEPT ![c] = req'[c]] /\ Formed(req'[c]) /\ Apart(c)
      BY <2>1 DEF Blocking, Formed, Apart, Merge, Begin
    <2> QED BY <2>2 DEF StepOf
  <1>2. CASE SchedulerScan(c)
    <2>1. PICK r, R : req' = [req EXCEPT ![c] = Merge(Begin("scan", <<>>),
                  [id |-> scanSeq + 1, framework |-> r, results |-> {}, rules |-> R])]
      BY <1>2 DEF SchedulerScan, Receive
    <2>2. req' = [req EXCEPT ![c] = req'[c]] /\ Formed(req'[c]) /\ Apart(c)
      BY <2>1 DEF Blocking, Formed, Apart, Merge, Begin
    <2> QED BY <2>2 DEF StepOf
  <1>3. CASE ScanRule(c)
    <2>1. PICK a, b : req' = [req EXCEPT ![c].rules = @ \ {a}, ![c].results = @ \cup b]
      BY <1>3 DEF ScanRule, Scanned
    <2>2. req[c].op = "scan" BY <1>3 DEF ScanRule, Scanned
    <2>3. req' = [req EXCEPT ![c] = req'[c]]
          /\ DOMAIN req'[c] = DOMAIN req[c] /\ req'[c].op = "scan" /\ req'[c].todo = req[c].todo
      BY <2>1, <2>2 DEF Blocking, Formed
    <2> QED BY <2>2, <2>3 DEF StepOf, Blocking, Formed, Apart
  <1>4. CASE ScanCanceled(c)
    BY <1>4 DEF ScanCanceled, Idle, StepOf, Blocking, Formed, Apart
  <1>5. CASE storeScanResults(c)
    <2>1. PICK todo, R : req' = [req EXCEPT ![c] = Merge(Proceed(c, "scanned", todo), [results |-> R, storing |-> {}])]
      BY <1>5 DEF storeScanResults
    <2> QED BY <2>1 DEF Proceed, Merge, StepOf, Blocking, Formed, Apart
  <1>6. CASE StoreNext(c)
    <2>1. req[c].op = "scanned" /\ req' = [req EXCEPT ![c] = req'[c]]
          /\ DOMAIN req'[c] = DOMAIN req[c] /\ req'[c].op = "scanned"
      BY <1>6 DEF StoreNext, Blocking, Formed
    <2> QED BY <2>1 DEF StepOf, Blocking, Formed, Apart
  <1> QED BY <1>1, <1>2, <1>3, <1>4, <1>5, <1>6 DEF Scan

\* All findings are read, or are among those that are not.
LEMMA EdgesReadStep ==
    ASSUME Blocking, NEW c \in Client, req[c].op = "signoff", NEW hidden, EdgesRead(c, hidden)
    PROVE  StepOf(c)
  <1>1. req' = [req EXCEPT ![c] = req'[c]] /\ Formed(req'[c])
        /\ req'[c].op = "signoff" /\ req'[c].insp = req[c].insp
        /\ req'[c].unread = Findings(G, req[c].insp) \ hidden /\ req'[c].unseen = hidden
    BY DEF EdgesRead, Blocking, Formed
  <1> QED BY <1>1 DEF StepOf, Read, EdgesRead, graph

\* A sign-off begins, reads the edges, passes findings that are not open, and
\* ends by being refused or by going on to write.
LEMMA InspectStep ==
    ASSUME Blocking, NEW c \in Client, Inspect(c)
    PROVE  StepOf(c)
  <1>1. CASE CreateInspection(c) BY <1>1, HandleStep DEF CreateInspection
  <1>2. CASE CreateFinding(c) BY <1>2, HandleStep DEF CreateFinding
  <1>3. CASE CreateRemediation(c) BY <1>3, HandleStep DEF CreateRemediation
  <1>4. CASE SignOffInspection(c)
    <2>1. PICK i, l, a : /\ req[c].op = "idle"
                         /\ req' = [req EXCEPT ![c] = Merge(Begin("signoff", <<>>),
                               [pc |-> "edges", insp |-> i, label |-> l, approver |-> a,
                                unread |-> {}, unseen |-> {}])]
      BY <1>4 DEF SignOffInspection, Receive
    <2>2. req' = [req EXCEPT ![c] = req'[c]] /\ Formed(req'[c]) /\ Begun(c)
      BY <2>1 DEF Blocking, Formed, Begun, Merge, Begin
    <2> QED BY <2>2 DEF StepOf
  <1>5. CASE SignOffEdges(c)
    <2>1. req[c].op = "signoff" /\ EdgesRead(c, {})
      BY <1>5 DEF SignOffEdges
    <2> QED BY <2>1, EdgesReadStep
  <1>6. CASE SignOffCheck(c)
    <2>1. PICK f \in req[c].unread :
             req' = IF IsOpen(G, f) THEN [req EXCEPT ![c] = Idle]
                    ELSE [req EXCEPT ![c].unread = @ \ {f}]
      BY <1>6 DEF SignOffCheck
    <2>2. CASE IsOpen(G, f)
      BY <2>1, <2>2 DEF Idle, StepOf, Blocking, Formed, Apart
    <2>3. CASE ~IsOpen(G, f)
      <3>1. req' = [req EXCEPT ![c] = req'[c]] /\ Formed(req'[c])
            /\ req'[c].op = "signoff" /\ req'[c].unread = req[c].unread \ {f}
            /\ req'[c].unseen = req[c].unseen
        BY <1>6, <2>1, <2>3 DEF SignOffCheck, Blocking, Formed
      <3> QED BY <1>6, <2>3, <3>1 DEF StepOf, Passed, SignOffCheck, graph
    <2> QED BY <2>2, <2>3
  <1>7. CASE SignOffWrite(c)
    <2>1. PICK todo : req' = [req EXCEPT ![c] = Proceed(c, "signing", todo)]
      BY <1>7 DEF SignOffWrite
    <2> QED BY <2>1 DEF Proceed, StepOf, Blocking, Formed, Apart
  <1> QED BY <1>1, <1>2, <1>3, <1>4, <1>5, <1>6, <1>7 DEF Inspect

\* A request that makes a call is not at a sign-off: that one has none to make.
LEMMA CallStep ==
    ASSUME Blocking, NEW c \in Client,
           GraphCall(c) \/ CallFails(c) \/ UpsertUnread(c) \/ Answer(c)
    PROVE  StepOf(c)
  <1>1. CASE Calling(c) /\ \/ req' = [req EXCEPT ![c] = Called(c)]
                           \/ req' = [req EXCEPT ![c] = [Called(c) EXCEPT !.todo = <<>>]]
                           \/ \E x, id : req' = [req EXCEPT ![c] = [Called(c) EXCEPT !.regs[x] = id]]
                           \/ req' = [req EXCEPT ![c] = Idle]
    <2>1. req[c].op \notin {"idle", "signoff", "scan"}
      BY <1>1 DEF Calling, Blocking, Formed
    <2>2. req' = [req EXCEPT ![c] = req'[c]]
      BY <1>1 DEF Blocking
    <2>3. CASE req'[c] = Idle
      BY <2>2, <2>3 DEF Idle, StepOf, Formed, Apart
    <2>4. CASE req'[c] # Idle
      <3>0. PICK r : r = Called(c) OBVIOUS
      <3>a. DOMAIN r = DOMAIN req[c] /\ r.op = req[c].op /\ {"op", "todo", "regs"} \subseteq DOMAIN r
        BY <2>1, <3>0 DEF Called, Blocking, Formed
      <3>b. \/ req'[c] = r
            \/ req'[c] = [r EXCEPT !.todo = <<>>]
            \/ \E x, id : req'[c] = [r EXCEPT !.regs[x] = id]
        <4>1. CASE \E x, id : req' = [req EXCEPT ![c] = [Called(c) EXCEPT !.regs[x] = id]]
          <5>1. PICK x, id : req' = [req EXCEPT ![c] = [Called(c) EXCEPT !.regs[x] = id]]
            BY <4>1
          <5>2. req'[c] = [r EXCEPT !.regs[x] = id]
            BY <3>0, <5>1 DEF Blocking
          <5> QED BY <5>2
        <4> QED BY <1>1, <2>4, <3>0, <4>1 DEF Blocking
      <3>1. DOMAIN req'[c] = DOMAIN req[c] /\ req'[c].op = req[c].op
        BY <3>a, <3>b
      <3> QED BY <2>1, <2>2, <3>1 DEF StepOf, Blocking, Formed, Apart
    <2> QED BY <2>3, <2>4
  <1>2. CASE GraphCall(c)
    BY <1>1, <1>2 DEF GraphCall, NodeCall, EdgeCall, Upsert, DeleteCall
  <1>3. CASE CallFails(c)
    BY <1>1, <1>3 DEF CallFails
  <1>4. CASE UpsertUnread(c)
    BY <1>1, <1>4 DEF UpsertUnread, Upsert
  <1>5. CASE Answer(c)
    BY <1>5 DEF Answer, Idle, StepOf, Blocking, Formed, Apart
  <1> QED BY <1>2, <1>3, <1>4, <1>5

\* Nor does a failing read start one, or let it pass a finding as not open.
LEMMA FaultStep ==
    ASSUME Blocking, NEW c \in Client, Fault(c)
    PROVE  StepOf(c)
  <1>1. CASE CallFails(c) \/ UpsertUnread(c) BY <1>1, CallStep
  <1>2. CASE SingletonUnread(c) BY <1>2, HandleStep DEF SingletonUnread, Singleton
  <1>3. CASE RuleFails(c)
    <2>1. PICK a, b : req' = [req EXCEPT ![c].rules = @ \ {a}, ![c].results = @ \cup b]
      BY <1>3 DEF RuleFails, Scanned
    <2>2. req[c].op = "scan" BY <1>3 DEF RuleFails, Scanned
    <2>3. req' = [req EXCEPT ![c] = req'[c]]
          /\ DOMAIN req'[c] = DOMAIN req[c] /\ req'[c].op = "scan" /\ req'[c].todo = req[c].todo
      BY <2>1, <2>2 DEF Blocking, Formed
    <2> QED BY <2>2, <2>3 DEF StepOf, Blocking, Formed, Apart
  <1>4. CASE SignOffEdgesUnread(c)
    BY <1>4, EdgesReadStep DEF SignOffEdgesUnread
  <1>5. CASE SignOffCheckUnread(c)
    <2>1. PICK f \in req[c].unread : req' = [req EXCEPT ![c].unread = @ \ {f}, ![c].unseen = @ \cup {f}]
      BY <1>5 DEF SignOffCheckUnread
    <2>2. req' = [req EXCEPT ![c] = req'[c]] /\ Formed(req'[c])
          /\ req'[c].op = "signoff" /\ req'[c].unread = req[c].unread \ {f}
          /\ req'[c].unseen = req[c].unseen \cup {f}
      BY <1>5, <2>1 DEF SignOffCheckUnread, Blocking, Formed
    <2> QED BY <1>5, <2>2 DEF StepOf, Passed, SignOffCheckUnread, graph
  <1> QED BY <1>1, <1>2, <1>3, <1>4, <1>5 DEF Fault

\* Every step of every client keeps it.
LEMMA BlockingStep ==
    ASSUME Blocking, [Next]_vars
    PROVE  Blocking'
  <1>1. CASE UNCHANGED vars
    BY <1>1 DEF vars, Blocking, graph, history
  <1>2. CASE Next
    <2>1. PICK d \in Client \cup {NoNode} :
             (d \in Client /\ StepOf(d)) \/ UNCHANGED req
      BY <1>2, RegisterStep, ValidationStep, ScanStep, InspectStep, CallStep, FaultStep DEF Next, Tick
    <2>2. req' = [c \in Client |-> req'[c]]
      BY <2>1 DEF Blocking, StepOf
    <2>3. ASSUME NEW c \in Client
          PROVE  Formed(req'[c]) /\ (Apart(c) \/ Begun(c) \/ Kept(c) \/ Read(c) \/ Passed(c))
      <3>1. CASE UNCHANGED req
        BY <3>1 DEF Kept, Blocking
      <3>2. CASE d \in Client /\ d # c /\ StepOf(d)
        BY <3>2 DEF StepOf, Kept, Blocking
      <3>3. CASE d = c /\ StepOf(d)
        BY <3>3 DEF StepOf
      <3> QED BY <2>1, <3>1, <3>2, <3>3
    <2>4. ASSUME NEW c \in Client, req'[c].op = "signoff", req'[c].pc = "check"
          PROVE  held'[c] \subseteq req'[c].unread \cup req'[c].unseen
      <3>1. held'[c] = IF req[c].op # "signoff" THEN OpenFindings(G, req'[c].insp)
                       ELSE held[c] \cap OpenFindings(G', req'[c].insp)
        BY <1>2, <2>4 DEF Next, Track
      <3>2. CASE Kept(c)
        BY <2>4, <3>1, <3>2 DEF Kept, Blocking
      <3>3. CASE Read(c)
        BY <3>1, <3>3 DEF Read, OpenFindings, G
      <3>4. CASE Passed(c)
        BY <2>4, <3>1, <3>4 DEF Passed, OpenFindings, G, Blocking
      <3> QED BY <2>3, <2>4, <3>2, <3>3, <3>4 DEF Apart, Begun
    <2> QED BY <2>2, <2>3, <2>4 DEF Blocking
  <1> QED BY <1>1, <1>2

\* compliance_inspection.go, handleSignOffInspection: whatever is created, closed,
\* reopened and deleted meanwhile, a sign-off goes on to write only when every finding
\* of its inspection that has been open ever since it began is one whose read failed.
THEOREM SignOffBlocked == Spec => []OpenFindingsBlockSignOff
  <1>1. Init => Blocking
    BY DEF Init, Idle, Blocking, Formed
  <1>2. Blocking /\ [Next]_vars => Blocking'
    BY BlockingStep
  <1>3. Blocking => OpenFindingsBlockSignOff
    BY DEF Blocking, OpenFindingsBlockSignOff
  <1> QED BY <1>1, <1>2, <1>3, PTL DEF Spec

-----------------------------------------------------------------------------
(* Two implementations of the same checks.                                    *)

\* dataflow.go and rules_dataflow.go: on every graph, the validation of a flow and
\* the rules of a scan come to the same verdict on FLOW-001, 002, 003 and 005.
THEOREM ValidationAgrees == Spec => []ScanAgreesWithValidation
  <1>1. ScanAgreesWithValidation
    <2>1. ASSUME NEW f \in NodesByLabel(G, "DataFlow"), NEW k \in FlowChecks(G, f), k[1] # "FLOW-004"
          PROVE  \/ Result(f, k[2]) \in Evaluate(k[1], G, now)
                 \/ k[2] = "na" /\ \A r \in Evaluate(k[1], G, now) : r.node # f
      <3> DEFINE ok(b) == IF b THEN "pass" ELSE "fail"
      <3>1. CASE k = <<"FLOW-001", ok(HasEdgeLabel(G, f, "CARRIES"))>>
        <4>1. Evaluate(k[1], G, now) = checkHasEdge(G, "DataFlow", "CARRIES")
          BY <3>1 DEF Evaluate
        <4> QED BY <3>1, <4>1 DEF checkHasEdge, Judged
      <3>2. CASE k = <<"FLOW-002", ok(HasEdgeLabel(G, f, "GOVERNED_BY"))>>
        <4>1. Evaluate(k[1], G, now) = checkHasEdge(G, "DataFlow", "GOVERNED_BY")
          BY <3>2 DEF Evaluate
        <4> QED BY <3>2, <4>1 DEF checkHasEdge, Judged
      <3>3. CASE k = <<"FLOW-003", IF Prop(G, f, "transferType") = "international"
                                   THEN ok(Prop(G, f, "safeguard") # "") ELSE "na">>
        <4>1. Evaluate(k[1], G, now) = gdprFlow003(G)
          BY <3>3 DEF Evaluate
        <4>2. CASE Prop(G, f, "transferType") = "international"
          BY <3>3, <4>1, <4>2 DEF gdprFlow003, Judged
        <4>3. CASE Prop(G, f, "transferType") # "international"
          <5>1. k[2] = "na" BY <3>3, <4>3
          <5>2. ASSUME NEW r \in gdprFlow003(G) PROVE r.node # f
            <6>1. PICK n : Prop(G, n, "transferType") = "international" /\ \E v : r = [node |-> n, status |-> v]
              BY DEF gdprFlow003, Judged, Result
            <6>2. n # f BY <4>3, <6>1
            <6> QED BY <6>1, <6>2
          <5> QED BY <4>1, <5>1, <5>2
        <4> QED BY <4>2, <4>3
      <3>4. \/ k = <<"FLOW-001", ok(HasEdgeLabel(G, f, "CARRIES"))>>
            \/ k = <<"FLOW-002", ok(HasEdgeLabel(G, f, "GOVERNED_BY"))>>
            \/ k = <<"FLOW-003", IF Prop(G, f, "transferType") = "international"
                                 THEN ok(Prop(G, f, "safeguard") # "") ELSE "na">>
            \/ \E v : k = <<"FLOW-004", v>>
        BY <2>1 DEF FlowChecks
      <3>5. ~(\E v : k = <<"FLOW-004", v>>)
        BY <2>1
      <3> QED BY <3>1, <3>2, <3>3, <3>4, <3>5
    <2>2. {n \in ActiveActivities(G) : Result(n, "warning") \in gdprFlow005(G)} = UncoveredActivities(G)
      BY DEF gdprFlow005, UncoveredActivities, Result
    <2> QED BY <2>1, <2>2 DEF ScanAgreesWithValidation
  <1> QED BY <1>1, PTL

\* Only Tick moves the clock.
LEMMA ClockStep ==
    ASSUME Next
    PROVE  now' = now \/ now' \in Instants
  <1>1. CASE Tick BY <1>1 DEF Tick
  <1>2. ASSUME NEW c \in Client, Register(c) PROVE now' = now
    BY <1>2 DEF Register, GDPRCreate, GDPRCreateWithEdges, GDPRUpsertSingleton, Singleton, Update, Delete,
        PostEdge, DataFlowCreate, Handle, Receive
  <1>3. ASSUME NEW c \in Client, Validation(c) PROVE now' = now
    BY <1>3 DEF Validation, ValidateDataFlows, ValidateFlow, ValidateEnd, Receive
  <1>4. ASSUME NEW c \in Client, Scan(c) PROVE now' = now
    BY <1>4 DEF Scan, RunScan, SchedulerScan, ScanRule, Scanned, ScanCanceled, storeScanResults, StoreNext, Receive
  <1>5. ASSUME NEW c \in Client, Inspect(c) PROVE now' = now
    BY <1>5 DEF Inspect, CreateInspection, CreateFinding, CreateRemediation, SignOffInspection,
        SignOffEdges, EdgesRead, SignOffCheck, SignOffWrite, Handle, Receive
  <1>6. ASSUME NEW c \in Client, GraphCall(c) \/ Answer(c) PROVE now' = now
    BY <1>6 DEF GraphCall, Answer
  <1>7. ASSUME NEW c \in Client, Fault(c) PROVE now' = now
    BY <1>7 DEF Fault, CallFails, UpsertUnread, SingletonUnread, Singleton, RuleFails, Scanned,
        SignOffEdgesUnread, EdgesRead, SignOffCheckUnread, Handle, Receive
  <1> QED BY <1>1, <1>2, <1>3, <1>4, <1>5, <1>6, <1>7 DEF Next

\* The clock is a number.
LEMMA ClockInt == Spec => [](now \in Int)
  <1>1. Init => now \in Int BY DEF Init
  <1>2. ASSUME now \in Int, [Next]_vars PROVE (now \in Int)'
    <2>1. now' = now \/ now' \in Instants BY <1>2, ClockStep DEF vars
    <2>2. CASE now' = now BY <1>2, <2>2
    <2>3. CASE now' \in Instants
      <3>1. now' \in Nat BY <2>3, InstantsAssumption
      <3> QED BY <3>1
    <2> QED BY <2>1, <2>2, <2>3
  <1> QED BY <1>1, <1>2, PTL DEF Spec

\* Whole days, cut off towards zero: fewer than none are left only when the time is
\* over by a day or more.
LEMMA DaysLeftNegative ==
    ASSUME NEW h \in Int
    PROVE  DaysLeft(h) < 0 <=> h <= -24
  <1>1. CASE h >= 0
    <2>1. h \div 24 >= 0 BY <1>1
    <2> QED BY <1>1, <2>1 DEF DaysLeft
  <1>2. CASE h < 0
    <2> DEFINE m == -h
    <2>1. m \in Nat /\ DaysLeft(h) = -(m \div 24)
      BY <1>2 DEF DaysLeft
    <2>2. m \div 24 \in Nat /\ (m \div 24 > 0 <=> m >= 24)
      BY <2>1
    <2> HIDE DEF m
    <2>3. DaysLeft(h) < 0 <=> m \div 24 > 0
      BY <2>1, <2>2
    <2> QED BY <2>2, <2>3 DEF m
  <1> QED BY <1>1, <1>2

\* Seen from a deadline t at time n.
LEMMA LateByADay ==
    ASSUME NEW t \in Int, NEW n \in Int
    PROVE  \/ n - t < 24 /\ ~(DaysLeft(t - n) < 0)
           \/ n > t /\ DaysLeft(t - n) < 0
  <1>1. DaysLeft(t - n) < 0 <=> t - n <= -24 BY DaysLeftNegative
  <1> QED BY <1>1

\* compliance_gdpr.go, handleDSRSLA, and rules_gdpr.go, DSR-001: for every request,
\* deadline and time of day, what the page calls overdue fails the rule, and what
\* only the rule calls late is late by less than a day.
THEOREM SLAPageAgrees == Spec => []SLAAgrees
  <1>1. ASSUME now \in Int PROVE SLAAgrees
    <2> SUFFICES ASSUME NEW x \in DSRSLA(G, now)
                 PROVE  /\ x.overdue => Result(x.node, "fail") \in gdprDSR001(G, now)
                        /\ Result(x.node, "fail") \in gdprDSR001(G, now) /\ ~x.overdue =>
                              now - TimeOf[Prop(G, x.node, "deadline")] < 24
      BY DEF SLAAgrees
    <2> DEFINE S == NodesByLabel(G, "DataSubjectRequest")
    <2>1. PICK n \in S : /\ ~Done(G, n)
                          /\ x = [node |-> n,
                                  overdue |-> /\ Prop(G, n, "deadline") \in DOMAIN TimeOf
                                              /\ DaysLeft(TimeOf[Prop(G, n, "deadline")] - now) < 0]
      BY DEF DSRSLA
    <2> DEFINE d == Prop(G, n, "deadline")
    <2>2. Result(n, "fail") \in gdprDSR001(G, now) <=> d # "" /\ d \in DOMAIN TimeOf /\ now > TimeOf[d]
      <3>1. Result(n, "fail") \in gdprDSR001(G, now)
            <=> Result(n, "fail") \in ByDeadline(G, S \ {m \in S : Done(G, m)}, "deadline", now)
        BY DEF gdprDSR001, Result
      <3>2. Result(n, "fail") \in ByDeadline(G, S \ {m \in S : Done(G, m)}, "deadline", now)
            <=> d # "" /\ Overdue(G, n, "deadline", now)
        BY <2>1 DEF ByDeadline, Result, Overdue
      <3> QED BY <3>1, <3>2 DEF Overdue
    <2>3. x.node = n /\ (x.overdue <=> d \in DOMAIN TimeOf /\ DaysLeft(TimeOf[d] - now) < 0)
      BY <2>1
    <2>4. CASE d \notin DOMAIN TimeOf
      BY <2>2, <2>3, <2>4
    <2>5. CASE d \in DOMAIN TimeOf
      <3>1. d # "" /\ TimeOf[d] \in Int
        BY <2>5, TimeAssumption
      <3>2. x.overdue <=> DaysLeft(TimeOf[d] - now) < 0
        BY <2>3, <2>5
      <3>3. Result(n, "fail") \in gdprDSR001(G, now) <=> now > TimeOf[d]
        BY <2>2, <2>5, <3>1
      <3>4. \/ now - TimeOf[d] < 24 /\ ~(DaysLeft(TimeOf[d] - now) < 0)
            \/ now > TimeOf[d] /\ DaysLeft(TimeOf[d] - now) < 0
        BY <1>1, <3>1, LateByADay
      <3> QED BY <2>3, <3>2, <3>3, <3>4
    <2> QED BY <2>4, <2>5
  <1> QED BY <1>1, ClockInt, PTL

-----------------------------------------------------------------------------
(* Lists.                                                                    *)

\* The first of a set of nodes is one of them.
LEMMA FirstIn ==
    ASSUME NEW S, S # {}
    PROVE  First(S) \in S
  BY DEF First

\* The images of finitely many elements are finitely many.
LEMMA FiniteImage ==
    ASSUME NEW S, IsFiniteSet(S), NEW f, DOMAIN f = S
    PROVE  IsFiniteSet({f[x] : x \in S})
  <1> DEFINE T == {f[x] : x \in S}
             g == [x \in S |-> f[x]]
  <1>1. g \in Surjection(S, T)
    BY DEF Surjection
  <1> QED BY <1>1, FS_Surjection

\* The list of a finite set is a sequence of its elements, all of them.
LEMMA ListOfSet ==
    ASSUME NEW S, IsFiniteSet(S)
    PROVE  SetToSeq(S) \in Seq(S) /\ \A x \in S : \E i \in DOMAIN SetToSeq(S) : SetToSeq(S)[i] = x
  <1> DEFINE k == Cardinality(S)
  <1>1. k \in Nat /\ ExistsBijection(1..k, S)
    BY FS_CardinalityType
  <1>2. \E f \in [1..k -> S] : IsInjective(f)
    BY <1>1 DEF ExistsBijection, Bijection, Injection
  <1> DEFINE l == SetToSeq(S)
  <1>3. l \in [1..k -> S] /\ IsInjective(l)
    BY <1>2 DEF SetToSeq
  <1>4. l \in Injection(1..k, S)
    BY <1>3 DEF Injection, IsInjective
  <1>5. Cardinality(1..k) = k
    <2> HIDE DEF k
    <2> QED BY <1>1, FS_Interval
  <1> HIDE DEF l
  <1>6. l \in Surjection(1..k, S)
    BY <1>4, <1>5, FS_Injection
  <1> HIDE DEF k
  <1>7. l \in Seq(S) /\ \A x \in S : \E i \in DOMAIN l : l[i] = x
    BY <1>1, <1>3, <1>6 DEF Surjection
  <1> QED BY <1>7 DEF l


-----------------------------------------------------------------------------
(* The graph that the process starts with, and the type invariant.            *)

\* EnsureFrameworkNodes leaves a graph well kept; what it adds or replaces are the
\* nodes of frameworks and rules and the edges between them.
LEMMA SeededKept ==
    LET h == EnsureFrameworkNodes(Seeded)
    IN  /\ WellKept(h.nodes, h.edges)
        /\ DOMAIN Seeded.nodes \subseteq DOMAIN h.nodes
        /\ \A n \in DOMAIN h.nodes :
              \/ n \in DOMAIN Seeded.nodes /\ h.nodes[n] = Seeded.nodes[n]
              \/ /\ n[1] \in {"ComplianceFramework", "ComplianceRule"} /\ h.nodes[n].label = n[1]
                 /\ \E k \in {"name", "ruleId"} : \E v : h.nodes[n].props = Map(k, v)
        /\ \A e \in h.edges : e \in Seeded.edges \/ e.label = "DEFINES_RULE"
  <1> DEFINE g == Seeded
             fwSet == {fw \in {r.framework : r \in Rules} : Having(g, "ComplianceFramework", "name", fw) = {}}
             ruSet == {r \in Rules : Having(g, "ComplianceRule", "ruleId", r.id) = {}}
             fws   == SetToSeq(fwSet)
             rules == SetToSeq(ruSet)
             fwNodes == {<<"ComplianceFramework", i>> : i \in DOMAIN fws}
             ruNodes == {<<"ComplianceRule", i>> : i \in DOMAIN rules}
             h == EnsureFrameworkNodes(Seeded)
  <1>1. WellKept(g.nodes, g.edges) /\ IsFiniteSet(Rules) BY SeededAssumption
  <1>2. IsFiniteSet(fwSet) /\ IsFiniteSet(ruSet)
    <2> DEFINE f == [r \in Rules |-> r.framework]
               F == {r.framework : r \in Rules}
    <2>1. F = {f[r] : r \in Rules} /\ DOMAIN f = Rules OBVIOUS
    <2>2. IsFiniteSet(F)
      <3> HIDE DEF f
      <3> QED BY <1>1, <2>1, FiniteImage
    <2>3. fwSet \in SUBSET F /\ ruSet \in SUBSET Rules OBVIOUS
    <2> HIDE DEF F, fwSet, ruSet
    <2> QED BY <1>1, <2>2, <2>3, FS_Subset
  <1>3. IsFiniteSet(DOMAIN fws) /\ IsFiniteSet(DOMAIN rules)
    <2> HIDE DEF fwSet, ruSet
    <2>1. ASSUME NEW S, NEW l \in Seq(S)
          PROVE  IsFiniteSet(DOMAIN l)
      <3>1. DOMAIN l = 1..Len(l) /\ Len(l) \in Nat OBVIOUS
      <3>2. IsFiniteSet(1..Len(l)) BY <3>1, FS_Interval
      <3> QED BY <3>1, <3>2
    <2>2. fws \in Seq(fwSet) /\ rules \in Seq(ruSet) BY <1>2, ListOfSet
    <2> HIDE DEF fws, rules
    <2> QED BY <2>1, <2>2
  <1> HIDE DEF fws, rules
  <1>4. IsFiniteSet(fwNodes) /\ IsFiniteSet(ruNodes)
    <2> DEFINE ff == [i \in DOMAIN fws |-> <<"ComplianceFramework", i>>]
               fr == [i \in DOMAIN rules |-> <<"ComplianceRule", i>>]
    <2>1. /\ fwNodes = {ff[i] : i \in DOMAIN fws} /\ DOMAIN ff = DOMAIN fws
          /\ ruNodes = {fr[i] : i \in DOMAIN rules} /\ DOMAIN fr = DOMAIN rules
      OBVIOUS
    <2> HIDE DEF ff, fr
    <2> QED BY <1>3, <2>1, FiniteImage
  <1> DEFINE added == [n \in DOMAIN g.nodes \cup fwNodes \cup ruNodes |->
                    CASE n \in fwNodes -> [label |-> n[1], props |-> Map("name", fws[n[2]])]
                      [] n \in ruNodes -> [label |-> n[1], props |-> Map("ruleId", rules[n[2]].id)]
                      [] OTHER -> g.nodes[n]]
             fwOf(r) == Having([nodes |-> added], "ComplianceFramework", "name", r.framework)
             linked == {n \in ruNodes : fwOf(rules[n[2]]) # {}}
             ids == {<<"DEFINES_RULE", n[2]>> : n \in linked}
             E == {[id |-> <<"DEFINES_RULE", n[2]>>, label |-> "DEFINES_RULE",
                    from |-> First(fwOf(rules[n[2]])), to |-> n] : n \in linked}
             old == {e \in g.edges : e.id \notin ids}
  <1>5. h = [nodes |-> added, edges |-> old \cup E]
    BY DEF EnsureFrameworkNodes, fws, rules
  <1>6. fwNodes \cap ruNodes = {} OBVIOUS
  <1>7. /\ \A n \in fwNodes \cup ruNodes : n[1] \in {"ComplianceFramework", "ComplianceRule"}
        /\ \A n \in ruNodes : n = <<"ComplianceRule", n[2]>>
    OBVIOUS
  <1>8. \A n \in linked : First(fwOf(rules[n[2]])) \in DOMAIN added
    <2> SUFFICES ASSUME NEW n \in linked PROVE First(fwOf(rules[n[2]])) \in DOMAIN added OBVIOUS
    <2> DEFINE N == fwOf(rules[n[2]])
    <2>1. N # {} OBVIOUS
    <2>2. N \subseteq DOMAIN added
      <3> HIDE DEF added
      <3> QED BY DEF Having, NodesByLabel
    <2> HIDE DEF N
    <2>3. First(N) \in N BY <2>1, FirstIn
    <2> QED BY <2>2, <2>3 DEF N
  <1>9. \A e \in E : /\ DOMAIN e = {"id", "label", "from", "to"} /\ e.label = "DEFINES_RULE"
                     /\ {e.from, e.to} \subseteq DOMAIN added /\ e.id \in ids
                     /\ \A f \in E : e.id = f.id => e = f
    <2> SUFFICES ASSUME NEW e \in E
                 PROVE  /\ DOMAIN e = {"id", "label", "from", "to"} /\ e.label = "DEFINES_RULE"
                        /\ {e.from, e.to} \subseteq DOMAIN added /\ e.id \in ids
                        /\ \A f \in E : e.id = f.id => e = f
      OBVIOUS
    <2> HIDE DEF fwOf, ruNodes
    <2>1. PICK n \in linked : e = [id |-> <<"DEFINES_RULE", n[2]>>, label |-> "DEFINES_RULE",
                                   from |-> First(fwOf(rules[n[2]])), to |-> n]
      OBVIOUS
    <2>2. ASSUME NEW f \in E, e.id = f.id PROVE e = f
      <3>1. PICK m \in linked : f = [id |-> <<"DEFINES_RULE", m[2]>>, label |-> "DEFINES_RULE",
                                     from |-> First(fwOf(rules[m[2]])), to |-> m]
        OBVIOUS
      <3>2. n[2] = m[2] BY <2>1, <2>2, <3>1
      <3>3. n = m BY <1>7, <3>2
      <3> QED BY <2>1, <3>1, <3>3
    <2>3. n \in DOMAIN added
      <3> HIDE DEF fwNodes
      <3> QED OBVIOUS
    <2>4. First(fwOf(rules[n[2]])) \in DOMAIN added BY <1>8
    <2> HIDE DEF added
    <2> QED BY <2>1, <2>2, <2>3, <2>4
  <1>10. /\ DOMAIN added = DOMAIN g.nodes \cup (fwNodes \cup ruNodes)
         /\ \A n \in fwNodes \cup ruNodes :
               /\ DOMAIN added[n] = {"label", "props"} /\ added[n].label = n[1]
               /\ \E k \in {"name", "ruleId"} : \E v : added[n].props = Map(k, v)
         /\ \A n \in DOMAIN g.nodes \ (fwNodes \cup ruNodes) : added[n] = g.nodes[n]
    <2> HIDE DEF fwNodes, ruNodes
    <2> QED BY <1>6
  <1> HIDE DEF fwNodes, ruNodes, E, added, fwOf, linked, ids, h
  <1>11. IsFiniteSet(DOMAIN added)
    <2>1. IsFiniteSet(fwNodes \cup ruNodes) BY <1>4, FS_Union
    <2>2. IsFiniteSet(DOMAIN g.nodes) BY <1>1 DEF WellKept
    <2>3. IsFiniteSet(DOMAIN g.nodes \cup (fwNodes \cup ruNodes)) BY <2>1, <2>2, FS_Union
    <2> QED BY <1>10, <2>3
  <1>12. WellKept(added, old \cup E)
    <2>1. \A n \in DOMAIN added : DOMAIN added[n] = {"label", "props"}
      BY <1>1, <1>10 DEF WellKept
    <2>2. \A e \in old : DOMAIN e = {"id", "label", "from", "to"} /\ {e.from, e.to} \subseteq DOMAIN added
      BY <1>1, <1>10 DEF WellKept
    <2>3. \A e \in old, f \in old : e.id = f.id => e = f
      BY <1>1 DEF WellKept
    <2>4. \A e \in old, f \in E : e.id # f.id
      BY <1>9
    <2>5. \A e \in old \cup E, f \in old \cup E : e.id = f.id => e = f
      BY <1>9, <2>3, <2>4
    <2> QED BY <1>9, <1>11, <2>1, <2>2, <2>5 DEF WellKept
  <1>13. \A n \in DOMAIN added :
            \/ n \in DOMAIN Seeded.nodes /\ added[n] = Seeded.nodes[n]
            \/ /\ n[1] \in {"ComplianceFramework", "ComplianceRule"} /\ added[n].label = n[1]
               /\ \E k \in {"name", "ruleId"} : \E v : added[n].props = Map(k, v)
    BY <1>7, <1>10
  <1>14. h.nodes = added /\ h.edges = old \cup E BY <1>5
  <1>15. DOMAIN Seeded.nodes \subseteq DOMAIN added /\ \A e \in old \cup E : e \in Seeded.edges \/ e.label = "DEFINES_RULE"
    BY <1>9, <1>10
  <1> QED BY <1>12, <1>13, <1>14, <1>15 DEF h

\* What every step of a client does to the counters, the clock and, but for its calls,
\* to the graph.
CountersKept ==
    /\ now' = now /\ scanSeq' \in {scanSeq, scanSeq + 1}
    /\ requests' = requests \/ (requests' = requests + 1 /\ requests < MaxRequests)

LEMMA CountersMove ==
    ASSUME NEW c \in Client,
           \/ Register(c) \/ Validation(c) \/ Scan(c) \/ Inspect(c) \/ Answer(c)
           \/ SingletonUnread(c) \/ RuleFails(c) \/ SignOffEdgesUnread(c) \/ SignOffCheckUnread(c) \/ CallFails(c)
    PROVE  CountersKept /\ UNCHANGED <<graph, done>>
  <1>1. CASE Register(c)
    BY <1>1 DEF Register, GDPRCreate, GDPRCreateWithEdges, GDPRUpsertSingleton, Singleton, Update, Delete, PostEdge,
        DataFlowCreate, Handle, Receive, CountersKept, history
  <1>2. CASE Validation(c)
    BY <1>2 DEF Validation, ValidateDataFlows, ValidateFlow, ValidateEnd, Receive, CountersKept, history
  <1>3. CASE Scan(c)
    BY <1>3 DEF Scan, RunScan, SchedulerScan, ScanRule, Scanned, ScanCanceled, storeScanResults, StoreNext, Receive,
        CountersKept, history
  <1>4. CASE Inspect(c)
    BY <1>4 DEF Inspect, CreateInspection, CreateFinding, CreateRemediation, SignOffInspection, SignOffEdges,
        EdgesRead, SignOffCheck, SignOffWrite, Handle, Receive, CountersKept, history
  <1>5. CASE Answer(c) BY <1>5 DEF Answer, CountersKept, history
  <1>6. CASE SingletonUnread(c) BY <1>6 DEF SingletonUnread, Singleton, Handle, Receive, CountersKept, history
  <1>7. CASE RuleFails(c) BY <1>7 DEF RuleFails, Scanned, CountersKept, history
  <1>8. CASE SignOffEdgesUnread(c) BY <1>8 DEF SignOffEdgesUnread, EdgesRead, CountersKept, history
  <1>9. CASE SignOffCheckUnread(c) BY <1>9 DEF SignOffCheckUnread, CountersKept, history
  <1>10. CASE CallFails(c) BY <1>10 DEF CallFails, CountersKept
  <1> QED BY <1>1, <1>2, <1>3, <1>4, <1>5, <1>6, <1>7, <1>8, <1>9, <1>10

\* A node that is put in a graph may replace one; the edges keep their ends.
LEMMA PutKeeps ==
    ASSUME NEW N, NEW E, WellKept(N, E), NEW id, NEW r, DOMAIN r = {"label", "props"}
    PROVE  WellKept(Put(N, id, r), E)
  <1> DEFINE M == Put(N, id, r)
  <1>1. DOMAIN M = DOMAIN N \cup {id} BY DEF Put
  <1>2. IsFiniteSet(DOMAIN M) BY <1>1, FS_AddElement DEF WellKept
  <1>3. \A n \in DOMAIN M : M[n] = IF n = id THEN r ELSE N[n] BY DEF Put
  <1> HIDE DEF M
  <1>4. \A n \in DOMAIN M : DOMAIN M[n] = {"label", "props"}
    BY <1>1, <1>3 DEF WellKept
  <1>5. WellKept(M, E) BY <1>1, <1>2, <1>4 DEF WellKept
  <1> QED BY <1>5 DEF M

\* So does a graph in which an edge is added, or put in the place of another.
LEMMA NewEdgeKeeps ==
    ASSUME WellKept(nodes, edges), NEW c, NEW l, NEW f, NEW t, NewEdge(c, l, f, t)
    PROVE  WellKept(nodes, edges)'
  <1>1. CASE {f, t} \subseteq DOMAIN nodes
    <2>1. PICK id : /\ edges' = {e \in edges : e.id # id} \cup {[id |-> id, label |-> l, from |-> f, to |-> t]}
                    /\ nodes' = nodes
      BY <1>1 DEF NewEdge
    <2>2. PICK e : e = [id |-> id, label |-> l, from |-> f, to |-> t] OBVIOUS
    <2>3. /\ DOMAIN e = {"id", "label", "from", "to"} /\ e.id = id /\ {e.from, e.to} \subseteq DOMAIN nodes
          /\ edges' = {x \in edges : x.id # id} \cup {e}
      BY <1>1, <2>1, <2>2
    <2> QED BY <2>1, <2>3 DEF WellKept
  <1>2. CASE ~({f, t} \subseteq DOMAIN nodes)
    BY <1>2 DEF NewEdge, graph
  <1> QED BY <1>1, <1>2

\* Every call leaves the graph well kept.
LEMMA CallsKeep ==
    ASSUME WellKept(nodes, edges), NEW c \in Client, GraphCall(c) \/ UpsertUnread(c)
    PROVE  WellKept(nodes, edges)'
  <1>1. CASE NodeCall(c)
    <2>1. PICK id, l, p : nodes' = Put(nodes, id, [label |-> l, props |-> p]) /\ edges' = edges
      BY <1>1 DEF NodeCall
    <2> QED BY <2>1, PutKeeps
  <1>2. CASE EdgeCall(c)
    <2>1. \/ \E l, f, t : NewEdge(c, l, f, t)
          \/ nodes' = nodes /\ edges' = edges
      BY <1>2 DEF EdgeCall, graph
    <2> QED BY <2>1, NewEdgeKeeps
  <1>3. ASSUME NEW Seen \in SUBSET DOMAIN nodes, Upsert(c, Seen) PROVE WellKept(nodes, edges)'
    <2>1. PICK r : /\ r = IF Call(c).id \in Seen
                          THEN [nodes[Call(c).id] EXCEPT !.props = Merge(@, Call(c).props)]
                          ELSE [label |-> Call(c).label, props |-> Call(c).props]
                   /\ nodes' = Put(nodes, Call(c).id, r) /\ edges' = edges
      BY <1>3 DEF Upsert
    <2>2. DOMAIN r = {"label", "props"}
      BY <2>1 DEF WellKept
    <2> QED BY <2>1, <2>2, PutKeeps
  <1>4. CASE DeleteCall(c)
    <2>1. PICK id : /\ nodes' = [n \in DOMAIN nodes \ {id} |-> nodes[n]]
                    /\ edges' = {e \in edges : id \notin {e.from, e.to}}
      BY <1>4 DEF DeleteCall
    <2>2. IsFiniteSet(DOMAIN nodes') BY <2>1, FS_RemoveElement DEF WellKept
    <2> QED BY <2>1, <2>2 DEF WellKept
  <1> QED BY <1>1, <1>2, <1>3, <1>4 DEF GraphCall, UpsertUnread

\* So does every step.
LEMMA GraphKept ==
    ASSUME WellKept(nodes, edges), [Next]_vars
    PROVE  WellKept(nodes, edges)'
  <1>1. CASE UNCHANGED vars \/ Tick BY <1>1 DEF vars, graph, Tick
  <1>2. ASSUME NEW c \in Client, UNCHANGED graph PROVE WellKept(nodes, edges)'
    BY <1>2 DEF graph
  <1> QED BY <1>1, <1>2, CallsKeep, CountersMove DEF Next, Fault

\* storage/badger.go, graph.go and the handlers above them: an edge has both its ends and
\* an ID of its own, whatever is created, replaced, put back and deleted, by any clients,
\* with any IDs they name, and on any graph an earlier life has left.
THEOREM TypeCorrect == Spec => []TypeOK
  <1>1. Init => TypeOK
    <2> SUFFICES ASSUME Init PROVE TypeOK OBVIOUS
    <2>1. WellKept(nodes, edges) BY SeededKept DEF Init
    <2> QED BY <2>1, InstantsAssumption DEF Init, TypeOK
  <1>2. ASSUME TypeOK, [Next]_vars PROVE TypeOK'
    <2>1. CASE UNCHANGED vars BY <1>2, <2>1 DEF vars, graph, TypeOK
    <2>2. CASE Next
      <3>1. faults' \in 0..MaxFaults
        BY <1>2, <2>2, InstantsAssumption DEF Next, TypeOK
      <3>2. CASE Tick
        <4>1. now' \in Nat BY <3>2, InstantsAssumption DEF Tick
        <4> QED BY <1>2, <3>1, <3>2, <4>1 DEF Tick, TypeOK, graph
      <3>3. ASSUME NEW c \in Client, CountersKept, UNCHANGED graph PROVE TypeOK'
        BY <1>2, <3>1, <3>3, InstantsAssumption DEF TypeOK, CountersKept, graph
      <3>4. ASSUME NEW c \in Client, GraphCall(c) \/ UpsertUnread(c) PROVE TypeOK'
        <4>1. WellKept(nodes, edges)' BY <1>2, <3>4, CallsKeep DEF TypeOK
        <4> QED BY <1>2, <3>1, <3>4, <4>1 DEF TypeOK, GraphCall, UpsertUnread
      <3> QED BY <2>2, <3>2, <3>3, <3>4, CountersMove DEF Next, Fault
    <2> QED BY <1>2, <2>1, <2>2
  <1> QED BY <1>1, <1>2, PTL DEF Spec

-----------------------------------------------------------------------------
(* The lists of calls that requests have.                                     *)

Verdicts == {"pass", "fail", "warning", "na"}

\* What any rule says of anything.
LEMMA Verdict ==
    ASSUME NEW r, NEW H, NEW t, NEW x \in RuleResults(r, H, t)
    PROVE  x.status \in Verdicts
  <1> DEFINE Fine(R) == \A y \in R : y.status \in Verdicts
  <1>2. ASSUME NEW S, NEW k PROVE Fine(ByDeadline(H, S, k, t))
    <2> SUFFICES ASSUME NEW y \in ByDeadline(H, S, k, t) PROVE y.status \in Verdicts OBVIOUS
    <2>1. \E n : \E v \in Verdicts : y = [node |-> n, status |-> v]
      BY DEF ByDeadline, Result, Verdicts
    <2> QED BY <2>1
  <1>3. ASSUME NEW l, NEW e PROVE Fine(checkHasEdge(H, l, e))
    <2> SUFFICES ASSUME NEW y \in checkHasEdge(H, l, e) PROVE y.status \in Verdicts OBVIOUS
    <2>1. \E n : \E v \in Verdicts : y = [node |-> n, status |-> v]
      BY DEF checkHasEdge, Judged, Result, Verdicts
    <2> QED BY <2>1
  <1>1. ASSUME NEW l, NEW e PROVE Fine(checkPropertyNotEmpty(H, l, e))
    <2> SUFFICES ASSUME NEW y \in checkPropertyNotEmpty(H, l, e) PROVE y.status \in Verdicts OBVIOUS
    <2>1. \E n : \E v \in Verdicts : y = [node |-> n, status |-> v]
      BY DEF checkPropertyNotEmpty, Judged, Result, Verdicts
    <2> QED BY <2>1
  <1>4. Fine(gdprSetup001(H))
    <2> SUFFICES ASSUME NEW y \in gdprSetup001(H) PROVE y.status \in Verdicts OBVIOUS
    <2>1. \E n : \E v \in Verdicts : y = [node |-> n, status |-> v]
      BY DEF gdprSetup001, Result, Verdicts
    <2> QED BY <2>1
  <1>5. Fine(gdprDSR001(H, t))
    <2> SUFFICES ASSUME NEW y \in gdprDSR001(H, t) PROVE y.status \in Verdicts OBVIOUS
    <2>1. (\E n : y = [node |-> n, status |-> "pass"]) \/ \E S : y \in ByDeadline(H, S, "deadline", t)
      BY DEF gdprDSR001, Result
    <2> QED BY <1>2, <2>1 DEF Verdicts
  <1>6. Fine(gdprDSR002(H))
    <2> SUFFICES ASSUME NEW y \in gdprDSR002(H) PROVE y.status \in Verdicts OBVIOUS
    <2>1. \E n : \E v \in Verdicts : y = [node |-> n, status |-> v]
      BY DEF gdprDSR002, Judged, Result, Verdicts
    <2> QED BY <2>1
  <1>7. Fine(gdprBreach001(H))
    <2> SUFFICES ASSUME NEW y \in gdprBreach001(H) PROVE y.status \in Verdicts OBVIOUS
    <2>1. PICK n \in NodesByLabel(H, "DataBreach") :
             LET grave(m) == Prop(H, m, "severity") \in {"high", "critical"}
                 found(m) == Prop(H, m, "discoveredAt")
                 told(m)  == Prop(H, m, "authorityNotifiedAt")
             IN  y = Result(n, CASE ~grave(n) -> "pass"
                     [] grave(n) /\ told(n) = "" -> "fail"
                     [] grave(n) /\ told(n) # "" /\ ~({found(n), told(n)} \subseteq DOMAIN TimeOf \ DateOnly)
                            -> "warning"
                     [] OTHER -> IF TimeOf[told(n)] - TimeOf[found(n)] > 72 THEN "fail" ELSE "pass")
      BY DEF gdprBreach001
    <2> DEFINE f == Prop(H, n, "discoveredAt")
               u == Prop(H, n, "authorityNotifiedAt")
               g == Prop(H, n, "severity") \in {"high", "critical"}
               late == TimeOf[u] - TimeOf[f] > 72
               v == CASE ~g -> "pass" [] g /\ u = "" -> "fail"
                      [] g /\ u # "" /\ ~({f, u} \subseteq DOMAIN TimeOf \ DateOnly) -> "warning"
                      [] OTHER -> IF late THEN "fail" ELSE "pass"
    <2>2. y = Result(n, v) BY <2>1
    <2>3. v \in Verdicts
      <3> HIDE DEF f, u, g, late
      <3>1. CASE ~g BY <3>1 DEF Verdicts
      <3>2. CASE g /\ u = "" BY <3>2 DEF Verdicts
      <3>3. CASE g /\ u # "" /\ ~({f, u} \subseteq DOMAIN TimeOf \ DateOnly) BY <3>3 DEF Verdicts
      <3>4. CASE g /\ u # "" /\ {f, u} \subseteq DOMAIN TimeOf \ DateOnly BY <3>4 DEF Verdicts
      <3> QED BY <3>1, <3>2, <3>3, <3>4
    <2> HIDE DEF v
    <2> QED BY <2>2, <2>3 DEF Result
  <1>8. Fine(gdprBreach002(H))
    <2> SUFFICES ASSUME NEW y \in gdprBreach002(H) PROVE y.status \in Verdicts OBVIOUS
    <2>1. \E n : \E v \in Verdicts : y = [node |-> n, status |-> v]
      BY DEF gdprBreach002, Judged, Result, Verdicts
    <2> QED BY <2>1
  <1>9. Fine(gdprDPIA001(H)) BY DEF gdprDPIA001, Judged, Result, Verdicts
  <1>10. Fine(gdprDPIA002(H)) BY <1>3 DEF gdprDPIA002
  <1>11. Fine(gdprProc001(H))
    <2> SUFFICES ASSUME NEW y \in gdprProc001(H) PROVE y.status \in Verdicts OBVIOUS
    <2>1. \E n : \E v \in Verdicts : y = [node |-> n, status |-> v]
      BY DEF gdprProc001, Judged, Result, Verdicts
    <2> QED BY <2>1
  <1>12. Fine(gdprEvidence001(H))
    <2> SUFFICES ASSUME NEW y \in gdprEvidence001(H) PROVE y.status \in Verdicts OBVIOUS
    <2>1. \E n : \E v \in Verdicts : y = [node |-> n, status |-> v]
      BY DEF gdprEvidence001, Judged, Result, Verdicts
    <2> QED BY <2>1
  <1>13. Fine(gdprFlow004(H)) BY DEF gdprFlow004
  <1>23. Fine(gdprFlow003(H))
    <2> SUFFICES ASSUME NEW y \in gdprFlow003(H) PROVE y.status \in Verdicts OBVIOUS
    <2>1. \E n : \E v \in Verdicts : y = [node |-> n, status |-> v]
      BY DEF gdprFlow003, Judged, Result, Verdicts
    <2> QED BY <2>1
  <1>14. Fine(gdprFlow005(H)) BY DEF gdprFlow005, Result, Verdicts
  <1>15. Fine(gdprInsp001(H, t))
    <2>1. \E S : gdprInsp001(H, t) = ByDeadline(H, S, "targetDate", t) BY DEF gdprInsp001
    <2> QED BY <1>2, <2>1
  <1>16. Fine(gdprInsp002(H))
    <2> SUFFICES ASSUME NEW y \in gdprInsp002(H) PROVE y.status \in Verdicts OBVIOUS
    <2>1. \E n : \E v \in Verdicts : y = [node |-> n, status |-> v]
      BY DEF gdprInsp002, Judged, Result, Verdicts
    <2> QED BY <2>1
  <1>17. ASSUME NEW d PROVE Fine(yamlEvaluate(d, H))
    <2> SUFFICES ASSUME NEW y \in yamlEvaluate(d, H) PROVE y.status \in Verdicts OBVIOUS
    <2>1. CASE d.condition = "has_edge" BY <1>3, <2>1 DEF yamlEvaluate
    <2>2. CASE d.condition # "has_edge"
      <3>1. \E n : \E v \in Verdicts : y = [node |-> n, status |-> v]
        BY <2>2 DEF yamlEvaluate, Judged, Result, Verdicts
      <3> QED BY <3>1
    <2> QED BY <2>1, <2>2
  <1>18. Fine(UNION {yamlEvaluate(d, H) : d \in {y \in YAMLRules : y.id = r.id /\ ~YAMLError(y)}})
    <2> HIDE DEF Fine
    <2>1. \A R : Fine(R) <=> \A y \in R : y.status \in Verdicts BY DEF Fine
    <2> QED BY <1>17, <2>1
  <1> HIDE DEF Fine
  <1>19. Fine(Evaluate(r.id, H, t))
    BY <1>1, <1>3, <1>4, <1>5, <1>6, <1>7, <1>8, <1>9, <1>10, <1>11, <1>12, <1>13, <1>14, <1>15, <1>16, <1>18, <1>23
    DEF Evaluate
  <1> DEFINE found == IF \E d \in YAMLRules : d.id = r.id /\ YAMLError(d) THEN {Result(NoNode, "warning")}
                      ELSE Evaluate(r.id, H, t)
  <1>20. \A y \in found : y.status \in Verdicts
    BY <1>19 DEF Fine, Result, Verdicts
  <1>21. PICK y \in IF found = {} THEN {Result(NoNode, "na")} ELSE found : x.status = y.status
    <2> HIDE DEF found
    <2>1. x \in {[rule |-> r.id, severity |-> r.severity, node |-> y.node, status |-> y.status] :
                    y \in IF found = {} THEN {Result(NoNode, "na")} ELSE found}
      BY DEF RuleResults, found
    <2> QED BY <2>1
  <1> HIDE DEF found
  <1>22. Result(NoNode, "na").status \in Verdicts BY DEF Result, Verdicts
  <1> QED BY <1>20, <1>21, <1>22

\* The records nobody is meant to change: events, scans and evaluations.
ScanLabels == {"ComplianceScan", "ComplianceEvaluation"}
Sealed     == ScanLabels \cup {"ComplianceEvent"}
Registers  == {Main, Part, Event}

\* What the theorems on them rest on: no client names such a record, or links an
\* evaluation.  (The code has no route for that, and none that refuses it.)
SealedUntouched ==
    /\ DOMAIN Updates \cap Sealed = {}
    /\ \A u \in DOMAIN Updates \cup {"delete", "signoff"} : \A n \in Named[u] : n[1] \notin Sealed
    /\ \A e \in Posted : e.label # "PART_OF_SCAN"
    /\ \A n \in DOMAIN Seeded.nodes : \A l \in Sealed : n[1] = l <=> Seeded.nodes[n].label = l

\* Only a sign-off gives the status signed_off.
SignsOff(p) == "status" \in DOMAIN p /\ p.status = "signed_off"
SignedOnlyBySignOff ==
    /\ \A l \in PlainLabels \cup {"ProcessingActivity", "DataFlow"} : \A p \in Bodies[l] : ~SignsOff(p)
    /\ \A l \in DOMAIN Updates \cup {"OrgSetup"} : \A p \in Updates[l] : ~SignsOff(p)
    /\ \A l \in {"Inspection", "InspectionFinding", "RemediationAction"} : "signed_off" \notin Statuses[l]

EventCall(type, related) ==
    CreateNode("event", "ComplianceEvent", [eventType |-> type, relatedNodeId |-> related])
IsEvent(a) == a.call = "node" /\ a.label = "ComplianceEvent"
Plain(a)   == a.call \in {"edge", "link"} /\ a.label # "PART_OF_SCAN"
IsPart(a)  == a.call = "node" /\ a.reg = "part"

\* The list s is a first call and others that are plain or in E; a list of such calls.
Leads(s, a, E) ==
    \E S : s \in Seq(S) /\ s # <<>> /\ s[1] = a /\ \A i \in DOMAIN s : i > 1 => Plain(s[i]) \/ s[i] \in E
Lists(s, E) == \E S : s \in Seq(S) /\ \A x \in S : Plain(x) \/ x \in E

LEMMA LeadsOne == ASSUME NEW a, NEW E PROVE Leads(<<a>>, a, E)
  <1> DEFINE S == {a}
             s == <<a>>
  <1>1. s \in Seq(S) /\ s # <<>> /\ s[1] = a /\ \A i \in DOMAIN s : ~(i > 1) OBVIOUS
  <1> HIDE DEF S
  <1> QED BY <1>1 DEF Leads

LEMMA LeadsTwo == ASSUME NEW a, NEW b, Plain(b), NEW E PROVE Leads(<<a, b>>, a, E)
  <1> DEFINE S == {a, b}
             s == <<a, b>>
  <1>1. s \in Seq(S) /\ s # <<>> /\ s[1] = a /\ \A i \in DOMAIN s : i > 1 => s[i] = b OBVIOUS
  <1> HIDE DEF S, s
  <1>2. Leads(s, a, E) BY <1>1 DEF Leads
  <1> QED BY <1>2 DEF s

\* What is said of two lists holds of the one made of them.
LEMMA Joined ==
    ASSUME NEW S, NEW T, NEW s \in Seq(S), NEW t \in Seq(T)
    PROVE  /\ s \o t \in Seq(S \cup T) /\ Len(s) \in Nat /\ Len(t) \in Nat
           /\ DOMAIN (s \o t) = 1..(Len(s) + Len(t)) /\ DOMAIN s = 1..Len(s) /\ DOMAIN t = 1..Len(t)
           /\ \A i \in DOMAIN s : i \in DOMAIN (s \o t) /\ (s \o t)[i] = s[i]
           /\ \A i \in DOMAIN t : i + Len(s) \in DOMAIN (s \o t) /\ (s \o t)[i + Len(s)] = t[i]
           /\ \A i \in DOMAIN (s \o t) : i \in DOMAIN s \/ (i - Len(s) \in DOMAIN t /\ (s \o t)[i] = t[i - Len(s)])
  <1> DEFINE U == S \cup T
             u == s \o t
  <1>1. s \in Seq(U) /\ t \in Seq(U) OBVIOUS
  <1> HIDE DEF U
  <1>2. /\ u \in Seq(U) /\ Len(u) = Len(s) + Len(t) /\ Len(s) \in Nat /\ Len(t) \in Nat
        /\ DOMAIN u = 1..(Len(s) + Len(t)) /\ DOMAIN s = 1..Len(s) /\ DOMAIN t = 1..Len(t)
        /\ \A i \in 1..Len(s) : u[i] = s[i]
        /\ \A i \in (Len(s) + 1)..(Len(s) + Len(t)) : u[i] = t[i - Len(s)]
    BY <1>1, ConcatProperties
  <1> HIDE DEF u
  <1>3. \A i \in DOMAIN s : i \in DOMAIN u /\ u[i] = s[i] BY <1>2
  <1>4. \A i \in DOMAIN t : i + Len(s) \in DOMAIN u /\ u[i + Len(s)] = t[i]
    <2> SUFFICES ASSUME NEW i \in DOMAIN t PROVE i + Len(s) \in DOMAIN u /\ u[i + Len(s)] = t[i] OBVIOUS
    <2>1. i \in 1..Len(t) BY <1>2
    <2>2. i + Len(s) \in (Len(s) + 1)..(Len(s) + Len(t)) /\ (i + Len(s)) - Len(s) = i BY <1>2, <2>1
    <2>3. u[i + Len(s)] = t[(i + Len(s)) - Len(s)] BY <1>2, <2>2
    <2> QED BY <1>2, <2>2, <2>3
  <1>5. \A i \in DOMAIN u : i \in DOMAIN s \/ (i - Len(s) \in DOMAIN t /\ u[i] = t[i - Len(s)])
    BY <1>2
  <1> QED BY <1>2, <1>3, <1>4, <1>5 DEF u, U

LEMMA LeadsConcat ==
    ASSUME NEW s, NEW t, NEW a, NEW E, Leads(s, a, E), Lists(t, E)
    PROVE  Leads(s \o t, a, E)
  <1>1. PICK S : s \in Seq(S) /\ s # <<>> /\ s[1] = a /\ \A i \in DOMAIN s : i > 1 => Plain(s[i]) \/ s[i] \in E
    BY DEF Leads
  <1>2. PICK T : t \in Seq(T) /\ \A x \in T : Plain(x) \/ x \in E BY DEF Lists
  <1> DEFINE u == s \o t
  <1>3. /\ u \in Seq(S \cup T) /\ Len(s) \in Nat /\ Len(t) \in Nat
        /\ DOMAIN u = 1..(Len(s) + Len(t)) /\ DOMAIN s = 1..Len(s) /\ DOMAIN t = 1..Len(t)
        /\ \A i \in DOMAIN s : i \in DOMAIN u /\ u[i] = s[i]
        /\ \A i \in DOMAIN u : i \in DOMAIN s \/ (i - Len(s) \in DOMAIN t /\ u[i] = t[i - Len(s)])
    BY <1>1, <1>2, Joined
  <1>4. Len(s) > 0 BY <1>1, EmptySeq
  <1> HIDE DEF u
  <1>5. 1 \in DOMAIN s /\ u[1] = a /\ u # <<>> BY <1>1, <1>3, <1>4
  <1>6. ASSUME NEW i \in DOMAIN u, i > 1 PROVE Plain(u[i]) \/ u[i] \in E
    <2>1. CASE i \in DOMAIN s BY <1>1, <1>3, <1>6, <2>1
    <2>2. CASE i - Len(s) \in DOMAIN t /\ u[i] = t[i - Len(s)]
      <3>1. t[i - Len(s)] \in T BY <1>2, <2>2
      <3> QED BY <1>2, <2>2, <3>1
    <2> QED BY <1>3, <2>1, <2>2
  <1>7. Leads(u, a, E) BY <1>3, <1>5, <1>6 DEF Leads
  <1> QED BY <1>7 DEF u

\* The edges from the new node to finitely many others, and links.
LEMMA PlainList ==
    ASSUME NEW S, IsFiniteSet(S), \A x \in S : Plain(x), NEW E
    PROVE  Lists(SetToSeq(S), E)
  BY ListOfSet DEF Lists

LEMMA PlainEdges ==
    ASSUME NEW label, label # "PART_OF_SCAN", NEW S, IsFiniteSet(S), NEW E
    PROVE  Lists(EdgesTo(label, S), E)
  <1> DEFINE f == [n \in S |-> CreateEdge(label, Main, n)]
             T == {CreateEdge(label, Main, n) : n \in S}
  <1>1. DOMAIN f = S /\ T = {f[n] : n \in S} OBVIOUS
  <1>2. IsFiniteSet(T)
    <2> HIDE DEF f
    <2> QED BY <1>1, FiniteImage
  <1>3. \A a \in T : Plain(a) BY DEF Plain, CreateEdge
  <1> HIDE DEF T
  <1>4. Lists(SetToSeq(T), E) BY <1>2, <1>3, PlainList
  <1> QED BY <1>4 DEF T, EdgesTo

\* An event at the end, and on its own.
LEMMA EventLists ==
    ASSUME NEW type, NEW related, NEW E, EventCall(type, related) \in E
    PROVE  /\ Lists(LogEvent(type, related), E)
           /\ LogEvent(type, related)[1] = EventCall(type, related) /\ 1 \in DOMAIN LogEvent(type, related)
  <1> DEFINE e == EventCall(type, related)
             r == CreateEdge("RELATES_TO", Event, related)
             t == <<e, r>>
             T == {e, r}
  <1>1. t = LogEvent(type, related) BY DEF LogEvent, EventCall
  <1>2. Plain(r) /\ e \in E BY DEF Plain, CreateEdge
  <1> HIDE DEF e, r
  <1>3. t \in Seq(T) /\ t[1] = e /\ 1 \in DOMAIN t /\ \A x \in T : Plain(x) \/ x \in E BY <1>2
  <1> HIDE DEF t, T
  <1>4. Lists(t, E) BY <1>3 DEF Lists
  <1> QED BY <1>1, <1>3, <1>4 DEF e

WithEvent(s, type, related) == s \o LogEvent(type, related)
In(e, s) == \E j \in DOMAIN s : s[j] = e

LEMMA LeadsEvent ==
    ASSUME NEW s, NEW a, NEW type, NEW related, NEW E, EventCall(type, related) \in E, Leads(s, a, E)
    PROVE  /\ Leads(WithEvent(s, type, related), a, E)
           /\ In(EventCall(type, related), WithEvent(s, type, related))
  <1> DEFINE t == LogEvent(type, related)
  <1>0. PICK u : u = s \o t OBVIOUS
  <1>1. Lists(t, E) /\ t[1] = EventCall(type, related) /\ 1 \in DOMAIN t BY EventLists
  <1> HIDE DEF t
  <1>2. Leads(u, a, E) BY <1>0, <1>1, LeadsConcat
  <1>3. PICK S : s \in Seq(S) BY DEF Leads
  <1>4. PICK T : t \in Seq(T) BY <1>1 DEF Lists
  <1>5. 1 + Len(s) \in DOMAIN u /\ u[1 + Len(s)] = t[1] BY <1>0, <1>1, <1>3, <1>4, Joined
  <1>6. \E j \in DOMAIN u : u[j] = EventCall(type, related) BY <1>1, <1>5
  <1> QED BY <1>0, <1>2, <1>6 DEF WithEvent, In, t

\* The calls there are.
Kind(op, a) ==
    \/ Plain(a)
    \/ a.call = "edge" /\ a.label = "PART_OF_SCAN" /\ op = "scanned"
    \/ /\ a.call = "node" /\ a.reg \in {"main", "part"} /\ a.label # "ComplianceEvent" /\ ~SignsOff(a.props)
       /\ a.label \in ScanLabels => op = "scanned"
       /\ a.reg = "part" => a.label \notin DOMAIN CreationEvent
    \/ /\ a = EventCall(a.props.eventType, a.props.relatedNodeId)
       /\ a.props.relatedNodeId \notin {Part, Event}
    \/ a.call = "upsert" /\ a.id[1] \notin Sealed /\ a.label \notin Sealed
    \/ a.call = "delete" /\ a.id[1] \notin Sealed

\* Call a and the event e of one request: the event is about what the call writes.
Fits(op, a, e) ==
    /\ ~IsPart(a)
    /\ e.props.eventType \in DOMAIN Told =>
          /\ a.call = "node" /\ a.reg = "main" =>
                e.props.relatedNodeId = Main /\ Told[e.props.eventType] = op
          /\ a.call = "upsert" =>
                e.props.relatedNodeId = a.id /\ a.id \notin Registers /\ Told[e.props.eventType] = op
          /\ a.call # "delete"

\* What call a of a list s makes due: the event of a creation, or of a sign-off.
Due(s, a) ==
    /\ a.call = "node" /\ a.label \in DOMAIN CreationEvent =>
          \E j \in DOMAIN s : s[j] = EventCall(CreationEvent[a.label], Main)
    /\ a.call = "upsert" /\ SignsOff(a.props) =>
          \E j \in DOMAIN s : s[j] = EventCall("inspection_signed_off", a.id)

\* The calls of a request: the one it is about comes first; it has at most one event.
Duty(r) ==
    r.op # "idle" =>
      /\ \E S : r.todo \in Seq(S)
      /\ \A i \in DOMAIN r.todo :
            /\ Decisive(r.todo[i]) \/ IsPart(r.todo[i]) => i = 1
            /\ Kind(r.op, r.todo[i]) /\ Due(r.todo, r.todo[i])
            /\ \A j \in DOMAIN r.todo : IsEvent(r.todo[j]) =>
                  /\ IsEvent(r.todo[i]) => r.todo[i] = r.todo[j]
                  /\ Fits(r.op, r.todo[i], r.todo[j])

\* A list that is led by a call, and has an event or none.
LEMMA DutyLed ==
    ASSUME NEW r, NEW a, NEW e, NEW E, E \in {{}, {e}}, Leads(r.todo, a, E), r.op # "idle",
           Kind(r.op, a), Due(r.todo, a), ~IsEvent(a) \/ a \in E,
           E # {} => /\ e = EventCall(e.props.eventType, e.props.relatedNodeId)
                     /\ e.props.relatedNodeId \notin {Part, Event} /\ Fits(r.op, a, e)
    PROVE  Duty(r)
  <1>1. PICK S : /\ r.todo \in Seq(S) /\ r.todo # <<>> /\ r.todo[1] = a
                 /\ \A i \in DOMAIN r.todo : i > 1 => Plain(r.todo[i]) \/ r.todo[i] \in E
    BY DEF Leads
  <1> DEFINE s == r.todo
  <1>2. \A i \in DOMAIN s : i = 1 \/ i > 1 BY <1>1
  <1>3. ASSUME NEW x, Plain(x)
        PROVE  ~Decisive(x) /\ ~IsPart(x) /\ ~IsEvent(x) /\ Kind(r.op, x) /\ Due(s, x)
               /\ \A y : Fits(r.op, x, y)
    BY <1>3 DEF Plain, Decisive, IsPart, IsEvent, Kind, Due, Fits
  <1>4. ASSUME NEW x \in E
        PROVE  x = e /\ ~Decisive(x) /\ ~IsPart(x) /\ IsEvent(x) /\ Kind(r.op, x) /\ Due(s, x) /\ Fits(r.op, x, e)
    <2>1. x = e /\ e = EventCall(e.props.eventType, e.props.relatedNodeId) /\ e.props.relatedNodeId \notin {Part, Event}
      OBVIOUS
    <2>2. x.call = "node" /\ x.reg = "event" /\ x.label = "ComplianceEvent"
      BY <2>1 DEF EventCall, CreateNode
    <2> QED BY <2>1, <2>2 DEF Decisive, IsPart, IsEvent, Kind, Due, Fits, CreationEvent
  <1>5. ASSUME NEW i \in DOMAIN s
        PROVE  /\ Decisive(s[i]) \/ IsPart(s[i]) => i = 1
               /\ Kind(r.op, s[i]) /\ Due(s, s[i])
               /\ IsEvent(s[i]) => s[i] \in E
               /\ E # {} => Fits(r.op, s[i], e)
    <2>1. CASE i = 1 BY <1>1, <2>1
    <2>2. CASE i > 1
      <3>1. Plain(s[i]) \/ s[i] \in E BY <1>1, <2>2
      <3>2. CASE Plain(s[i]) BY <1>3, <3>2
      <3>3. CASE s[i] \in E BY <1>4, <3>3
      <3> QED BY <3>1, <3>2, <3>3
    <2> QED BY <1>2, <2>1, <2>2
  <1> QED BY <1>1, <1>5 DEF Duty

\* The request has no calls to make.
LEMMA DutyNone == ASSUME NEW r, r.todo = <<>> PROVE Duty(r)
  <1>1. \E S : r.todo \in Seq(S)
    <2>1. r.todo \in Seq({}) OBVIOUS
    <2> QED BY <2>1
  <1>2. DOMAIN r.todo = {} OBVIOUS
  <1> QED BY <1>1, <1>2 DEF Duty

\* A request that creates an entity, and logs that or nothing.
LEMMA DutyMain ==
    ASSUME NEW r, r.op # "idle", NEW l, NEW p, NEW E, NEW type,
           Leads(r.todo, CreateNode("main", l, p), E), ~SignsOff(p), l \notin Sealed,
           \/ E = {} /\ l \notin DOMAIN CreationEvent
           \/ /\ E = {EventCall(type, Main)} /\ \E j \in DOMAIN r.todo : r.todo[j] = EventCall(type, Main)
              /\ type \in DOMAIN Told => Told[type] = r.op
              /\ l \in DOMAIN CreationEvent => CreationEvent[l] = type
    PROVE  Duty(r) /\ \E i \in DOMAIN r.todo : Decisive(r.todo[i])
  <1>0. PICK a : a = CreateNode("main", l, p) OBVIOUS
  <1>00. PICK e : e = EventCall(type, Main) OBVIOUS
  <1>1. a.call = "node" /\ a.reg = "main" /\ a.label = l /\ a.props = p BY <1>0 DEF CreateNode
  <1>2. e.props.eventType = type /\ e.props.relatedNodeId = Main BY <1>00 DEF EventCall, CreateNode
  <1>3. Kind(r.op, a) /\ ~IsEvent(a) BY <1>1 DEF Kind, IsEvent, Sealed
  <1>4. Due(r.todo, a) BY <1>1 DEF Due
  <1>5. Main \notin {Part, Event} BY DEF Main, Part, Event
  <1>6. E # {} => Fits(r.op, a, e) BY <1>1, <1>2, <1>00 DEF Fits, IsPart
  <1>7. Duty(r)
    <2>1. E \in {{}, {e}} BY <1>00
    <2>2. e = EventCall(e.props.eventType, e.props.relatedNodeId) BY <1>00, <1>2
    <2>3. Leads(r.todo, a, E) BY <1>0
    <2> QED BY <1>2, <1>3, <1>4, <1>5, <1>6, <2>1, <2>2, <2>3, DutyLed
  <1>8. 1 \in DOMAIN r.todo /\ r.todo[1] = a
    <2>1. PICK S : r.todo \in Seq(S) /\ r.todo # <<>> /\ r.todo[1] = a BY <1>0 DEF Leads
    <2>2. Len(r.todo) > 0 BY <2>1, EmptySeq
    <2> QED BY <2>1, <2>2
  <1>9. Decisive(a) BY <1>1 DEF Decisive
  <1> QED BY <1>7, <1>8, <1>9

\* A request that writes an entity, and logs that or nothing.
LEMMA DutyUpsert ==
    ASSUME NEW r, r.op # "idle", NEW id, NEW l, NEW p, NEW E, NEW type,
           Leads(r.todo, UpsertNode(id, l, p), E),
           id[1] \notin Sealed, l \notin Sealed,
           \/ E = {} /\ ~SignsOff(p)
           \/ /\ id \notin Registers
              /\ E = {EventCall(type, id)} /\ \E j \in DOMAIN r.todo : r.todo[j] = EventCall(type, id)
              /\ type \in DOMAIN Told => Told[type] = r.op
              /\ SignsOff(p) => type = "inspection_signed_off"
    PROVE  Duty(r) /\ \E i \in DOMAIN r.todo : Decisive(r.todo[i])
  <1>0. PICK a : a = UpsertNode(id, l, p) OBVIOUS
  <1>00. PICK e : e = EventCall(type, id) OBVIOUS
  <1>1. a.call = "upsert" /\ a.id = id /\ a.label = l /\ a.props = p BY <1>0 DEF UpsertNode
  <1>2. e.props.eventType = type /\ e.props.relatedNodeId = id BY <1>00 DEF EventCall, CreateNode
  <1>3. Kind(r.op, a) /\ ~IsEvent(a) BY <1>1 DEF Kind, IsEvent
  <1>4. Due(r.todo, a) BY <1>1 DEF Due
  <1>5. E # {} => id \notin {Part, Event} BY DEF Registers
  <1>6. E # {} => Fits(r.op, a, e) BY <1>1, <1>2, <1>00 DEF Fits, IsPart
  <1>7. Duty(r)
    <2>1. E \in {{}, {e}} BY <1>00
    <2>2. e = EventCall(e.props.eventType, e.props.relatedNodeId) BY <1>00, <1>2
    <2>3. Leads(r.todo, a, E) BY <1>0
    <2> QED BY <1>2, <1>3, <1>4, <1>5, <1>6, <2>1, <2>2, <2>3, DutyLed
  <1>8. 1 \in DOMAIN r.todo /\ r.todo[1] = a
    <2>1. PICK S : r.todo \in Seq(S) /\ r.todo # <<>> /\ r.todo[1] = a BY <1>0 DEF Leads
    <2>2. Len(r.todo) > 0 BY <2>1, EmptySeq
    <2> QED BY <2>1, <2>2
  <1>9. Decisive(a) BY <1>1 DEF Decisive
  <1> QED BY <1>7, <1>8, <1>9

\* A list of plain calls behind a call that makes nothing due.
LEMMA DutyPlain ==
    ASSUME NEW r, r.op # "idle", NEW a, Leads(r.todo, a, {}), Kind(r.op, a), ~IsEvent(a), Due(r.todo, a)
    PROVE  Duty(r)
  BY DutyLed

\* No event is left over: nothing that the audit log is to tell is still to be done.
Untold(r) ==
    r.op # "idle" => \A j \in DOMAIN r.todo :
        IsEvent(r.todo[j]) /\ r.todo[j].props.eventType \in DOMAIN Told =>
            \E i \in DOMAIN r.todo : Decisive(r.todo[i])

LEMMA UntoldPlain ==
    ASSUME NEW r, NEW a, Leads(r.todo, a, {}), ~IsEvent(a)
    PROVE  \A j \in DOMAIN r.todo : ~IsEvent(r.todo[j])
  <1>1. PICK S : /\ r.todo \in Seq(S) /\ r.todo # <<>> /\ r.todo[1] = a
                 /\ \A i \in DOMAIN r.todo : i > 1 => Plain(r.todo[i])
    BY DEF Leads
  <1>2. \A i \in DOMAIN r.todo : i = 1 \/ i > 1 BY <1>1
  <1> QED BY <1>1, <1>2 DEF Plain, IsEvent

-----------------------------------------------------------------------------
(* Steps that are no calls: what they leave a request to do.                  *)

\* Other fields of a request.
Rest(r) ==
    /\ r.op = "signoff" => r.insp \notin Registers /\ r.insp[1] \notin Sealed /\ r.label \notin Sealed
    /\ r.op = "validate" => r.insp \notin Registers
    /\ r.op \in {"scan", "scanned"} => \A ev \in r.results : ev.status \in Verdicts

\* A record that nobody is meant to change has such an ID, and nothing else has.
SealedNamed == \A n \in DOMAIN nodes : \A l \in Sealed : n[1] = l <=> nodes[n].label = l

\* The upserts of r bring their event with them, but for that of a sign-off.
Brought(q, r) ==
    r.op # "idle" => \A i \in DOMAIN r.todo :
        r.todo[i].call = "upsert" /\ r.todo[i].label \in DOMAIN EventOf =>
            \/ \E j \in DOMAIN r.todo : r.todo[j] = EventCall(EventOf[r.todo[i].label], r.todo[i].id)
            \/ q.op = "signoff" /\ r.todo[i].id = q.insp /\ r.todo[i].label = q.label

\* Request q goes on, or another begins, as r.
Fresh(q, r) ==
    /\ Duty(r) /\ Untold(r) /\ Rest(r) /\ Brought(q, r)
    /\ r.op = "signoff" => \/ q.op = "signoff" /\ r.insp = q.insp /\ r.label = q.label
                           \/ r.insp \in DOMAIN nodes /\ r.label = nodes[r.insp].label

LEMMA OneFinite == ASSUME NEW u, NEW S \in OneOf(u) PROVE IsFiniteSet(S)
  BY FS_EmptySet, FS_Singleton DEF OneOf

LEMMA FreshHandle ==
    ASSUME Blocking, NEW c \in Client, NEW op, op \notin {"idle", "signoff", "validate", "scan", "scanned"},
           NEW todo, Handle(c, op, todo)
    PROVE  LET r == req'[c]
           IN  /\ r.op = op /\ r.todo = todo
               /\ Duty(r) /\ Untold(r) /\ Brought(req[c], r) => Fresh(req[c], r)
  <1>1. req'[c] = Begin(op, todo)
    BY DEF Handle, Receive, Blocking
  <1> QED BY <1>1 DEF Fresh, Rest, Begin

\* Upserts are brought along when there are none.
LEMMA BroughtMain ==
    ASSUME NEW q, NEW r, NEW a, NEW E, Leads(r.todo, a, E), a.call # "upsert", \A x \in E : x.call # "upsert"
    PROVE  Brought(q, r)
  <1>1. PICK S : /\ r.todo \in Seq(S) /\ r.todo[1] = a
                 /\ \A i \in DOMAIN r.todo : i > 1 => Plain(r.todo[i]) \/ r.todo[i] \in E
    BY DEF Leads
  <1>2. \A i \in DOMAIN r.todo : i = 1 \/ i > 1 BY <1>1
  <1> QED BY <1>1, <1>2 DEF Plain, Brought

\* A request that creates an entity begins.
LEMMA FreshMain ==
    ASSUME Blocking, NEW c \in Client, NEW op, op \notin {"idle", "signoff", "validate", "scan", "scanned"},
           NEW todo, Handle(c, op, todo), NEW l, NEW p, NEW E, NEW type,
           Leads(todo, CreateNode("main", l, p), E), ~SignsOff(p), l \notin Sealed,
           \/ E = {} /\ l \notin DOMAIN CreationEvent
           \/ /\ E = {EventCall(type, Main)} /\ \E j \in DOMAIN todo : todo[j] = EventCall(type, Main)
              /\ type \in DOMAIN Told => Told[type] = op
              /\ l \in DOMAIN CreationEvent => CreationEvent[l] = type
    PROVE  Fresh(req[c], req'[c])
  <1>1. PICK r : r = req'[c] OBVIOUS
  <1>2. r.op = op /\ r.todo = todo BY <1>1, FreshHandle
  <1>3. Duty(r) /\ Untold(r)
    BY <1>2, DutyMain DEF Untold
  <1>4. CreateNode("main", l, p).call # "upsert" /\ \A x \in E : x.call # "upsert"
    BY DEF CreateNode, EventCall
  <1>5. Brought(req[c], r) BY <1>2, <1>4, BroughtMain
  <1> QED BY <1>1, <1>3, <1>5, FreshHandle

\* A request that writes an entity begins.
LEMMA FreshUpsert ==
    ASSUME Blocking, NEW c \in Client, NEW op, op \notin {"idle", "signoff", "validate", "scan", "scanned"},
           NEW todo, Handle(c, op, todo), NEW id, NEW l, NEW p, NEW E, NEW type,
           Leads(todo, UpsertNode(id, l, p), E), ~SignsOff(p), l \notin Sealed,
           id[1] \notin Sealed,
           \/ E = {} /\ l \notin DOMAIN EventOf
           \/ /\ id \notin Registers
              /\ E = {EventCall(type, id)} /\ \E j \in DOMAIN todo : todo[j] = EventCall(type, id)
              /\ type \in DOMAIN Told => Told[type] = op
              /\ l \in DOMAIN EventOf => EventOf[l] = type
    PROVE  Fresh(req[c], req'[c])
  <1>1. PICK r : r = req'[c] OBVIOUS
  <1>2. r.op = op /\ r.todo = todo BY <1>1, FreshHandle
  <1>3. Duty(r) /\ Untold(r)
    BY <1>2, DutyUpsert DEF Untold
  <1>4. Brought(req[c], r)
    <2>1. PICK S : /\ r.todo \in Seq(S) /\ r.todo[1] = UpsertNode(id, l, p)
                   /\ \A i \in DOMAIN r.todo : i > 1 => Plain(r.todo[i]) \/ r.todo[i] \in E
      BY <1>2 DEF Leads
    <2>2. \A i \in DOMAIN r.todo : i = 1 \/ i > 1 BY <2>1
    <2>3. \A x \in E : x.call = "node" BY DEF EventCall, CreateNode
    <2>4. ASSUME NEW i \in DOMAIN r.todo, r.todo[i].call = "upsert", r.todo[i].label \in DOMAIN EventOf
          PROVE  \E j \in DOMAIN r.todo : r.todo[j] = EventCall(EventOf[r.todo[i].label], r.todo[i].id)
      <3>1. i = 1 BY <2>1, <2>2, <2>3, <2>4 DEF Plain
      <3>2. r.todo[i].label = l /\ r.todo[i].id = id BY <2>1, <3>1 DEF UpsertNode
      <3>3. l \in DOMAIN EventOf BY <2>4, <3>2
      <3> QED BY <1>2, <3>2, <3>3
    <2> QED BY <2>4 DEF Brought
  <1> QED BY <1>1, <1>3, <1>4, FreshHandle

\* The register and the data flows.
LEMMA RegisterFresh ==
    ASSUME SealedUntouched, SignedOnlyBySignOff, Blocking, SealedNamed,
           NEW c \in Client, Register(c) \/ SingletonUnread(c)
    PROVE  Fresh(req[c], req'[c])
  <1>0. \A l \in PlainLabels \cup {"ProcessingActivity", "DataFlow", "OrgSetup"} : l \notin Sealed
    BY DEF PlainLabels, Sealed, ScanLabels
  <1>1. CASE GDPRCreate(c)
    <2>1. PICK l \in PlainLabels : \E p \in Bodies[l] : Handle(c, "create", <<CreateNode("main", l, p)>>)
      BY <1>1 DEF GDPRCreate
    <2>a. PICK p \in Bodies[l] : Handle(c, "create", <<CreateNode("main", l, p)>>)
      BY <2>1
    <2>2. Leads(<<CreateNode("main", l, p)>>, CreateNode("main", l, p), {}) BY LeadsOne
    <2>3. l \notin DOMAIN CreationEvent BY DEF PlainLabels, CreationEvent
    <2>4. ~SignsOff(p) BY DEF SignedOnlyBySignOff
    <2> QED BY <1>0, <2>a, <2>2, <2>3, <2>4, FreshMain
  <1>2. CASE GDPRCreateWithEdges(c)
    <2>1. PICK p \in Bodies["ProcessingActivity"], basis \in OneOf("HAS_LEGAL_BASIS"),
               measure \in OneOf("PROTECTED_BY"), cats \in SUBSET Named["PROCESSES_CATEGORY"] :
               Handle(c, "ropa", <<CreateNode("main", "ProcessingActivity", p)>>
                  \o EdgesTo("HAS_LEGAL_BASIS", basis) \o EdgesTo("PROTECTED_BY", measure)
                  \o EdgesTo("PROCESSES_CATEGORY", cats))
      BY <1>2 DEF GDPRCreateWithEdges
    <2>2. IsFiniteSet(basis) /\ IsFiniteSet(measure) BY OneFinite
    <2>3. IsFiniteSet(cats) BY NamedAssumption, FS_Subset
    <2> DEFINE a  == CreateNode("main", "ProcessingActivity", p)
               t1 == EdgesTo("HAS_LEGAL_BASIS", basis)
               t2 == EdgesTo("PROTECTED_BY", measure)
               t3 == EdgesTo("PROCESSES_CATEGORY", cats)
    <2>4. Lists(t1, {}) /\ Lists(t2, {}) /\ Lists(t3, {}) BY <2>2, <2>3, PlainEdges
    <2> HIDE DEF t1, t2, t3
    <2>5. Leads(<<a>>, a, {}) BY LeadsOne
    <2>6. Leads(<<a>> \o t1, a, {}) BY <2>4, <2>5, LeadsConcat
    <2>7. Leads(<<a>> \o t1 \o t2, a, {}) BY <2>4, <2>6, LeadsConcat
    <2>8. Leads(<<a>> \o t1 \o t2 \o t3, a, {}) BY <2>4, <2>7, LeadsConcat
    <2>9. "ProcessingActivity" \notin DOMAIN CreationEvent BY DEF CreationEvent
    <2>10. ~SignsOff(p) BY DEF SignedOnlyBySignOff
    <2>11. Handle(c, "ropa", <<a>> \o t1 \o t2 \o t3) BY <2>1 DEF t1, t2, t3
    <2> QED BY <1>0, <2>8, <2>9, <2>10, <2>11, FreshMain
  <1>3. ASSUME NEW S \in SUBSET NodesByLabel(G, "OrgSetup"), Singleton(c, S)
        PROVE  Fresh(req[c], req'[c])
    <2>1. PICK p \in Updates["OrgSetup"] :
             Handle(c, "singleton",
                IF S = {} THEN <<CreateNode("main", "OrgSetup", p)>>
                ELSE <<UpsertNode(First(S), "OrgSetup", p)>>)
      BY <1>3 DEF Singleton
    <2>2. ~SignsOff(p) BY DEF SignedOnlyBySignOff
    <2>3. "OrgSetup" \notin DOMAIN CreationEvent \cup DOMAIN EventOf BY DEF CreationEvent, EventOf
    <2>4. CASE S = {}
      <3>1. Leads(<<CreateNode("main", "OrgSetup", p)>>, CreateNode("main", "OrgSetup", p), {}) BY LeadsOne
      <3> QED BY <1>0, <2>1, <2>2, <2>3, <2>4, <3>1, FreshMain
    <2>5. CASE S # {}
      <3>1. PICK n : n = First(S) OBVIOUS
      <3>2. n \in DOMAIN nodes /\ nodes[n].label = "OrgSetup" BY <2>5, <3>1, FirstIn DEF NodesByLabel, G
      <3>3. n[1] \notin Sealed BY <3>2 DEF SealedNamed, Sealed, ScanLabels
      <3>4. Leads(<<UpsertNode(n, "OrgSetup", p)>>, UpsertNode(n, "OrgSetup", p), {}) BY LeadsOne
      <3> QED BY <1>0, <2>1, <2>2, <2>3, <2>5, <3>1, <3>3, <3>4, FreshUpsert
    <2> QED BY <2>4, <2>5
  <1>4. CASE Update(c)
    <2>a. PICK l \in DOMAIN Updates : \E n \in Named[l], p \in Updates[l] :
             Handle(c, "update", <<UpsertNode(n, l, p)>>
                \o IF l \in DOMAIN EventOf THEN LogEvent(EventOf[l], n) ELSE <<>>)
      BY <1>4 DEF Update
    <2>1. PICK n \in Named[l], p \in Updates[l] :
             Handle(c, "update", <<UpsertNode(n, l, p)>>
                \o IF l \in DOMAIN EventOf THEN LogEvent(EventOf[l], n) ELSE <<>>)
      BY <2>a
    <2> DEFINE a == UpsertNode(n, l, p)
    <2>b. PICK type : type = EventOf[l] OBVIOUS
    <2>2. ~SignsOff(p) /\ l \notin Sealed /\ n[1] \notin Sealed BY DEF SignedOnlyBySignOff, SealedUntouched
    <2>3. n \notin Registers BY NamedAssumption DEF Registers
    <2>4. Leads(<<a>>, a, {}) /\ Leads(<<a>>, a, {EventCall(type, n)}) BY LeadsOne
    <2>5. CASE l \in DOMAIN EventOf
      <3>1. type \in DOMAIN Told /\ Told[type] = "update"
        BY <2>5, <2>b DEF EventOf, Told
      <3> DEFINE E == {EventCall(type, n)}
                 s == WithEvent(<<a>>, type, n)
      <3>2. Leads(s, a, E) /\ In(EventCall(type, n), s)
        <4>1. EventCall(type, n) \in E /\ Leads(<<a>>, a, E) BY <2>4
        <4> HIDE DEF E, a
        <4> QED BY <4>1, LeadsEvent
      <3>3. Handle(c, "update", s) BY <2>1, <2>5, <2>b DEF WithEvent
      <3> HIDE DEF s
      <3> QED BY <2>2, <2>3, <2>b, <3>1, <3>2, <3>3, FreshUpsert DEF In
    <2>6. CASE l \notin DOMAIN EventOf
      <3>1. <<a>> \o <<>> = <<a>> OBVIOUS
      <3>2. Handle(c, "update", <<a>>) BY <2>1, <2>6, <3>1
      <3> QED BY <2>2, <2>3, <2>4, <2>6, <3>2, FreshUpsert
    <2> QED BY <2>5, <2>6
  <1>5. CASE Delete(c)
    <2>1. PICK n \in Named["delete"] : Handle(c, "delete", <<DeleteNode(n)>>)
      BY <1>5 DEF Delete
    <2>2. PICK a : a = DeleteNode(n) OBVIOUS
    <2>3. a.call = "delete" /\ a.id = n BY <2>2 DEF DeleteNode
    <2>4. PICK r : r = req'[c] OBVIOUS
    <2>5. r.op = "delete" /\ r.todo = <<a>> BY <2>1, <2>2, <2>4, FreshHandle
    <2>6. Leads(r.todo, a, {}) BY <2>5, LeadsOne
    <2>7. Kind(r.op, a) /\ ~IsEvent(a) /\ Due(r.todo, a)
      BY <2>3 DEF Kind, IsEvent, Due, SealedUntouched
    <2>8. Duty(r) BY <2>5, <2>6, <2>7, DutyPlain
    <2>9. Untold(r) BY <2>6, <2>7, UntoldPlain DEF Untold
    <2>10. Brought(req[c], r) BY <2>3, <2>6, BroughtMain
    <2> QED BY <2>1, <2>4, <2>8, <2>9, <2>10, FreshHandle
  <1>6. CASE PostEdge(c)
    <2>1. PICK e \in Posted : Handle(c, "edge", <<CreateEdge(e.label, e.from, e.to)>>)
      BY <1>6 DEF PostEdge
    <2>2. PICK a : a = CreateEdge(e.label, e.from, e.to) OBVIOUS
    <2>3. a.call = "edge" /\ a.label # "PART_OF_SCAN" BY <2>2 DEF CreateEdge, SealedUntouched
    <2>4. PICK r : r = req'[c] OBVIOUS
    <2>5. r.op = "edge" /\ r.todo = <<a>> BY <2>1, <2>2, <2>4, FreshHandle
    <2>6. Leads(r.todo, a, {}) BY <2>5, LeadsOne
    <2>7. Kind(r.op, a) /\ ~IsEvent(a) /\ Due(r.todo, a)
      BY <2>3 DEF Kind, Plain, IsEvent, Due
    <2>8. Duty(r) BY <2>5, <2>6, <2>7, DutyPlain
    <2>9. Untold(r) BY <2>6, <2>7, UntoldPlain DEF Untold
    <2>10. Brought(req[c], r) BY <2>3, <2>6, BroughtMain
    <2> QED BY <2>1, <2>4, <2>8, <2>9, <2>10, FreshHandle
  <1>7. CASE DataFlowCreate(c)
    <2>1. PICK p \in Bodies["DataFlow"], from \in OneOf("FROM_ACTIVITY"), to \in OneOf("TO_ACTIVITY"),
               proc \in OneOf("TO_PROCESSOR"), cats \in SUBSET Named["CARRIES"], basis \in OneOf("GOVERNED_BY") :
               Handle(c, "flow",
                  <<CreateNode("main", "DataFlow", p)>>
                  \o EdgesTo("FROM_ACTIVITY", from) \o EdgesTo("TO_ACTIVITY", to) \o EdgesTo("TO_PROCESSOR", proc)
                  \o EdgesTo("CARRIES", cats) \o EdgesTo("GOVERNED_BY", basis)
                  \o LogEvent("dataflow_created", Main))
      BY <1>7 DEF DataFlowCreate
    <2>2. IsFiniteSet(from) /\ IsFiniteSet(to) /\ IsFiniteSet(proc) /\ IsFiniteSet(basis) BY OneFinite
    <2>3. IsFiniteSet(cats) BY NamedAssumption, FS_Subset
    <2> DEFINE a  == CreateNode("main", "DataFlow", p)
               E  == {EventCall("dataflow_created", Main)}
               t1 == EdgesTo("FROM_ACTIVITY", from)
               t2 == EdgesTo("TO_ACTIVITY", to)
               t3 == EdgesTo("TO_PROCESSOR", proc)
               t4 == EdgesTo("CARRIES", cats)
               t5 == EdgesTo("GOVERNED_BY", basis)
    <2>4. Lists(t1, E) /\ Lists(t2, E) /\ Lists(t3, E) /\ Lists(t4, E) /\ Lists(t5, E) BY <2>2, <2>3, PlainEdges
    <2>5. Leads(<<a>>, a, E) BY LeadsOne
    <2> HIDE DEF t1, t2, t3, t4, t5
    <2>6. Leads(<<a>> \o t1, a, E) BY <2>4, <2>5, LeadsConcat
    <2>7. Leads(<<a>> \o t1 \o t2, a, E) BY <2>4, <2>6, LeadsConcat
    <2>8. Leads(<<a>> \o t1 \o t2 \o t3, a, E) BY <2>4, <2>7, LeadsConcat
    <2>9. Leads(<<a>> \o t1 \o t2 \o t3 \o t4, a, E) BY <2>4, <2>8, LeadsConcat
    <2> DEFINE u == <<a>> \o t1 \o t2 \o t3 \o t4 \o t5
               s == WithEvent(u, "dataflow_created", Main)
    <2>10. Leads(u, a, E) BY <2>4, <2>9, LeadsConcat
    <2>11. Leads(s, a, E) /\ In(EventCall("dataflow_created", Main), s)
      <3>1. EventCall("dataflow_created", Main) \in E OBVIOUS
      <3> HIDE DEF u, E
      <3> QED BY <2>10, <3>1, LeadsEvent
    <2>12. /\ "dataflow_created" \in DOMAIN Told => Told["dataflow_created"] = "flow"
           /\ "DataFlow" \in DOMAIN CreationEvent => CreationEvent["DataFlow"] = "dataflow_created"
      BY DEF CreationEvent, Told
    <2>13. ~SignsOff(p) BY DEF SignedOnlyBySignOff
    <2>14. Handle(c, "flow", s) BY <2>1 DEF t1, t2, t3, t4, t5, WithEvent
    <2> HIDE DEF s
    <2> QED BY <1>0, <2>11, <2>12, <2>13, <2>14, FreshMain DEF In
  <1> QED BY <1>1, <1>2, <1>3, <1>4, <1>5, <1>6, <1>7 DEF Register, GDPRUpsertSingleton, SingletonUnread

\* A request that makes no upsert.
LEMMA BroughtNone == ASSUME NEW q, NEW r, r.todo = <<>> PROVE Brought(q, r)
  <1>1. DOMAIN r.todo = {} OBVIOUS
  <1> QED BY <1>1 DEF Brought

LEMMA UntoldNone == ASSUME NEW r, r.todo = <<>> PROVE Untold(r)
  <1>1. DOMAIN r.todo = {} OBVIOUS
  <1> QED BY <1>1 DEF Untold

LEMMA FreshIdle == ASSUME NEW q PROVE Fresh(q, Idle)
  BY DEF Fresh, Duty, Untold, Rest, Brought, Idle

\* Validations.
LEMMA ValidationFresh ==
    ASSUME Blocking, NEW c \in Client, Validation(c), Rest(req[c])
    PROVE  Fresh(req[c], req'[c])
  <1>0. PICK r : r = req'[c] OBVIOUS
  <1>1. CASE ValidateDataFlows(c)
    <2>1. PICK insp \in {NoNode} \cup Named["PART_OF_INSPECTION"] :
            req' = [req EXCEPT ![c] = Merge(Begin("validate", <<>>),
                  [insp |-> insp,
                   flows |-> [f \in NodesByLabel(G, "DataFlow") |-> nodes[f]]])]
      BY <1>1 DEF ValidateDataFlows, Receive
    <2>2. r.op = "validate" /\ r.todo = <<>> /\ r.insp = insp
      BY <1>0, <2>1 DEF Blocking, Merge, Begin
    <2>3. insp \notin Registers
      <3>1. Named["PART_OF_INSPECTION"] \cap {Main, Part, Event} = {} BY NamedAssumption
      <3>2. NoNode \notin Registers BY DEF NoNode, Registers, Main, Part, Event
      <3> QED BY <3>1, <3>2 DEF Registers
    <2>4. Rest(r) BY <2>2, <2>3 DEF Rest
    <2> QED BY <1>0, <2>2, <2>4, DutyNone, BroughtNone, UntoldNone DEF Fresh
  <1>2. CASE ValidateFlow(c)
    <2> DEFINE f == First(DOMAIN req[c].flows)
               seen == [G EXCEPT !.nodes = Put(nodes, f, req[c].flows[f])]
               p == [flowId |-> f, status |-> Overall(FlowChecks(seen, f))]
               a == CreateNode("part", "DataFlowValidation", p)
               b == CreateEdge("VALIDATES", Part, f)
               t == IF req[c].insp = NoNode THEN <<>>
                    ELSE <<CreateEdge("PART_OF_INSPECTION", Part, req[c].insp)>>
               s == <<a, b>> \o t
    <2>1. r.op = "validate" /\ r.todo = s /\ r.insp = req[c].insp /\ req[c].op = "validate"
      BY <1>0, <1>2 DEF ValidateFlow, Blocking, Formed
    <2>2. Plain(b) BY DEF Plain, CreateEdge
    <2>3. /\ a.call = "node" /\ a.reg = "part" /\ a.label = "DataFlowValidation"
          /\ a.props.status \in {"pass", "warning", "fail"}
      BY DEF CreateNode, Overall
    <2>4. Lists(t, {})
      <3>1. PICK e : e = CreateEdge("PART_OF_INSPECTION", Part, req[c].insp) OBVIOUS
      <3>2. Plain(e) BY <3>1 DEF Plain, CreateEdge
      <3>3. <<>> \in Seq({e}) /\ <<e>> \in Seq({e}) OBVIOUS
      <3>4. t \in Seq({e}) BY <3>1, <3>3
      <3> QED BY <3>2, <3>4 DEF Lists
    <2> HIDE DEF a, b, t
    <2>5. Leads(<<a, b>>, a, {}) BY <2>2, LeadsTwo
    <2>6. Leads(s, a, {}) BY <2>4, <2>5, LeadsConcat
    <2> HIDE DEF s
    <2>7. Kind(r.op, a) /\ ~IsEvent(a) /\ Due(r.todo, a)
      BY <2>3 DEF Kind, IsEvent, Due, SignsOff, ScanLabels, CreationEvent
    <2>8. Duty(r) BY <2>1, <2>6, <2>7, DutyPlain
    <2>9. Untold(r) BY <2>1, <2>6, <2>7, UntoldPlain DEF Untold
    <2>10. Brought(req[c], r) BY <2>1, <2>3, <2>6, BroughtMain
    <2>11. Rest(r) BY <2>1 DEF Rest
    <2> QED BY <1>0, <2>1, <2>8, <2>9, <2>10, <2>11 DEF Fresh
  <1>3. CASE ValidateEnd(c)
    <2>1. PICK n : n = req[c].insp OBVIOUS
    <2>2. req[c].op = "validate" /\ r.op = "validated" /\ r.todo = LogEvent("dataflow_validation", n)
      BY <1>0, <1>3, <2>1 DEF ValidateEnd, Proceed, Blocking
    <2>3. n \notin Registers BY <2>1, <2>2 DEF Rest
    <2> DEFINE a == EventCall("dataflow_validation", n)
               b == CreateEdge("RELATES_TO", Event, n)
    <2>4. r.todo = <<a, b>> BY <2>2 DEF LogEvent, EventCall
    <2>5. Plain(b) BY DEF Plain, CreateEdge
    <2>6. /\ a.call = "node" /\ a.reg = "event" /\ a.label = "ComplianceEvent"
          /\ a.props.eventType = "dataflow_validation" /\ a.props.relatedNodeId = n
      BY DEF EventCall, CreateNode
    <2>7. a = EventCall(a.props.eventType, a.props.relatedNodeId) BY <2>6
    <2> HIDE DEF a, b
    <2>8. Leads(r.todo, a, {a}) BY <2>4, <2>5, LeadsTwo
    <2>9. Kind(r.op, a) BY <2>3, <2>6, <2>7 DEF Kind, Registers
    <2>10. Due(r.todo, a) BY <2>6 DEF Due, CreationEvent
    <2>11. a.props.eventType \notin DOMAIN Told BY <2>6 DEF Told
    <2>12. Fits(r.op, a, a) BY <2>6, <2>11 DEF Fits, IsPart
    <2>13. Duty(r)
      <3>1. a.props.relatedNodeId \notin {Part, Event} BY <2>3, <2>6 DEF Registers
      <3> QED BY <2>2, <2>7, <2>8, <2>9, <2>10, <2>12, <3>1, DutyLed
    <2>14. \A j \in DOMAIN r.todo : IsEvent(r.todo[j]) => r.todo[j] = a
      <3>1. DOMAIN r.todo = {1, 2} /\ r.todo[1] = a /\ r.todo[2] = b BY <2>4
      <3> QED BY <2>5, <3>1 DEF Plain, IsEvent
    <2>15. Untold(r) BY <2>11, <2>14 DEF Untold
    <2>16. Brought(req[c], r) BY <2>6, <2>8, BroughtMain
    <2>17. Rest(r) BY <2>2 DEF Rest
    <2> QED BY <1>0, <2>2, <2>13, <2>15, <2>16, <2>17 DEF Fresh
  <1> QED BY <1>1, <1>2, <1>3 DEF Validation

\* Scans.
LEMMA ScanFresh ==
    ASSUME Blocking, NEW c \in Client, Scan(c) \/ RuleFails(c), Rest(req[c])
    PROVE  Fresh(req[c], req'[c])
  <1>0. PICK r : r = req'[c] OBVIOUS
  <1>1. CASE RunScan(c) \/ SchedulerScan(c)
    <2>1. PICK fw, R : req' = [req EXCEPT ![c] = Merge(Begin("scan", <<>>),
                  [id |-> scanSeq + 1, framework |-> fw, results |-> {}, rules |-> R])]
      BY <1>1 DEF RunScan, SchedulerScan, Receive
    <2>2. r.op = "scan" /\ r.todo = <<>> /\ r.results = {}
      BY <1>0, <2>1 DEF Blocking, Merge, Begin
    <2>3. Rest(r) BY <2>2 DEF Rest
    <2> QED BY <1>0, <2>2, <2>3, DutyNone, BroughtNone, UntoldNone DEF Fresh
  <1>2. ASSUME NEW R, \A x \in R : x.status \in Verdicts, req[c].op = "scan", NEW x,
               req' = [req EXCEPT ![c].rules = @ \ {x}, ![c].results = @ \cup R]
        PROVE  Fresh(req[c], req'[c])
    <2>1. r.op = "scan" /\ r.todo = <<>> /\ r.results = req[c].results \cup R
      BY <1>0, <1>2 DEF Blocking, Formed
    <2>2. Rest(r) BY <1>2, <2>1 DEF Rest
    <2> QED BY <1>0, <2>1, <2>2, DutyNone, BroughtNone, UntoldNone DEF Fresh
  <1>3. CASE ScanRule(c)
    <2>1. PICK x : req' = [req EXCEPT ![c].rules = @ \ {x}, ![c].results = @ \cup RuleResults(x, G, now)]
      BY <1>3 DEF ScanRule, Scanned
    <2>2. req[c].op = "scan" BY <1>3 DEF ScanRule, Scanned
    <2>3. PICK R : R = RuleResults(x, G, now) OBVIOUS
    <2>4. \A y \in R : y.status \in Verdicts BY <2>3, Verdict
    <2> QED BY <1>2, <2>1, <2>2, <2>3, <2>4
  <1>4. CASE RuleFails(c)
    <2>1. PICK x : req' = [req EXCEPT ![c].rules = @ \ {x},
             ![c].results = @ \cup {[rule |-> x.id, severity |-> x.severity, node |-> NoNode, status |-> "warning"]}]
      BY <1>4 DEF RuleFails, Scanned
    <2>2. req[c].op = "scan" BY <1>4 DEF RuleFails, Scanned
    <2>3. PICK R : R = {[rule |-> x.id, severity |-> x.severity, node |-> NoNode, status |-> "warning"]} OBVIOUS
    <2>4. \A y \in R : y.status \in Verdicts BY <2>3 DEF Verdicts
    <2> QED BY <1>2, <2>1, <2>2, <2>3, <2>4
  <1>5. CASE ScanCanceled(c)
    <2>1. r = Idle BY <1>0, <1>5 DEF ScanCanceled, Blocking
    <2> QED BY <1>0, <2>1, FreshIdle
  <1>6. CASE storeScanResults(c)
    <2> DEFINE R == req[c].results
               count(st) == Cardinality(Counted(R, st))
               fw == req[c].framework
               p == [scanId |-> req[c].id, framework |-> fw, completedAt |-> now,
                     passCount |-> count("pass"), failCount |-> count("fail"),
                     warningCount |-> count("warning"), score |-> CalculateScore(R)]
               a == CreateNode("main", "ComplianceScan", p)
               b == LinkBy("SCOPED_TO", Main, "ComplianceFramework", "name", fw, FALSE)
    <2>1. req[c].op = "scan" /\ "status" \notin DOMAIN p BY <1>6 DEF storeScanResults
    <2>2. r.op = "scanned" /\ r.todo = <<a, b>> /\ r.results = R
      <3>1. PICK todo : todo = <<a, b>> OBVIOUS
      <3>2. req' = [req EXCEPT ![c] = Merge(Proceed(c, "scanned", todo), [results |-> R, storing |-> {}])]
        BY <1>6, <3>1 DEF storeScanResults
      <3>3. r.op = "scanned" /\ r.todo = todo /\ r.results = R
        BY <1>0, <3>2 DEF Blocking, Merge, Proceed
      <3> QED BY <3>1, <3>3
    <2> HIDE DEF p
    <2>3. Plain(b) BY DEF Plain, LinkBy
    <2>4. a.call = "node" /\ a.reg = "main" /\ a.label = "ComplianceScan" /\ ~SignsOff(a.props)
      BY <2>1 DEF CreateNode, SignsOff
    <2> HIDE DEF a, b
    <2>5. Leads(r.todo, a, {}) BY <2>2, <2>3, LeadsTwo
    <2>6. Kind(r.op, a) /\ ~IsEvent(a) /\ Due(r.todo, a)
      BY <2>2, <2>4 DEF Kind, IsEvent, Due, CreationEvent
    <2>7. Duty(r) BY <2>2, <2>5, <2>6, DutyPlain
    <2>8. Untold(r) BY <2>5, <2>6, UntoldPlain DEF Untold
    <2>9. Brought(req[c], r) BY <2>4, <2>5, BroughtMain
    <2>10. Rest(r) BY <2>1, <2>2 DEF Rest
    <2> QED BY <1>0, <2>2, <2>7, <2>8, <2>9, <2>10 DEF Fresh
  <1>7. CASE StoreNext(c)
    <2>1. PICK ev \in req[c].results :
             req' = [req EXCEPT ![c].results = @ \ {ev}, ![c].storing = {ev}, ![c].todo = StoreEvaluation(ev)]
      BY <1>7 DEF StoreNext
    <2>2. req[c].op = "scanned" /\ ev.status \in Verdicts BY <1>7 DEF StoreNext, Rest
    <2> DEFINE p == [ruleId |-> ev.rule, status |-> ev.status, severity |-> ev.severity, nodeId |-> ev.node]
               a == CreateNode("part", "ComplianceEvaluation", p)
               b == CreateEdge("PART_OF_SCAN", Part, Main)
               l == LinkBy("EVALUATED_BY", Part, "ComplianceRule", "ruleId", ev.rule, TRUE)
    <2>3. r.op = "scanned" /\ r.todo = <<a, b, l>> /\ r.results = req[c].results \ {ev}
      BY <1>0, <2>1, <2>2 DEF Blocking, Formed, StoreEvaluation
    <2>4. Plain(l) BY DEF Plain, LinkBy
    <2>5. a.call = "node" /\ a.reg = "part" /\ a.label = "ComplianceEvaluation" /\ ~SignsOff(a.props)
      BY <2>2 DEF CreateNode, SignsOff, Verdicts
    <2>6. b.call = "edge" /\ b.label = "PART_OF_SCAN" BY DEF CreateEdge
    <2> HIDE DEF a, b, l
    <2>7. r.todo \in Seq({a, b, l}) /\ DOMAIN r.todo = {1, 2, 3}
          /\ r.todo[1] = a /\ r.todo[2] = b /\ r.todo[3] = l
      BY <2>3
    <2>8. Kind(r.op, a) /\ ~IsEvent(a) /\ Due(r.todo, a)
      BY <2>3, <2>5 DEF Kind, IsEvent, Due, CreationEvent, ScanLabels
    <2>9. Kind(r.op, b) /\ ~IsEvent(b) /\ Due(r.todo, b) /\ ~Decisive(b) /\ ~IsPart(b)
      BY <2>3, <2>6 DEF Kind, IsEvent, Due, Decisive, IsPart
    <2>10. Kind(r.op, l) /\ ~IsEvent(l) /\ Due(r.todo, l) /\ ~Decisive(l) /\ ~IsPart(l)
      BY <2>4 DEF Plain, Kind, IsEvent, Due, Decisive, IsPart
    <2>11. Duty(r) BY <2>7, <2>8, <2>9, <2>10 DEF Duty
    <2>12. Untold(r) BY <2>7, <2>8, <2>9, <2>10 DEF Untold
    <2>13. Brought(req[c], r)
      BY <2>4, <2>5, <2>6, <2>7 DEF Brought, Plain
    <2>14. Rest(r) BY <2>2, <2>3 DEF Rest
    <2> QED BY <1>0, <2>3, <2>11, <2>12, <2>13, <2>14 DEF Fresh
  <1> QED BY <1>1, <1>3, <1>4, <1>5, <1>6, <1>7 DEF Scan

\* Inspections.
LEMMA InspectFresh ==
    ASSUME SealedUntouched, SignedOnlyBySignOff, Blocking, SealedNamed,
           NEW c \in Client, Inspect(c) \/ SignOffEdgesUnread(c) \/ SignOffCheckUnread(c), Rest(req[c])
    PROVE  Fresh(req[c], req'[c])
  <1>0. PICK r : r = req'[c] OBVIOUS
  <1>1. ASSUME NEW s \in Statuses["Inspection"] \cup Statuses["InspectionFinding"] \cup Statuses["RemediationAction"],
               NEW d \in {"draft", "open", "pending"}
        PROVE  ~SignsOff(Map("status", IF s = "" THEN d ELSE s))
    BY DEF SignedOnlyBySignOff, SignsOff, Map
  <1>2. CASE CreateInspection(c)
    <2>1. PICK p \in WithStatus("Inspection", "draft"), scope \in SUBSET Named["INSPECTS"], scan \in OneOf("BASED_ON") :
              Handle(c, "inspection",
                  <<CreateNode("main", "Inspection", p)>>
                  \o EdgesTo("INSPECTS", scope)
                  \o SetToSeq({LinkBy("BASED_ON", Main, "ComplianceScan", "scanId", id, FALSE) : id \in scan})
                  \o LogEvent("inspection_created", Main))
      BY <1>2 DEF CreateInspection
    <2> DEFINE a  == CreateNode("main", "Inspection", p)
               E  == {EventCall("inspection_created", Main)}
               L  == {LinkBy("BASED_ON", Main, "ComplianceScan", "scanId", id, FALSE) : id \in scan}
               t1 == EdgesTo("INSPECTS", scope)
               t2 == SetToSeq(L)
    <2>2. IsFiniteSet(scope) /\ IsFiniteSet(scan) BY OneFinite, NamedAssumption, FS_Subset
    <2>3. Lists(t1, E) BY <2>2, PlainEdges
    <2>4. Lists(t2, E)
      <3> DEFINE f == [id \in scan |-> LinkBy("BASED_ON", Main, "ComplianceScan", "scanId", id, FALSE)]
      <3>1. PICK k : k = f OBVIOUS
      <3>4. DOMAIN k = scan /\ L = {k[id] : id \in scan} BY <3>1
      <3>2. IsFiniteSet(L)
        <4> HIDE DEF f, L
        <4> QED BY <2>2, <3>4, FiniteImage
      <3>3. \A x \in L : Plain(x) BY DEF Plain, LinkBy
      <3> HIDE DEF L, E
      <3> QED BY <3>2, <3>3, PlainList
    <2>5. Leads(<<a>>, a, E) BY LeadsOne
    <2> HIDE DEF t1, t2
    <2>6. Leads(<<a>> \o t1, a, E) BY <2>3, <2>5, LeadsConcat
    <2> DEFINE u == <<a>> \o t1 \o t2
               s == WithEvent(u, "inspection_created", Main)
    <2>7. Leads(u, a, E) BY <2>4, <2>6, LeadsConcat
    <2>8. Leads(s, a, E) /\ In(EventCall("inspection_created", Main), s)
      <3>1. EventCall("inspection_created", Main) \in E OBVIOUS
      <3> HIDE DEF u, E
      <3> QED BY <2>7, <3>1, LeadsEvent
    <2>9. ~SignsOff(p) BY <1>1 DEF WithStatus
    <2>10. Handle(c, "inspection", s) BY <2>1 DEF t1, t2, WithEvent
    <2> HIDE DEF s
    <2>11. "Inspection" \notin Sealed BY DEF Sealed, ScanLabels
    <2>12. CreationEvent["Inspection"] = "inspection_created" /\ Told["inspection_created"] = "inspection"
      BY DEF CreationEvent, Told
    <2> QED BY <2>8, <2>9, <2>10, <2>11, <2>12, FreshMain DEF In
  <1>3. CASE CreateFinding(c)
    <2>1. PICK i \in Named["HAS_FINDING"], affected \in SUBSET Named["AFFECTS"], p \in WithStatus("InspectionFinding", "open") :
              Handle(c, "finding",
                  << CreateNode("main", "InspectionFinding", p), CreateEdge("HAS_FINDING", i, Main) >>
                  \o EdgesTo("AFFECTS", affected) \o LogEvent("finding_opened", Main))
      BY <1>3 DEF CreateFinding
    <2> DEFINE a  == CreateNode("main", "InspectionFinding", p)
               b  == CreateEdge("HAS_FINDING", i, Main)
               E  == {EventCall("finding_opened", Main)}
               t1 == EdgesTo("AFFECTS", affected)
    <2>2. IsFiniteSet(affected) BY NamedAssumption, FS_Subset
    <2>3. Lists(t1, E) BY <2>2, PlainEdges
    <2>4. Plain(b) BY DEF Plain, CreateEdge
    <2>5. Leads(<<a, b>>, a, E) BY <2>4, LeadsTwo
    <2> HIDE DEF t1
    <2> DEFINE u == <<a, b>> \o t1
               s == WithEvent(u, "finding_opened", Main)
    <2>7. Leads(u, a, E) BY <2>3, <2>5, LeadsConcat
    <2>8. Leads(s, a, E) /\ In(EventCall("finding_opened", Main), s)
      <3>1. EventCall("finding_opened", Main) \in E OBVIOUS
      <3> HIDE DEF u, E
      <3> QED BY <2>7, <3>1, LeadsEvent
    <2>9. ~SignsOff(p) BY <1>1 DEF WithStatus
    <2>10. Handle(c, "finding", s) BY <2>1 DEF t1, WithEvent
    <2> HIDE DEF s
    <2>11. "InspectionFinding" \notin Sealed BY DEF Sealed, ScanLabels
    <2>12. CreationEvent["InspectionFinding"] = "finding_opened" /\ Told["finding_opened"] = "finding"
      BY DEF CreationEvent, Told
    <2> QED BY <2>8, <2>9, <2>10, <2>11, <2>12, FreshMain DEF In
  <1>4. CASE CreateRemediation(c)
    <2>1. PICK f \in Named["REMEDIATED_BY"], p \in WithStatus("RemediationAction", "pending") :
              Handle(c, "remediation",
                  << CreateNode("main", "RemediationAction", p), CreateEdge("REMEDIATED_BY", f, Main) >>
                  \o LogEvent("remediation_created", Main))
      BY <1>4 DEF CreateRemediation
    <2> DEFINE a == CreateNode("main", "RemediationAction", p)
               b == CreateEdge("REMEDIATED_BY", f, Main)
               E == {EventCall("remediation_created", Main)}
               u == <<a, b>>
               s == WithEvent(u, "remediation_created", Main)
    <2>4. Plain(b) BY DEF Plain, CreateEdge
    <2>5. Leads(u, a, E) BY <2>4, LeadsTwo
    <2>8. Leads(s, a, E) /\ In(EventCall("remediation_created", Main), s)
      <3>1. EventCall("remediation_created", Main) \in E OBVIOUS
      <3> HIDE DEF u, E
      <3> QED BY <2>5, <3>1, LeadsEvent
    <2>9. ~SignsOff(p) BY <1>1 DEF WithStatus
    <2>10. Handle(c, "remediation", s) BY <2>1 DEF WithEvent
    <2> HIDE DEF s
    <2>11. "RemediationAction" \notin Sealed BY DEF Sealed, ScanLabels
    <2>12. CreationEvent["RemediationAction"] = "remediation_created" /\ Told["remediation_created"] = "remediation"
      BY DEF CreationEvent, Told
    <2> QED BY <2>8, <2>9, <2>10, <2>11, <2>12, FreshMain DEF In
  <1>5. CASE SignOffInspection(c)
    <2>1. PICK i \in Named["signoff"] \cap DOMAIN nodes : \E x :
             req' = [req EXCEPT ![c] = Merge(Begin("signoff", <<>>),
                [pc |-> "edges", insp |-> i, label |-> nodes[i].label, approver |-> x, unread |-> {}, unseen |-> {}])]
      BY <1>5 DEF SignOffInspection, Receive
    <2>2. r.op = "signoff" /\ r.todo = <<>> /\ r.insp = i /\ r.label = nodes[i].label
      <3>1. PICK x : req' = [req EXCEPT ![c] = Merge(Begin("signoff", <<>>),
                [pc |-> "edges", insp |-> i, label |-> nodes[i].label, approver |-> x, unread |-> {}, unseen |-> {}])]
        BY <2>1
      <3> QED BY <1>0, <3>1 DEF Blocking, Merge, Begin
    <2>3. i \notin Registers
      <3>1. Named["signoff"] \cap {Main, Part, Event} = {} BY NamedAssumption
      <3> QED BY <3>1 DEF Registers
    <2>4. i[1] \notin Sealed BY DEF SealedUntouched
    <2>5. nodes[i].label \notin Sealed BY <2>4 DEF SealedNamed
    <2>6. Rest(r) BY <2>2, <2>3, <2>4, <2>5 DEF Rest
    <2> QED BY <1>0, <2>2, <2>6, DutyNone, BroughtNone, UntoldNone DEF Fresh
  <1>6. ASSUME req[c].op = "signoff", r.op = "signoff", r.todo = <<>>, r.insp = req[c].insp, r.label = req[c].label
        PROVE  Fresh(req[c], req'[c])
    <2>1. Rest(r) BY <1>6 DEF Rest
    <2> QED BY <1>0, <1>6, <2>1, DutyNone, BroughtNone, UntoldNone DEF Fresh
  <1>7. CASE SignOffEdges(c) \/ SignOffEdgesUnread(c)
    <2>1. PICK hidden : req[c].op = "signoff" /\ EdgesRead(c, hidden)
      BY <1>7 DEF SignOffEdges, SignOffEdgesUnread
    <2>2. r.op = "signoff" /\ r.todo = <<>> /\ r.insp = req[c].insp /\ r.label = req[c].label
      BY <1>0, <2>1 DEF EdgesRead, Blocking, Formed
    <2> QED BY <1>6, <2>1, <2>2
  <1>8. CASE SignOffCheck(c) \/ SignOffCheckUnread(c)
    <2>1. PICK f : /\ req[c].op = "signoff"
                   /\ \/ req' = [req EXCEPT ![c] = Idle]
                      \/ req' = [req EXCEPT ![c].unread = @ \ {f}]
                      \/ req' = [req EXCEPT ![c].unread = @ \ {f}, ![c].unseen = @ \cup {f}]
      BY <1>8 DEF SignOffCheck, SignOffCheckUnread
    <2>2. CASE req' = [req EXCEPT ![c] = Idle]
      <3>1. r = Idle BY <1>0, <2>2 DEF Blocking
      <3> QED BY <1>0, <3>1, FreshIdle
    <2>3. CASE req' # [req EXCEPT ![c] = Idle]
      <3>1. r.op = "signoff" /\ r.todo = <<>> /\ r.insp = req[c].insp /\ r.label = req[c].label
        BY <1>0, <2>1, <2>3 DEF Blocking, Formed
      <3> QED BY <1>6, <2>1, <3>1
    <2> QED BY <2>2, <2>3
  <1>9. CASE SignOffWrite(c)
    <2>1. PICK i, l, x : i = req[c].insp /\ l = req[c].label /\ x = req[c].approver OBVIOUS
    <2>2. req[c].op = "signoff" BY <1>9 DEF SignOffWrite
    <2>3. i \notin Registers /\ i[1] \notin Sealed /\ l \notin Sealed BY <2>1, <2>2 DEF Rest
    <2> DEFINE p == [status |-> "signed_off", approverId |-> x]
               a == UpsertNode(i, l, p)
               b == LinkBy("APPROVED_BY", i, "Agent", "agentId", x, FALSE)
               E == {EventCall("inspection_signed_off", i)}
               u == <<a, b>>
               s == WithEvent(u, "inspection_signed_off", i)
    <2>4. Plain(b) BY DEF Plain, LinkBy
    <2>5. Leads(u, a, E) BY <2>4, LeadsTwo
    <2>6. Leads(s, a, E) /\ In(EventCall("inspection_signed_off", i), s)
      <3>1. EventCall("inspection_signed_off", i) \in E OBVIOUS
      <3> HIDE DEF u, E
      <3> QED BY <2>5, <3>1, LeadsEvent
    <2>7. r.op = "signing" /\ r.todo = s
      BY <1>0, <1>9, <2>1 DEF SignOffWrite, Proceed, Blocking, WithEvent
    <2> HIDE DEF s
    <2>8. Told["inspection_signed_off"] = "signing" BY DEF Told
    <2>9. Duty(r) /\ \E j \in DOMAIN r.todo : Decisive(r.todo[j])
      BY <2>3, <2>6, <2>7, <2>8, DutyUpsert DEF In
    <2>10. Untold(r) BY <2>9 DEF Untold
    <2>11. Brought(req[c], r)
      <3>1. PICK S : /\ r.todo \in Seq(S) /\ r.todo[1] = a
                     /\ \A k \in DOMAIN r.todo : k > 1 => Plain(r.todo[k]) \/ r.todo[k] \in E
        BY <2>6, <2>7 DEF Leads
      <3>2. \A k \in DOMAIN r.todo : k = 1 \/ k > 1 BY <3>1
      <3>3. \A y \in E : y.call = "node" BY DEF EventCall, CreateNode
      <3>4. a.id = i /\ a.label = l BY DEF UpsertNode
      <3> HIDE DEF a, E
      <3>5. ASSUME NEW k \in DOMAIN r.todo, r.todo[k].call = "upsert"
            PROVE  r.todo[k].id = i /\ r.todo[k].label = l
        BY <3>1, <3>2, <3>3, <3>4, <3>5 DEF Plain
      <3> QED BY <2>1, <2>2, <3>5 DEF Brought
    <2>12. Rest(r) BY <2>7 DEF Rest
    <2> QED BY <1>0, <2>7, <2>9, <2>10, <2>11, <2>12 DEF Fresh
  <1> QED BY <1>2, <1>3, <1>4, <1>5, <1>7, <1>8, <1>9 DEF Inspect

-----------------------------------------------------------------------------
(* Calls: what they leave a request to do, and what they do.                  *)

\* A request that is executed has its registers.
RegsHeld(r) == r.op # "idle" => DOMAIN r.regs = {"main", "part", "event"}

LEMMA RegsBegin ==
    ASSUME NEW op, NEW todo, NEW new, "regs" \notin DOMAIN new
    PROVE  RegsHeld(Begin(op, todo)) /\ RegsHeld(Merge(Begin(op, todo), new))
  BY DEF RegsHeld, Begin, NoRegs, Merge

\* Steps that are no calls leave the registers of a request, or make new ones.
LEMMA RegsKept ==
    ASSUME Blocking, NEW c \in Client, RegsHeld(req[c]),
           \/ Register(c) \/ Validation(c) \/ Scan(c) \/ Inspect(c) \/ Answer(c)
           \/ SingletonUnread(c) \/ RuleFails(c) \/ SignOffEdgesUnread(c) \/ SignOffCheckUnread(c)
    PROVE  RegsHeld(req'[c])
  <1>0. PICK r : r = req'[c] OBVIOUS
  <1>1. ASSUME NEW op, NEW todo, Handle(c, op, todo) PROVE RegsHeld(r)
    <2>1. r = Begin(op, todo) BY <1>0, <1>1 DEF Handle, Receive, Blocking
    <2> QED BY <2>1 DEF RegsHeld, Begin, NoRegs
  <1>2. ASSUME r.regs = req[c].regs, req[c].op # "idle" PROVE RegsHeld(r)
    BY <1>2 DEF RegsHeld
  <1>3. ASSUME r = Idle PROVE RegsHeld(r)
    BY <1>3 DEF RegsHeld, Idle
  <1>4. CASE Register(c) \/ SingletonUnread(c)
    BY <1>0, <1>1, <1>4 DEF Register, GDPRCreate, GDPRCreateWithEdges, GDPRUpsertSingleton, SingletonUnread, Singleton, Update,
        Delete, PostEdge, DataFlowCreate
  <1>5. CASE CreateInspection(c) \/ CreateFinding(c) \/ CreateRemediation(c)
    BY <1>0, <1>1, <1>5 DEF CreateInspection, CreateFinding, CreateRemediation
  <1>6. CASE Answer(c) \/ ScanCanceled(c)
    BY <1>0, <1>3, <1>6 DEF Answer, ScanCanceled, Blocking
  <1>7. ASSUME NEW op, NEW new, "regs" \notin DOMAIN new, req' = [req EXCEPT ![c] = Merge(Begin(op, <<>>), new)]
        PROVE  RegsHeld(r)
    <2>1. r = Merge(Begin(op, <<>>), new) BY <1>0, <1>7 DEF Blocking
    <2> QED BY <1>7, <2>1, RegsBegin
  <1>8. CASE ValidateDataFlows(c)
    <2>1. PICK insp : req' = [req EXCEPT ![c] = Merge(Begin("validate", <<>>),
                  [insp |-> insp, flows |-> [f \in NodesByLabel(G, "DataFlow") |-> nodes[f]]])]
      BY <1>8 DEF ValidateDataFlows, Receive
    <2> QED BY <1>0, <1>7, <2>1
  <1>9. CASE RunScan(c) \/ SchedulerScan(c)
    <2>1. PICK fw, R : req' = [req EXCEPT ![c] = Merge(Begin("scan", <<>>),
                  [id |-> scanSeq + 1, framework |-> fw, results |-> {}, rules |-> R])]
      BY <1>9 DEF RunScan, SchedulerScan, Receive
    <2>2. PICK new : new = [id |-> scanSeq + 1, framework |-> fw, results |-> {}, rules |-> R] OBVIOUS
    <2>3. "regs" \notin DOMAIN new BY <2>2
    <2> QED BY <1>0, <1>7, <2>1, <2>2, <2>3
  <1>10. CASE SignOffInspection(c)
    <2>1. PICK i, l, x : req' = [req EXCEPT ![c] = Merge(Begin("signoff", <<>>),
                [pc |-> "edges", insp |-> i, label |-> l, approver |-> x, unread |-> {}, unseen |-> {}])]
      BY <1>10 DEF SignOffInspection, Receive
    <2>2. PICK new : new = [pc |-> "edges", insp |-> i, label |-> l, approver |-> x, unread |-> {}, unseen |-> {}]
      OBVIOUS
    <2>3. "regs" \notin DOMAIN new BY <2>2
    <2> QED BY <1>0, <1>7, <2>1, <2>2, <2>3
  <1>11. CASE ValidateFlow(c) \/ ScanRule(c) \/ RuleFails(c) \/ StoreNext(c)
    BY <1>0, <1>2, <1>11 DEF ValidateFlow, ScanRule, RuleFails, Scanned, StoreNext, Blocking, Formed
  <1>12. CASE SignOffEdges(c) \/ SignOffEdgesUnread(c)
    <2>1. PICK hidden : req[c].op = "signoff" /\ EdgesRead(c, hidden)
      BY <1>12 DEF SignOffEdges, SignOffEdgesUnread
    <2>2. r.regs = req[c].regs BY <1>0, <2>1 DEF EdgesRead, Blocking, Formed
    <2> QED BY <1>0, <1>2, <2>1, <2>2
  <1>13. CASE SignOffCheck(c) \/ SignOffCheckUnread(c)
    BY <1>0, <1>2, <1>3, <1>13 DEF SignOffCheck, SignOffCheckUnread, Blocking, Formed
  <1>14. CASE ValidateEnd(c) \/ SignOffWrite(c)
    <2>1. PICK op, todo : req' = [req EXCEPT ![c] = Proceed(c, op, todo)] /\ req[c].op # "idle"
      BY <1>14 DEF ValidateEnd, SignOffWrite
    <2>2. r.regs = req[c].regs BY <1>0, <2>1 DEF Blocking, Proceed
    <2> QED BY <1>0, <1>2, <2>1, <2>2
  <1>15. CASE storeScanResults(c)
    <2>1. PICK todo, R : req' = [req EXCEPT ![c] = Merge(Proceed(c, "scanned", todo), [results |-> R, storing |-> {}])]
      BY <1>15 DEF storeScanResults
    <2>2. r.regs = req[c].regs BY <1>0, <2>1 DEF Blocking, Proceed, Merge
    <2> QED BY <1>0, <1>2, <1>15, <2>2 DEF storeScanResults
  <1> QED BY <1>0, <1>4, <1>5, <1>6, <1>8, <1>9, <1>10, <1>11, <1>12, <1>13, <1>14, <1>15
       DEF Validation, Scan, Inspect

\* The request is given up, or the call is made or passed over, alone or with the
\* rest of the calls.
Goes(r, q) ==
    /\ r.op # "idle" /\ r.todo # <<>>
    /\ \/ q = Idle
       \/ /\ q.op = r.op /\ q.todo \in {<<>>, Tail(r.todo)} /\ RegsHeld(q)
          /\ Rest(r) => Rest(q)
          /\ q.op # "signoff"

LEMMA CallsGo ==
    ASSUME Blocking, NEW c \in Client, RegsHeld(req[c]), GraphCall(c) \/ UpsertUnread(c) \/ CallFails(c)
    PROVE  /\ req' = [req EXCEPT ![c] = req'[c]] /\ Goes(req[c], req'[c])
           /\ GraphCall(c) \/ UpsertUnread(c) => req'[c].op = req[c].op /\ req'[c].todo = Tail(req[c].todo)
           /\ ~NodeCall(c) /\ req'[c].op # "idle" => req'[c].regs = req[c].regs
  <1>0. PICK r : r = req[c] OBVIOUS
  <1>1. /\ Calling(c) /\ r.op # "idle" /\ r.todo # <<>> /\ r.op \notin {"signoff", "scan"}
        /\ {"op", "todo", "regs", "made"} \subseteq DOMAIN r
    BY <1>0 DEF GraphCall, UpsertUnread, CallFails, Calling, Blocking, Formed
  <1>2. PICK k : k = Called(c) OBVIOUS
  <1>3. DOMAIN k = DOMAIN r /\ k.op = r.op /\ k.todo = Tail(r.todo) /\ k.regs = r.regs
        /\ \A f \in DOMAIN r \ {"todo", "made"} : k[f] = r[f]
    BY <1>0, <1>1, <1>2 DEF Called
  <1>4. ASSUME NEW q, DOMAIN q = DOMAIN r, \A f \in DOMAIN r \ {"todo", "made", "regs"} : q[f] = r[f],
               q.todo \in {<<>>, Tail(r.todo)}, DOMAIN q.regs = DOMAIN r.regs
        PROVE  Goes(r, q)
    <2>1. q.op = r.op BY <1>1, <1>4
    <2>2. RegsHeld(q) BY <1>0, <1>1, <1>4 DEF RegsHeld
    <2>3. r.op = "validate" => q.insp = r.insp BY <1>0, <1>4 DEF Blocking, Formed
    <2>4. r.op = "scanned" => q.results = r.results BY <1>0, <1>4 DEF Blocking, Formed
    <2>5. Rest(r) => Rest(q) BY <1>1, <2>1, <2>3, <2>4 DEF Rest
    <2> QED BY <1>1, <1>4, <2>1, <2>2, <2>5 DEF Goes
  <1>5. CASE req' = [req EXCEPT ![c] = Called(c)]
    <2>1. req'[c] = k /\ req' = [req EXCEPT ![c] = req'[c]] BY <1>2, <1>5 DEF Blocking
    <2> QED BY <1>0, <1>3, <1>4, <2>1
  <1>6. CASE NodeCall(c)
    <2>1. PICK g, id : req' = [req EXCEPT ![c] = [Called(c) EXCEPT !.regs[g] = id]]
      BY <1>6 DEF NodeCall
    <2>2. PICK q : q = [k EXCEPT !.regs[g] = id] OBVIOUS
    <2>3. req'[c] = q /\ req' = [req EXCEPT ![c] = req'[c]] BY <1>2, <2>1, <2>2 DEF Blocking
    <2>4. DOMAIN q = DOMAIN r /\ q.todo = Tail(r.todo) /\ DOMAIN q.regs = DOMAIN r.regs
          /\ \A f \in DOMAIN r \ {"todo", "made", "regs"} : q[f] = r[f]
      BY <1>1, <1>3, <2>2
    <2>5. q.op = r.op BY <1>1, <2>4
    <2> QED BY <1>0, <1>4, <1>6, <2>3, <2>4, <2>5
  <1>7. CASE CallFails(c) /\ ~(req' = [req EXCEPT ![c] = Called(c)])
    <2>1. CASE req' = [req EXCEPT ![c] = Idle]
      <3>1. req'[c] = Idle /\ req' = [req EXCEPT ![c] = req'[c]] BY <2>1 DEF Blocking
      <3>2. ~(GraphCall(c) \/ UpsertUnread(c))
        <4>1. req'[c].op = "idle" BY <3>1 DEF Idle
        <4>2. SUFFICES ASSUME GraphCall(c) \/ UpsertUnread(c) PROVE FALSE OBVIOUS
        <4>3. req' = [req EXCEPT ![c] = Called(c)] \/ NodeCall(c)
          BY <4>2 DEF GraphCall, EdgeCall, Upsert, DeleteCall, UpsertUnread
        <4>4. NodeCall(c) BY <1>7, <4>3
        <4>5. PICK g, id : req' = [req EXCEPT ![c] = [Called(c) EXCEPT !.regs[g] = id]]
          BY <4>4 DEF NodeCall
        <4>6. PICK q : q = [k EXCEPT !.regs[g] = id] OBVIOUS
        <4>7. req'[c] = q BY <1>2, <4>5, <4>6 DEF Blocking
        <4>8. q.op = r.op BY <1>1, <1>3, <4>6
        <4> QED BY <1>1, <4>1, <4>7, <4>8
      <3>3. Goes(r, Idle) BY <1>1 DEF Goes
      <3> QED BY <1>0, <3>1, <3>2, <3>3 DEF Idle
    <2>2. CASE req' = [req EXCEPT ![c] = [Called(c) EXCEPT !.todo = <<>>]] /\ ~(GraphCall(c) \/ UpsertUnread(c))
      <3>1. PICK q : q = [k EXCEPT !.todo = <<>>] OBVIOUS
      <3>2. req'[c] = q /\ req' = [req EXCEPT ![c] = req'[c]] BY <1>2, <2>2, <3>1 DEF Blocking
      <3>3. DOMAIN q = DOMAIN r /\ q.todo = <<>> /\ q.regs = r.regs
            /\ \A f \in DOMAIN r \ {"todo", "made", "regs"} : q[f] = r[f]
        BY <1>1, <1>3, <3>1
      <3> QED BY <1>0, <1>4, <2>2, <3>2, <3>3
    <2>3. GraphCall(c) \/ UpsertUnread(c) => req' = [req EXCEPT ![c] = Called(c)] \/ NodeCall(c)
      BY DEF GraphCall, EdgeCall, Upsert, DeleteCall, UpsertUnread
    <2> QED BY <1>6, <1>7, <2>1, <2>2, <2>3 DEF CallFails
  <1> QED BY <1>5, <1>6, <1>7 DEF GraphCall, EdgeCall, Upsert, DeleteCall, UpsertUnread

\* The calls of q are those of r but for the first, and are neither decisive nor parts.
RestOf(r, q) ==
    /\ \A i \in DOMAIN q.todo : /\ i + 1 \in DOMAIN r.todo /\ q.todo[i] = r.todo[i + 1]
                                /\ ~Decisive(q.todo[i]) /\ ~IsPart(q.todo[i])
    /\ \A i \in DOMAIN r.todo : i = 1 \/ (i - 1 \in DOMAIN q.todo /\ q.todo[i - 1] = r.todo[i])

\* What is left of the calls of a request when the first of them has been made.
LEMMA DutyTail ==
    ASSUME NEW r, NEW q, Duty(r), r.op # "idle", r.todo # <<>>, q.op = r.op, q.todo = Tail(r.todo)
    PROVE  Duty(q) /\ 1 \in DOMAIN r.todo /\ Head(r.todo) = r.todo[1] /\ RestOf(r, q)
  <1>1. PICK S : r.todo \in Seq(S) BY DEF Duty
  <1> DEFINE s == r.todo
             t == q.todo
  <1>2. /\ s \in Seq(S) /\ Len(s) \in Nat /\ Len(s) > 0 /\ DOMAIN s = 1..Len(s)
        /\ Head(s) = s[1] /\ t \in Seq(S) /\ DOMAIN t = 1..(Len(s) - 1)
        /\ \A i \in 1..(Len(s) - 1) : t[i] = s[i + 1]
    BY <1>1, HeadTailProperties, EmptySeq
  <1> HIDE DEF s, t
  <1>3. \A i \in DOMAIN t : i \in Int /\ i > 0 /\ i + 1 # 1 /\ i + 1 \in DOMAIN s /\ t[i] = s[i + 1]
    BY <1>2
  <1>4. \A i \in DOMAIN s : i = 1 \/ (i - 1 \in DOMAIN t /\ t[i - 1] = s[i])
    <2> SUFFICES ASSUME NEW i \in DOMAIN s, i # 1 PROVE i - 1 \in DOMAIN t /\ t[i - 1] = s[i] OBVIOUS
    <2>1. i - 1 \in 1..(Len(s) - 1) /\ (i - 1) + 1 = i BY <1>2
    <2> QED BY <1>2, <2>1
  <1>5. \A i \in DOMAIN s : /\ Decisive(s[i]) \/ IsPart(s[i]) => i = 1
                            /\ Kind(r.op, s[i])
                            /\ \A j \in DOMAIN s : IsEvent(s[j]) =>
                                  (IsEvent(s[i]) => s[i] = s[j]) /\ Fits(r.op, s[i], s[j])
    BY DEF Duty, s
  <1>6. \A i \in DOMAIN t : ~Decisive(t[i]) /\ ~IsPart(t[i]) BY <1>3, <1>5
  <1>7. ASSUME NEW i \in DOMAIN t PROVE Due(t, t[i])
    <2>1. Kind(r.op, t[i]) /\ ~Decisive(t[i]) /\ ~IsPart(t[i]) BY <1>3, <1>5, <1>6
    <2>2. t[i].call # "upsert" BY <2>1 DEF Decisive
    <2>3. ASSUME t[i].call = "node" PROVE t[i].label \notin DOMAIN CreationEvent
      <3>1. t[i].reg \notin {"main", "part"} BY <2>1, <2>3 DEF Decisive, IsPart
      <3>2. t[i] = EventCall(t[i].props.eventType, t[i].props.relatedNodeId)
        BY <2>1, <2>3, <3>1 DEF Kind, Plain
      <3>3. t[i].label = "ComplianceEvent" BY <3>2 DEF EventCall, CreateNode
      <3> QED BY <3>3 DEF CreationEvent
    <2> QED BY <2>2, <2>3 DEF Due
  <1>8. Duty(q)
    <2>1. \E T : t \in Seq(T) BY <1>2
    <2>2. \A i \in DOMAIN t : Kind(q.op, t[i]) BY <1>3, <1>5
    <2>3. \A i \in DOMAIN t : \A j \in DOMAIN t : IsEvent(t[j]) =>
             (IsEvent(t[i]) => t[i] = t[j]) /\ Fits(q.op, t[i], t[j])
      BY <1>3, <1>5
    <2>4. \A i \in DOMAIN t :
            /\ Decisive(t[i]) \/ IsPart(t[i]) => i = 1
            /\ Kind(q.op, t[i]) /\ Due(t, t[i])
            /\ \A j \in DOMAIN t : IsEvent(t[j]) =>
                  /\ IsEvent(t[i]) => t[i] = t[j]
                  /\ Fits(q.op, t[i], t[j])
      BY <1>6, <1>7, <2>2, <2>3
    <2> QED BY <2>1, <2>4 DEF Duty, t
  <1>9. 1 \in DOMAIN s /\ Head(s) = s[1] BY <1>2
  <1> QED BY <1>3, <1>4, <1>6, <1>8, <1>9 DEF s, t, RestOf

\* The node that an event of request r is about.
About(r, e) == IF e.props.relatedNodeId = Main THEN r.regs["main"] ELSE e.props.relatedNodeId

LEMMA StoredIs ==
    ASSUME NEW c, NEW op, NEW a, Kind(op, a)
    PROVE  /\ Stored(c, a).call = a.call
           /\ ~IsEvent(a) => Stored(c, a) = a
           /\ IsEvent(a) => /\ a = EventCall(a.props.eventType, a.props.relatedNodeId)
                            /\ Stored(c, a) = EventCall(a.props.eventType, About(req[c], a))
  <1>1. CASE ~IsEvent(a) BY <1>1 DEF Stored, IsEvent
  <1>2. CASE IsEvent(a)
    <2>1. a = EventCall(a.props.eventType, a.props.relatedNodeId) /\ a.props.relatedNodeId \notin {Part, Event}
      BY <1>2 DEF Kind, IsEvent, Plain
    <2>2. PICK et, rn : et = a.props.eventType /\ rn = a.props.relatedNodeId OBVIOUS
    <2>3. a = EventCall(et, rn) /\ rn \notin {Part, Event} BY <2>1, <2>2
    <2>4. Stored(c, a) = EventCall(et, Resolve(c, rn))
      BY <1>2, <2>3 DEF Stored, IsEvent, EventCall, CreateNode
    <2>5. Resolve(c, rn) = About(req[c], a)
      BY <2>2, <2>3 DEF Resolve, About, Main
    <2>6. a.call = "node" /\ EventCall(et, Resolve(c, rn)).call = "node" BY <2>3 DEF EventCall, CreateNode
    <2> QED BY <1>2, <2>1, <2>2, <2>4, <2>5, <2>6
  <1> QED BY <1>1, <1>2

\* What a call that is made does to the nodes; a is the call.
NodeDone(c, a, id) ==
    /\ a.call = "node" /\ id \notin given /\ id[1] = a.label
    /\ nodes' = Put(nodes, id, [label |-> a.label, props |-> Stored(c, a).props])
    /\ given' = given \cup {id}
    /\ req'[c].regs["main"] = IF a.reg = "main" THEN id ELSE req[c].regs["main"]
    /\ done' = done \cup IF a.reg = "main" THEN {<<req[c].op, id>>} ELSE {}
UpsertDone(c, a) ==
    /\ a.call = "upsert"
    /\ \/ a.id \in DOMAIN nodes /\ nodes' = Put(nodes, a.id, [nodes[a.id] EXCEPT !.props = Merge(@, a.props)])
       \/ nodes' = Put(nodes, a.id, [label |-> a.label, props |-> a.props])
    /\ given' = given /\ done' = done \cup {<<req[c].op, a.id>>}
    /\ req'[c].regs = req[c].regs
DeleteDone(c, a) ==
    /\ a.call = "delete"
    /\ nodes' = [n \in DOMAIN nodes \ {a.id} |-> nodes[n]]
    /\ given' = given /\ done' = done
    /\ req'[c].regs = req[c].regs
EdgeDone(c, a) ==
    /\ a.call \in {"edge", "link"}
    /\ nodes' = nodes /\ given' = given /\ done' = done
    /\ req'[c].regs = req[c].regs

LEMMA CallsDo ==
    ASSUME Blocking, NEW c \in Client, RegsHeld(req[c]), Duty(req[c]), GraphCall(c) \/ UpsertUnread(c),
           NEW a, a = req[c].todo[1]
    PROVE  (\E id : NodeDone(c, a, id)) \/ UpsertDone(c, a) \/ DeleteDone(c, a) \/ EdgeDone(c, a)
  <1>1. req[c].op # "idle" /\ req[c].todo # <<>>
    BY DEF GraphCall, UpsertUnread, Calling
  <1>2. Head(req[c].todo) = a /\ Kind(req[c].op, a)
    <2>1. req'[c].op = req[c].op /\ req'[c].todo = Tail(req[c].todo) BY CallsGo
    <2>2. Head(req[c].todo) = a /\ 1 \in DOMAIN req[c].todo BY <1>1, <2>1, DutyTail
    <2> QED BY <1>1, <2>2 DEF Duty
  <1>3. Call(c) = Stored(c, a) /\ Stored(c, a).call = a.call /\ (a.call # "node" => Call(c) = a)
    BY <1>2, StoredIs DEF Call, IsEvent
  <1>4. a.call = "node" => Call(c).reg = a.reg /\ Call(c).label = a.label
    <2>1. CASE ~IsEvent(a) BY <1>2, <1>3, <2>1, StoredIs
    <2>2. CASE IsEvent(a)
      <3>1. a = EventCall(a.props.eventType, a.props.relatedNodeId)
            /\ Call(c) = EventCall(a.props.eventType, About(req[c], a))
        BY <1>2, <1>3, <2>2, StoredIs
      <3>2. \A x, y : EventCall(x, y).reg = "event" /\ EventCall(x, y).label = "ComplianceEvent"
        BY DEF EventCall, CreateNode
      <3> QED BY <3>1, <3>2
    <2> QED BY <2>1, <2>2
  <1>5. CASE NodeCall(c)
    <2>1. a.call = "node" BY <1>3, <1>5 DEF NodeCall
    <2>2. PICK id \in NewID(c, a.label, DOMAIN nodes, given) :
             /\ nodes' = Put(nodes, id, [label |-> a.label, props |-> Call(c).props])
             /\ given' = given \cup {id}
             /\ req' = [req EXCEPT ![c] = [Called(c) EXCEPT !.regs[a.reg] = id]]
             /\ done' = done \cup IF a.reg = "main" THEN {<<req[c].op, id>>} ELSE {}
      BY <1>4, <1>5, <2>1 DEF NodeCall
    <2>3. id \notin given /\ id[1] = a.label BY DEF NewID
    <2>4. req'[c].regs["main"] = IF a.reg = "main" THEN id ELSE req[c].regs["main"]
      <3>1. PICK k : k = Called(c) OBVIOUS
      <3>2. k.regs = req[c].regs /\ "regs" \in DOMAIN k /\ "main" \in DOMAIN k.regs
        BY <1>1, <3>1 DEF Called, Blocking, Formed, RegsHeld
      <3>3. req'[c] = [k EXCEPT !.regs[a.reg] = id] BY <2>2, <3>1 DEF Blocking
      <3> QED BY <3>2, <3>3
    <2>5. NodeDone(c, a, id) BY <1>3, <2>1, <2>2, <2>3, <2>4 DEF NodeDone
    <2> QED BY <2>5
  <1>6. ASSUME req' = [req EXCEPT ![c] = Called(c)] PROVE req'[c].regs = req[c].regs
    BY <1>1, <1>6 DEF Called, Blocking, Formed
  <1>7. CASE EdgeCall(c)
    <2>1. a.call \in {"edge", "link"} /\ nodes' = nodes /\ given' = given /\ done' = done
      BY <1>3, <1>7 DEF EdgeCall, NewEdge, graph
    <2> QED BY <1>6, <1>7, <2>1 DEF EdgeCall, EdgeDone
  <1>8. ASSUME NEW Seen \in SUBSET DOMAIN nodes, Upsert(c, Seen) PROVE UpsertDone(c, a)
    <2>1. a.call = "upsert" /\ Call(c) = a BY <1>3, <1>8 DEF Upsert
    <2> QED BY <1>6, <1>8, <2>1 DEF Upsert, UpsertDone
  <1>9. CASE DeleteCall(c)
    <2>1. a.call = "delete" /\ Call(c) = a BY <1>3, <1>9 DEF DeleteCall
    <2> QED BY <1>6, <1>9, <2>1 DEF DeleteCall, DeleteDone
  <1> QED BY <1>5, <1>7, <1>8, <1>9 DEF GraphCall, UpsertUnread

LEMMA FailsDo ==
    ASSUME Blocking, NEW c \in Client, RegsHeld(req[c]), Duty(req[c]), CallFails(c),
           NEW a, a = req[c].todo[1]
    PROVE  /\ UNCHANGED <<nodes, given, done>> /\ unlogged \subseteq unlogged'
           /\ Decisive(a) => req'[c] = Idle
           /\ ~Decisive(a) => req'[c].regs = req[c].regs /\ req'[c].op = req[c].op
           /\ ~Decisive(a) /\ a.call = "node" => req'[c].todo = <<>>
           /\ ~Decisive(a) /\ a.call # "node" => req'[c].todo = Tail(req[c].todo)
           /\ IsEvent(a) => <<a.props.eventType, About(req[c], a)>> \in unlogged'
  <1>1. req[c].op # "idle" /\ req[c].todo # <<>> /\ {"op", "todo", "regs", "made"} \subseteq DOMAIN req[c]
    BY DEF CallFails, Calling, Blocking, Formed
  <1>2. Head(req[c].todo) = a /\ Kind(req[c].op, a)
    <2>1. PICK q : q = [req[c] EXCEPT !.todo = Tail(@)] OBVIOUS
    <2>2. q.op = req[c].op /\ q.todo = Tail(req[c].todo) BY <1>1, <2>1
    <2>3. Head(req[c].todo) = a /\ 1 \in DOMAIN req[c].todo BY <1>1, <2>2, DutyTail
    <2> QED BY <1>1, <2>3 DEF Duty
  <1>3. /\ Call(c) = Stored(c, a) /\ Call(c).call = a.call /\ (~IsEvent(a) => Call(c) = a)
        /\ IsEvent(a) => /\ a = EventCall(a.props.eventType, a.props.relatedNodeId)
                         /\ Call(c) = EventCall(a.props.eventType, About(req[c], a))
    BY <1>2, StoredIs DEF Call
  <1>4. \A x, y : /\ EventCall(x, y).call = "node" /\ EventCall(x, y).reg = "event"
                  /\ EventCall(x, y).props.eventType = x /\ EventCall(x, y).props.relatedNodeId = y
    BY DEF EventCall, CreateNode
  <1>5. Decisive(Call(c)) <=> Decisive(a)
    <2>1. CASE IsEvent(a)
      <3>1. a.call = "node" /\ a.reg = "event" /\ Call(c).call = "node" /\ Call(c).reg = "event" BY <1>3, <1>4, <2>1
      <3> QED BY <3>1 DEF Decisive
    <2>2. CASE ~IsEvent(a) BY <1>3, <2>2
    <2> QED BY <2>1, <2>2
  <1>6. UNCHANGED <<nodes, given, done>> /\ unlogged \subseteq unlogged' BY DEF CallFails, graph
  <1>7. PICK k : k = Called(c) OBVIOUS
  <1>8. k.op = req[c].op /\ k.todo = Tail(req[c].todo) /\ k.regs = req[c].regs /\ {"op", "todo", "regs"} \subseteq DOMAIN k
    BY <1>1, <1>7 DEF Called
  <1>9. req' = [req EXCEPT ![c] = IF Decisive(Call(c)) THEN Idle
                                  ELSE IF Call(c).call = "node" THEN [k EXCEPT !.todo = <<>>] ELSE k]
    BY <1>7 DEF CallFails
  <1>10. CASE Decisive(a)
    <2>1. req'[c] = Idle /\ ~IsEvent(a)
      <3>1. ~IsEvent(a)
        <4>1. IsEvent(a) => a.call = "node" /\ a.reg = "event" BY <1>3, <1>4
        <4> QED BY <1>10, <4>1 DEF Decisive
      <3> QED BY <1>5, <1>9, <1>10, <3>1 DEF Blocking
    <2> QED BY <1>6, <1>10, <2>1
  <1>11. CASE ~Decisive(a)
    <2>1. req'[c] = IF a.call = "node" THEN [k EXCEPT !.todo = <<>>] ELSE k
      BY <1>3, <1>5, <1>9, <1>11 DEF Blocking
    <2>2. req'[c].regs = req[c].regs /\ req'[c].op = req[c].op
          /\ (a.call = "node" => req'[c].todo = <<>>) /\ (a.call # "node" => req'[c].todo = Tail(req[c].todo))
      BY <1>8, <2>1
    <2>3. IsEvent(a) => <<a.props.eventType, About(req[c], a)>> \in unlogged'
      BY <1>3, <1>4 DEF CallFails
    <2> QED BY <1>6, <1>11, <2>2, <2>3
  <1> QED BY <1>10, <1>11

-----------------------------------------------------------------------------
(* The audit log.                                                             *)

\* Request r has done what an event is about, and is still to write the event.
Owes(r, type, n) ==
    /\ r.op # "idle" /\ \A i \in DOMAIN r.todo : ~Decisive(r.todo[i])
    /\ \E i \in DOMAIN r.todo : /\ IsEvent(r.todo[i]) /\ r.todo[i].props.eventType = type
                                /\ About(r, r.todo[i]) = n

Covered(type, n) ==
    Logged(type, n) \/ (\E c \in Client : Owes(req[c], type, n)) \/ <<type, n>> \in unlogged

\* A node that no PUT has brought into being, or one whose update is told.
Base(n) == n \in given \cup DOMAIN Seeded.nodes \/ \E l \in DOMAIN EventOf : Covered(EventOf[l], n)

\* The inductive invariant: what requests have left to do, and what is covered.
Dutiful == /\ Blocking /\ SealedNamed /\ WellKept(nodes, edges)
           /\ \A c \in Client : RegsHeld(req[c]) /\ Duty(req[c]) /\ Rest(req[c])

PutsTold ==
    /\ \A c \in Client : req[c].op # "idle" => \A i \in DOMAIN req[c].todo : \A l \in DOMAIN EventOf : \A n :
          req[c].todo[i].call = "upsert" /\ req[c].todo[i].label = l /\ req[c].todo[i].id = n =>
             In(EventCall(EventOf[l], n), req[c].todo) \/ Base(n)
    /\ \A c \in Client : \A n :
          req[c].op = "signoff" /\ req[c].label \in DOMAIN EventOf /\ req[c].insp = n => Base(n)
    /\ \A n \in DOMAIN nodes : nodes[n].label \in DOMAIN EventOf => Base(n)

Created == \A n \in given : n[1] \in DOMAIN CreationEvent => Covered(CreationEvent[n[1]], n)

Signed ==
    \A n \in DOMAIN nodes : SignsOff(nodes[n].props) =>
        \/ Covered("inspection_signed_off", n)
        \/ n \in DOMAIN Seeded.nodes /\ SignsOff(Seeded.nodes[n].props)

Truth ==
    /\ AuditTruthful
    /\ \A c \in Client : req[c].op # "idle" /\ (\A i \in DOMAIN req[c].todo : ~Decisive(req[c].todo[i])) =>
          \A i \in DOMAIN req[c].todo :
             IsEvent(req[c].todo[i]) /\ req[c].todo[i].props.eventType \in DOMAIN Told =>
                <<Told[req[c].todo[i].props.eventType], About(req[c], req[c].todo[i])>> \in done

\* The kinds of steps.
Quiet == UNCHANGED <<nodes, given, done, unlogged, req>>
GoesOn(c) ==
    /\ req' = [req EXCEPT ![c] = req'[c]] /\ UNCHANGED <<nodes, given, done, unlogged>>
    /\ req[c].op = "idle" \/ req[c].todo = <<>>
    /\ Fresh(req[c], req'[c]) /\ RegsHeld(req'[c])
Calls(c) == GraphCall(c) \/ UpsertUnread(c)

\* A step that is no call is of an idle request, or of one that has no calls to make.
LEMMA Unbusy ==
    ASSUME Blocking, NEW c \in Client,
           \/ Register(c) \/ Validation(c) \/ Scan(c) \/ Inspect(c) \/ Answer(c)
           \/ SingletonUnread(c) \/ RuleFails(c) \/ SignOffEdgesUnread(c) \/ SignOffCheckUnread(c)
    PROVE  (req[c].op = "idle" \/ req[c].todo = <<>>) /\ UNCHANGED unlogged
  <1>1. ASSUME NEW op, NEW r, Receive(c, op, r) PROVE req[c].op = "idle" /\ UNCHANGED unlogged
    BY <1>1 DEF Receive, history
  <1>2. CASE Register(c) \/ SingletonUnread(c)
    BY <1>1, <1>2 DEF Register, GDPRCreate, GDPRCreateWithEdges, GDPRUpsertSingleton, SingletonUnread, Singleton, Update,
        Delete, PostEdge, DataFlowCreate, Handle
  <1>3. CASE CreateInspection(c) \/ CreateFinding(c) \/ CreateRemediation(c)
    BY <1>1, <1>3 DEF CreateInspection, CreateFinding, CreateRemediation, Handle
  <1>4. CASE ValidateDataFlows(c) \/ RunScan(c) \/ SchedulerScan(c) \/ SignOffInspection(c)
    BY <1>1, <1>4 DEF ValidateDataFlows, RunScan, SchedulerScan, SignOffInspection
  <1>5. CASE ValidateFlow(c) \/ ValidateEnd(c) \/ Answer(c) \/ StoreNext(c)
    BY <1>5 DEF ValidateFlow, ValidateEnd, Answer, StoreNext, history
  <1>6. CASE ScanRule(c) \/ RuleFails(c) \/ ScanCanceled(c) \/ storeScanResults(c)
    BY <1>6 DEF ScanRule, RuleFails, Scanned, ScanCanceled, storeScanResults, history, Blocking, Formed
  <1>7. CASE SignOffEdges(c) \/ SignOffCheck(c) \/ SignOffWrite(c) \/ SignOffEdgesUnread(c) \/ SignOffCheckUnread(c)
    BY <1>7 DEF SignOffEdges, EdgesRead, SignOffCheck, SignOffWrite, SignOffEdgesUnread, SignOffCheckUnread, history,
        Blocking, Formed
  <1> QED BY <1>2, <1>3, <1>4, <1>5, <1>6, <1>7 DEF Validation, Scan, Inspect

LEMMA Moves ==
    ASSUME SealedUntouched, SignedOnlyBySignOff, Dutiful, [Next]_vars
    PROVE  Quiet \/ \E c \in Client : GoesOn(c) \/ Calls(c) \/ CallFails(c)
  <1>1. CASE UNCHANGED vars \/ Tick
    BY <1>1 DEF vars, graph, history, Tick, Quiet
  <1>2. ASSUME NEW c \in Client,
               \/ Register(c) \/ Validation(c) \/ Scan(c) \/ Inspect(c) \/ Answer(c)
               \/ SingletonUnread(c) \/ RuleFails(c) \/ SignOffEdgesUnread(c) \/ SignOffCheckUnread(c)
        PROVE  GoesOn(c)
    <2>1. UNCHANGED <<graph, done>> BY <1>2, CountersMove
    <2>2. (req[c].op = "idle" \/ req[c].todo = <<>>) /\ UNCHANGED unlogged BY <1>2, Unbusy DEF Dutiful
    <2>3. RegsHeld(req'[c]) BY <1>2, RegsKept DEF Dutiful
    <2>4. Fresh(req[c], req'[c])
      <3>1. CASE Answer(c)
        <4>1. req'[c] = Idle BY <3>1 DEF Answer, Dutiful, Blocking
        <4> QED BY <4>1, FreshIdle
      <3> QED BY <1>2, <3>1, RegisterFresh, ValidationFresh, ScanFresh, InspectFresh DEF Dutiful
    <2>5. StepOf(c)
      BY <1>2, RegisterStep, ValidationStep, ScanStep, InspectStep, CallStep, FaultStep DEF Dutiful, Fault
    <2> QED BY <2>1, <2>2, <2>3, <2>4, <2>5 DEF GoesOn, StepOf, graph
  <1> QED BY <1>1, <1>2 DEF Next, Fault, Calls

\* The first of the calls of a request, and the others.
LEMMA FirstCall ==
    ASSUME Dutiful, NEW c \in Client, Calls(c) \/ CallFails(c), NEW r, r = req[c], NEW a, a = r.todo[1]
    PROVE  /\ r.op # "idle" /\ r.todo # <<>> /\ 1 \in DOMAIN r.todo
           /\ Kind(r.op, a) /\ Due(r.todo, a)
           /\ \A i \in DOMAIN r.todo : Decisive(r.todo[i]) \/ IsPart(r.todo[i]) => i = 1
           /\ \A i \in DOMAIN r.todo : IsEvent(r.todo[i]) =>
                 /\ Fits(r.op, a, r.todo[i])
                 /\ IsEvent(a) => r.todo[i] = a
                 /\ r.todo[i] = EventCall(r.todo[i].props.eventType, r.todo[i].props.relatedNodeId)
  <1>1. r.op # "idle" /\ r.todo # <<>>
    BY DEF Calls, GraphCall, UpsertUnread, CallFails, Calling
  <1>2. PICK q : q = [todo |-> Tail(r.todo), op |-> r.op] OBVIOUS
  <1>3. q.op = r.op /\ q.todo = Tail(r.todo) BY <1>2
  <1>4. Duty(r) BY DEF Dutiful
  <1>5. 1 \in DOMAIN r.todo BY <1>1, <1>3, <1>4, DutyTail
  <1>6. /\ Kind(r.op, a) /\ Due(r.todo, a)
        /\ \A i \in DOMAIN r.todo : (Decisive(r.todo[i]) \/ IsPart(r.todo[i]) => i = 1) /\ Kind(r.op, r.todo[i])
        /\ \A i \in DOMAIN r.todo : IsEvent(r.todo[i]) =>
              Fits(r.op, a, r.todo[i]) /\ (IsEvent(a) => r.todo[i] = a)
    BY <1>1, <1>4, <1>5 DEF Duty
  <1>7. \A i \in DOMAIN r.todo : IsEvent(r.todo[i]) =>
           r.todo[i] = EventCall(r.todo[i].props.eventType, r.todo[i].props.relatedNodeId)
    BY <1>6, StoredIs
  <1> QED BY <1>1, <1>5, <1>6, <1>7

LEMMA DutifulStep ==
    ASSUME SealedUntouched, SignedOnlyBySignOff, Dutiful, [Next]_vars
    PROVE  Dutiful'
  <1>1. Blocking' /\ WellKept(nodes, edges)' BY BlockingStep, GraphKept DEF Dutiful
  <1>2. ASSUME NEW c \in Client, UNCHANGED req \/ req'[c] = req[c]
        PROVE  RegsHeld(req'[c]) /\ Duty(req'[c]) /\ Rest(req'[c])
    BY <1>2 DEF Dutiful
  <1>3. CASE Quiet
    BY <1>1, <1>2, <1>3 DEF Quiet, Dutiful, SealedNamed
  <1>4. ASSUME NEW c \in Client, req' = [req EXCEPT ![c] = req'[c]],
               RegsHeld(req'[c]) /\ Duty(req'[c]) /\ Rest(req'[c]), SealedNamed'
        PROVE  Dutiful'
    <2>1. \A d \in Client : RegsHeld(req'[d]) /\ Duty(req'[d]) /\ Rest(req'[d])
      <3> SUFFICES ASSUME NEW d \in Client PROVE RegsHeld(req'[d]) /\ Duty(req'[d]) /\ Rest(req'[d]) OBVIOUS
      <3>1. CASE d = c BY <1>4, <3>1
      <3>2. CASE d # c
        <4>1. req'[d] = req[d] BY <1>4, <3>2 DEF Dutiful, Blocking
        <4> QED BY <1>2, <4>1
      <3> QED BY <3>1, <3>2
    <2> QED BY <1>1, <1>4, <2>1 DEF Dutiful
  <1>5. ASSUME NEW c \in Client, GoesOn(c) PROVE Dutiful'
    <2>1. SealedNamed' BY <1>5 DEF GoesOn, Dutiful, SealedNamed
    <2> QED BY <1>4, <1>5, <2>1 DEF GoesOn, Fresh
  <1>6. ASSUME NEW c \in Client, Calls(c) \/ CallFails(c) PROVE Dutiful'
    <2>1. PICK r, a : r = req[c] /\ a = r.todo[1] OBVIOUS
    <2>2. Kind(r.op, a) /\ r.op # "idle" /\ r.todo # <<>> BY <1>6, <2>1, FirstCall
    <2>3. req' = [req EXCEPT ![c] = req'[c]] /\ Goes(r, req'[c])
      BY <1>6, <2>1, CallsGo DEF Dutiful, Calls
    <2>4. RegsHeld(req'[c]) /\ Duty(req'[c]) /\ Rest(req'[c])
      <3>1. CASE req'[c] = Idle
        BY <3>1, FreshIdle DEF Fresh, RegsHeld, Idle
      <3>2. CASE req'[c].todo = <<>> /\ req'[c] # Idle
        <4>1. RegsHeld(req'[c]) /\ Rest(req'[c]) BY <2>1, <2>3, <3>2 DEF Goes, Dutiful
        <4> QED BY <3>2, <4>1, DutyNone
      <3>3. CASE req'[c].todo = Tail(r.todo) /\ req'[c] # Idle
        <4>1. RegsHeld(req'[c]) /\ Rest(req'[c]) /\ req'[c].op = r.op BY <2>1, <2>3, <3>3 DEF Goes, Dutiful
        <4>2. Duty(r) BY <2>1 DEF Dutiful
        <4>3. Duty(req'[c]) BY <2>2, <3>3, <4>1, <4>2, DutyTail
        <4> QED BY <4>1, <4>3
      <3> QED BY <2>3, <3>1, <3>2, <3>3 DEF Goes
    <2>5. SealedNamed'
      <3>1. CASE CallFails(c)
        BY <3>1 DEF CallFails, graph, Dutiful, SealedNamed
      <3>2. CASE Calls(c)
        <4>1. (\E id : NodeDone(c, a, id)) \/ UpsertDone(c, a) \/ DeleteDone(c, a) \/ EdgeDone(c, a)
          BY <2>1, <3>2, CallsDo DEF Dutiful, Calls
        <4>2. ASSUME NEW id, NodeDone(c, a, id) PROVE SealedNamed'
          <5>1. \A n \in DOMAIN nodes' : \/ n = id /\ nodes'[n].label = id[1]
                                         \/ n \in DOMAIN nodes /\ nodes'[n] = nodes[n]
            BY <4>2 DEF NodeDone, Put
          <5> QED BY <5>1 DEF Dutiful, SealedNamed
        <4>3. CASE UpsertDone(c, a)
          <5>1. a.id[1] \notin Sealed /\ a.label \notin Sealed
            BY <2>2, <4>3 DEF Kind, UpsertDone, Plain, EventCall, CreateNode
          <5>2. \A n \in DOMAIN nodes' :
                   \/ n = a.id /\ nodes'[n].label = a.label
                   \/ n = a.id /\ n \in DOMAIN nodes /\ nodes'[n].label = nodes[n].label
                   \/ n \in DOMAIN nodes /\ nodes'[n] = nodes[n]
            <6>1. CASE nodes' = Put(nodes, a.id, [label |-> a.label, props |-> a.props])
              BY <6>1 DEF Put
            <6>2. CASE a.id \in DOMAIN nodes /\ nodes' = Put(nodes, a.id, [nodes[a.id] EXCEPT !.props = Merge(@, a.props)])
              <7>1. PICK x : x = [nodes[a.id] EXCEPT !.props = Merge(@, a.props)] OBVIOUS
              <7>2. x.label = nodes[a.id].label BY <7>1
              <7>3. nodes' = Put(nodes, a.id, x) BY <6>2, <7>1
              <7> QED BY <6>2, <7>2, <7>3 DEF Put
            <6> QED BY <4>3, <6>1, <6>2 DEF UpsertDone
          <5> QED BY <5>1, <5>2 DEF Dutiful, SealedNamed
        <4>4. CASE DeleteDone(c, a) BY <4>4 DEF DeleteDone, Dutiful, SealedNamed
        <4>5. CASE EdgeDone(c, a) BY <4>5 DEF EdgeDone, Dutiful, SealedNamed
        <4> QED BY <4>1, <4>2, <4>3, <4>4, <4>5
      <3> QED BY <1>6, <3>1, <3>2
    <2> QED BY <1>4, <2>3, <2>4, <2>5
  <1> QED BY <1>3, <1>5, <1>6, Moves

\* Nobody replaces or deletes an event of this life.
LEMMA EventStays ==
    ASSUME SealedUntouched, SignedOnlyBySignOff, Dutiful, [Next]_vars,
           NEW m \in DOMAIN nodes \cap given, nodes[m].label = "ComplianceEvent"
    PROVE  m \in DOMAIN nodes' /\ nodes'[m] = nodes[m] /\ m \in given'
  <1>1. m[1] \in Sealed BY DEF Dutiful, SealedNamed, Sealed
  <1>2. CASE Quiet BY <1>2 DEF Quiet
  <1>3. ASSUME NEW c \in Client, GoesOn(c) \/ CallFails(c) PROVE UNCHANGED <<nodes, given>>
    BY <1>3 DEF GoesOn, CallFails, graph
  <1>4. ASSUME NEW c \in Client, Calls(c) PROVE m \in DOMAIN nodes' /\ nodes'[m] = nodes[m] /\ m \in given'
    <2>1. PICK r, a : r = req[c] /\ a = r.todo[1] OBVIOUS
    <2>2. Kind(r.op, a) BY <1>4, <2>1, FirstCall
    <2>3. (\E id : NodeDone(c, a, id)) \/ UpsertDone(c, a) \/ DeleteDone(c, a) \/ EdgeDone(c, a)
      BY <1>4, <2>1, CallsDo DEF Dutiful, Calls
    <2>4. ASSUME NEW id, NodeDone(c, a, id) PROVE m \in DOMAIN nodes' /\ nodes'[m] = nodes[m] /\ m \in given'
      BY <2>4 DEF NodeDone, Put
    <2>5. a.call \in {"upsert", "delete"} => a.id # m
      BY <1>1, <2>2 DEF Kind, Plain, EventCall, CreateNode
    <2>6. CASE UpsertDone(c, a) BY <2>5, <2>6 DEF UpsertDone, Put
    <2>7. CASE DeleteDone(c, a) BY <2>5, <2>7 DEF DeleteDone
    <2>8. CASE EdgeDone(c, a) BY <2>8 DEF EdgeDone
    <2> QED BY <2>3, <2>4, <2>6, <2>7, <2>8
  <1> QED BY <1>2, <1>3, <1>4, Moves

\* Once its first call is made, a request owes the event it has left.
LEMMA TailOwes ==
    ASSUME NEW r, NEW q, Duty(r), r.op # "idle", r.todo # <<>>, q.op = r.op, q.todo = Tail(r.todo),
           NEW i \in DOMAIN r.todo, i # 1, IsEvent(r.todo[i])
    PROVE  Owes(q, r.todo[i].props.eventType, About(q, r.todo[i]))
  <1>0. RestOf(r, q) BY DutyTail
  <1>1. i - 1 \in DOMAIN q.todo /\ q.todo[i - 1] = r.todo[i] BY <1>0 DEF RestOf
  <1>2. \A j \in DOMAIN q.todo : ~Decisive(q.todo[j]) BY <1>0 DEF RestOf
  <1> QED BY <1>1, <1>2 DEF Owes

\* What the audit log covers stays covered.
LEMMA CoveredKept ==
    ASSUME SealedUntouched, SignedOnlyBySignOff, Dutiful, [Next]_vars, NEW type, NEW n, Covered(type, n)
    PROVE  Covered(type, n)'
  <1>1. CASE Logged(type, n)
    <2>1. PICK m \in DOMAIN nodes \cap given :
             nodes[m].label = "ComplianceEvent" /\ nodes[m].props = [eventType |-> type, relatedNodeId |-> n]
      BY <1>1 DEF Logged, NodesByLabel, G
    <2>2. m \in DOMAIN nodes' /\ nodes'[m] = nodes[m] /\ m \in given' BY <2>1, EventStays
    <2> QED BY <2>1, <2>2 DEF Covered, Logged, NodesByLabel, G
  <1>2. CASE <<type, n>> \in unlogged
    <2>1. unlogged \subseteq unlogged'
      BY Moves DEF Quiet, GoesOn, Calls, GraphCall, UpsertUnread, CallFails
    <2> QED BY <1>2, <2>1 DEF Covered
  <1>3. ASSUME NEW d \in Client, Owes(req[d], type, n) PROVE Covered(type, n)'
    <2>1. CASE req'[d] = req[d]
      BY <1>3, <2>1 DEF Covered
    <2>2. CASE GoesOn(d)
      <3>1. DOMAIN <<>> = {} OBVIOUS
      <3> QED BY <1>3, <2>2, <3>1 DEF GoesOn, Owes
    <2>3. PICK r, a : r = req[d] /\ a = r.todo[1] OBVIOUS
    <2>4. PICK i \in DOMAIN r.todo : IsEvent(r.todo[i]) /\ r.todo[i].props.eventType = type /\ About(r, r.todo[i]) = n
      BY <1>3, <2>3 DEF Owes
    <2>5. ASSUME Calls(d) \/ CallFails(d)
          PROVE  /\ r.op # "idle" /\ r.todo # <<>> /\ Duty(r) /\ Kind(r.op, a)
                 /\ ~Decisive(a) /\ ~IsPart(a) /\ (IsEvent(a) => r.todo[i] = a)
                 /\ r.todo[i] = EventCall(type, r.todo[i].props.relatedNodeId)
      <3>1. /\ r.op # "idle" /\ r.todo # <<>> /\ 1 \in DOMAIN r.todo /\ Kind(r.op, a)
            /\ Fits(r.op, a, r.todo[i]) /\ (IsEvent(a) => r.todo[i] = a)
            /\ r.todo[i] = EventCall(type, r.todo[i].props.relatedNodeId)
        BY <2>3, <2>4, <2>5, FirstCall
      <3>2. ~Decisive(a) BY <1>3, <2>3, <3>1 DEF Owes
      <3> QED BY <2>3, <3>1, <3>2 DEF Fits, Dutiful
    <2>6. ASSUME i # 1, Calls(d) \/ CallFails(d), req'[d].op = r.op, req'[d].todo = Tail(r.todo),
                 req'[d].regs["main"] = r.regs["main"]
          PROVE  Covered(type, n)'
      <3>1. Owes(req'[d], r.todo[i].props.eventType, About(req'[d], r.todo[i])) BY <2>4, <2>5, <2>6, TailOwes
      <3>2. About(req'[d], r.todo[i]) = n BY <2>4, <2>6 DEF About
      <3>3. Owes(req'[d], type, n) BY <2>4, <3>1, <3>2
      <3> QED BY <3>3 DEF Covered
    <2>7. CASE Calls(d)
      <3>1. req'[d].op = r.op /\ req'[d].todo = Tail(r.todo) BY <2>3, <2>7, CallsGo DEF Calls, Dutiful
      <3>2. (\E id : NodeDone(d, a, id)) \/ UpsertDone(d, a) \/ DeleteDone(d, a) \/ EdgeDone(d, a)
        BY <2>3, <2>7, CallsDo DEF Dutiful, Calls
      <3>3. ASSUME NEW id, NodeDone(d, a, id) PROVE Covered(type, n)'
        <4>1. a.reg # "main" BY <2>5, <2>7, <3>3 DEF NodeDone, Decisive
        <4>2. CASE i # 1
          <5>1. req'[d].regs["main"] = r.regs["main"] BY <2>3, <3>3, <4>1 DEF NodeDone
          <5> QED BY <2>6, <2>7, <3>1, <4>2, <5>1
        <4>3. CASE i = 1
          <5>1. IsEvent(a) BY <2>3, <2>4, <4>3
          <5>2. Stored(d, a) = EventCall(type, n) BY <2>3, <2>4, <2>5, <2>7, <4>3, <5>1, StoredIs
          <5>3. Stored(d, a).props = [eventType |-> type, relatedNodeId |-> n] BY <5>2 DEF EventCall, CreateNode
          <5>4. a.label = "ComplianceEvent" BY <5>1 DEF IsEvent
          <5>5. id \in DOMAIN nodes' /\ id \in given'
                /\ nodes'[id] = [label |-> a.label, props |-> Stored(d, a).props]
            BY <3>3 DEF NodeDone, Put
          <5>6. nodes'[id].label = "ComplianceEvent" /\ nodes'[id].props = [eventType |-> type, relatedNodeId |-> n]
            BY <5>3, <5>4, <5>5
          <5> QED BY <5>5, <5>6 DEF Covered, Logged, NodesByLabel, G
        <4> QED BY <4>2, <4>3
      <3>4. ~UpsertDone(d, a) /\ ~DeleteDone(d, a)
        BY <2>5, <2>7 DEF UpsertDone, DeleteDone, Decisive
      <3>5. CASE EdgeDone(d, a)
        <4>1. i # 1 BY <2>3, <2>4, <3>5 DEF EdgeDone, IsEvent
        <4> QED BY <2>3, <2>6, <2>7, <3>1, <3>5, <4>1 DEF EdgeDone
      <3> QED BY <3>2, <3>3, <3>4, <3>5
    <2>8. CASE CallFails(d)
      <3>1. /\ req'[d].regs = req[d].regs /\ req'[d].op = req[d].op
            /\ a.call # "node" => req'[d].todo = Tail(req[d].todo)
            /\ IsEvent(a) => <<a.props.eventType, About(req[d], a)>> \in unlogged'
        BY <2>3, <2>5, <2>8, FailsDo DEF Dutiful
      <3>2. CASE IsEvent(a)
        BY <2>3, <2>4, <2>5, <2>8, <3>1, <3>2 DEF Covered
      <3>3. CASE ~IsEvent(a)
        <4>1. a.call # "node" BY <2>5, <2>8, <3>3 DEF Kind, Plain, Decisive, IsPart, IsEvent, EventCall, CreateNode
        <4>2. i # 1 BY <2>3, <2>4, <3>3
        <4> QED BY <2>3, <2>6, <2>8, <3>1, <4>1, <4>2
      <3> QED BY <3>2, <3>3
    <2>9. \A c \in Client : c # d /\ req' = [req EXCEPT ![c] = req'[c]] => req'[d] = req[d]
      BY DEF Dutiful, Blocking
    <2>10. \A c \in Client : Calls(c) \/ CallFails(c) => req' = [req EXCEPT ![c] = req'[c]]
      BY CallsGo DEF Dutiful, Calls
    <2> QED BY <2>1, <2>2, <2>7, <2>8, <2>9, <2>10, Moves DEF Quiet, GoesOn
  <1> QED BY <1>1, <1>2, <1>3 DEF Covered

LEMMA BaseKept ==
    ASSUME SealedUntouched, SignedOnlyBySignOff, Dutiful, [Next]_vars, NEW n, Base(n)
    PROVE  Base(n)'
  <1>1. given \subseteq given'
    <2>1. ASSUME NEW c \in Client, Calls(c) PROVE given \subseteq given'
      <3>1. PICK a : a = req[c].todo[1] OBVIOUS
      <3>2. (\E id : NodeDone(c, a, id)) \/ UpsertDone(c, a) \/ DeleteDone(c, a) \/ EdgeDone(c, a)
        BY <2>1, <3>1, CallsDo DEF Dutiful, Calls
      <3> QED BY <3>2 DEF NodeDone, UpsertDone, DeleteDone, EdgeDone
    <2> QED BY <2>1, Moves DEF Quiet, GoesOn, CallFails, graph
  <1>2. ASSUME NEW l \in DOMAIN EventOf, Covered(EventOf[l], n) PROVE Covered(EventOf[l], n)'
    BY <1>2, CoveredKept
  <1> QED BY <1>1, <1>2 DEF Base

\* What the first call makes due is covered when it has been made.
LEMMA CoversNext ==
    ASSUME Dutiful, NEW c \in Client, Calls(c), NEW r, r = req[c], NEW type, NEW x,
           In(EventCall(type, x), r.todo), r.todo[1].call # "node" \/ r.todo[1].reg = "main",
           NEW n, n = IF x = Main THEN req'[c].regs["main"] ELSE x
    PROVE  Covered(type, n)'
  <1>1. PICK e : e = EventCall(type, x) OBVIOUS
  <1>2. /\ e.call = "node" /\ e.reg = "event" /\ e.label = "ComplianceEvent"
        /\ e.props.eventType = type /\ e.props.relatedNodeId = x
    BY <1>1 DEF EventCall, CreateNode
  <1>3. PICK i \in DOMAIN r.todo : r.todo[i] = e BY <1>1 DEF In
  <1>4. i # 1 /\ IsEvent(r.todo[i]) BY <1>2, <1>3 DEF IsEvent
  <1>5. req'[c].op = r.op /\ req'[c].todo = Tail(r.todo) BY CallsGo DEF Calls, Dutiful
  <1>6. r.op # "idle" /\ r.todo # <<>> BY FirstCall
  <1>7. Duty(r) BY DEF Dutiful
  <1>8. Owes(req'[c], r.todo[i].props.eventType, About(req'[c], r.todo[i])) BY <1>4, <1>5, <1>6, <1>7, TailOwes
  <1>9. About(req'[c], r.todo[i]) = n BY <1>2, <1>3 DEF About
  <1>10. Owes(req'[c], type, n) BY <1>2, <1>3, <1>8, <1>9
  <1> QED BY <1>10 DEF Covered

LEMMA CreatedStep ==
    ASSUME SealedUntouched, SignedOnlyBySignOff, Dutiful, [Next]_vars, Created
    PROVE  Created'
  <1> SUFFICES ASSUME NEW n \in given', n[1] \in DOMAIN CreationEvent PROVE Covered(CreationEvent[n[1]], n)'
    BY DEF Created
  <1>1. CASE n \in given
    <2>1. Covered(CreationEvent[n[1]], n) BY <1>1 DEF Created
    <2> QED BY <2>1, CoveredKept
  <1>2. CASE n \notin given
    <2>1. PICK c \in Client : Calls(c) BY <1>2, Moves DEF Quiet, GoesOn, CallFails, graph
    <2>2. PICK r, a : r = req[c] /\ a = r.todo[1] OBVIOUS
    <2>3. (\E id : NodeDone(c, a, id)) \/ UpsertDone(c, a) \/ DeleteDone(c, a) \/ EdgeDone(c, a)
      BY <2>1, <2>2, CallsDo DEF Dutiful, Calls
    <2>4. PICK id : NodeDone(c, a, id) BY <1>2, <2>3 DEF UpsertDone, DeleteDone, EdgeDone
    <2>5. n = id /\ a.call = "node" /\ a.label = n[1] BY <1>2, <2>4 DEF NodeDone
    <2>6. Kind(r.op, a) /\ Due(r.todo, a) BY <2>1, <2>2, FirstCall
    <2>7. a.reg = "main"
      BY <2>5, <2>6 DEF Kind, Plain, EventCall, CreateNode, CreationEvent
    <2>8. In(EventCall(CreationEvent[n[1]], Main), r.todo) BY <2>5, <2>6 DEF Due, In
    <2>9. req'[c].regs["main"] = n BY <2>4, <2>5, <2>7 DEF NodeDone
    <2> QED BY <2>1, <2>2, <2>7, <2>8, <2>9, CoversNext
  <1> QED BY <1>1, <1>2

\* What an upsert leaves of a node: it keeps its label and what is not written, or is replaced.
LEMMA UpsertLeaves ==
    ASSUME WellKept(nodes, edges), NEW c, NEW a, UpsertDone(c, a), NEW n \in DOMAIN nodes'
    PROVE  \/ n \in DOMAIN nodes /\ nodes'[n] = nodes[n]
           \/ n = a.id /\ nodes'[n].label = a.label /\ nodes'[n].props = a.props
           \/ /\ n = a.id /\ n \in DOMAIN nodes /\ nodes'[n].label = nodes[n].label
              /\ SignsOff(nodes'[n].props) => SignsOff(a.props) \/ SignsOff(nodes[n].props)
  <1>1. CASE nodes' = Put(nodes, a.id, [label |-> a.label, props |-> a.props])
    BY <1>1 DEF Put
  <1>2. CASE a.id \in DOMAIN nodes /\ nodes' = Put(nodes, a.id, [nodes[a.id] EXCEPT !.props = Merge(@, a.props)])
    <2>1. PICK x : x = [nodes[a.id] EXCEPT !.props = Merge(@, a.props)] OBVIOUS
    <2>2. nodes' = Put(nodes, a.id, x) BY <1>2, <2>1
    <2>3. (n = a.id /\ nodes'[n] = x) \/ (n \in DOMAIN nodes /\ nodes'[n] = nodes[n]) BY <2>2 DEF Put
    <2>4. x.label = nodes[a.id].label BY <2>1
    <2>5. x.props = Merge(nodes[a.id].props, a.props) BY <1>2, <2>1 DEF WellKept
    <2>6. SignsOff(Merge(nodes[a.id].props, a.props)) => SignsOff(a.props) \/ SignsOff(nodes[a.id].props)
      BY DEF SignsOff, Merge
    <2> QED BY <1>2, <2>3, <2>4, <2>5, <2>6
  <1> QED BY <1>1, <1>2 DEF UpsertDone

LEMMA SignedStep ==
    ASSUME SealedUntouched, SignedOnlyBySignOff, Dutiful, [Next]_vars, Signed
    PROVE  Signed'
  <1> SUFFICES ASSUME NEW n \in DOMAIN nodes', SignsOff(nodes'[n].props)
               PROVE  \/ Covered("inspection_signed_off", n)'
                      \/ n \in DOMAIN Seeded.nodes /\ SignsOff(Seeded.nodes[n].props)
    BY DEF Signed
  <1>1. CASE n \in DOMAIN nodes /\ SignsOff(nodes[n].props)
    <2>1. CASE Covered("inspection_signed_off", n) BY <2>1, CoveredKept
    <2> QED BY <1>1, <2>1 DEF Signed
  <1>2. CASE ~(n \in DOMAIN nodes /\ SignsOff(nodes[n].props))
    <2>1. PICK c \in Client : Calls(c) BY <1>2, Moves DEF Quiet, GoesOn, CallFails, graph
    <2>2. PICK r, a : r = req[c] /\ a = r.todo[1] OBVIOUS
    <2>3. (\E id : NodeDone(c, a, id)) \/ UpsertDone(c, a) \/ DeleteDone(c, a) \/ EdgeDone(c, a)
      BY <2>1, <2>2, CallsDo DEF Dutiful, Calls
    <2>4. Kind(r.op, a) /\ Due(r.todo, a) /\ \A i \in DOMAIN r.todo : IsEvent(r.todo[i]) => Fits(r.op, a, r.todo[i])
      BY <2>1, <2>2, FirstCall
    <2>5. ASSUME NEW id, NodeDone(c, a, id) PROVE FALSE
      <3>1. n = id /\ nodes'[n].props = Stored(c, a).props /\ a.call = "node" BY <1>2, <2>5 DEF NodeDone, Put
      <3>2. CASE IsEvent(a)
        <4>1. Stored(c, a) = EventCall(a.props.eventType, About(req[c], a)) BY <2>4, <3>2, StoredIs
        <4>2. "status" \notin DOMAIN Stored(c, a).props BY <4>1 DEF EventCall, CreateNode
        <4> QED BY <3>1, <4>2 DEF SignsOff
      <3>3. CASE ~IsEvent(a)
        <4>1. Stored(c, a) = a BY <2>4, <3>3, StoredIs
        <4>2. ~SignsOff(a.props) BY <2>4, <3>1, <3>3 DEF Kind, Plain, IsEvent, EventCall, CreateNode
        <4> QED BY <3>1, <4>1, <4>2
      <3> QED BY <3>2, <3>3
    <2>6. CASE UpsertDone(c, a)
      <3>1. n = a.id /\ SignsOff(a.props) /\ a.call = "upsert"
        BY <1>2, <2>6, UpsertLeaves DEF UpsertDone, Dutiful
      <3>2. In(EventCall("inspection_signed_off", n), r.todo) BY <2>4, <3>1 DEF Due, In
      <3>3. PICK i \in DOMAIN r.todo : r.todo[i] = EventCall("inspection_signed_off", n) BY <3>2 DEF In
      <3>4. IsEvent(r.todo[i]) /\ r.todo[i].props.eventType = "inspection_signed_off"
        BY <3>3 DEF IsEvent, EventCall, CreateNode
      <3>5. n \notin Registers
        <4>1. "inspection_signed_off" \in DOMAIN Told BY DEF Told
        <4> QED BY <2>4, <3>1, <3>4, <4>1 DEF Fits
      <3> QED BY <2>1, <2>2, <3>1, <3>2, <3>5, CoversNext DEF Registers
    <2>7. ~DeleteDone(c, a) /\ ~EdgeDone(c, a) BY <1>2 DEF DeleteDone, EdgeDone
    <2> QED BY <2>3, <2>5, <2>6, <2>7
  <1> QED BY <1>1, <1>2

LEMMA PutsToldStep ==
    ASSUME SealedUntouched, SignedOnlyBySignOff, Dutiful, [Next]_vars, PutsTold
    PROVE  PutsTold'
  <1>1. ASSUME NEW d \in Client, req'[d].op # "idle", NEW i \in DOMAIN req'[d].todo, NEW l \in DOMAIN EventOf, NEW n,
               req'[d].todo[i].call = "upsert", req'[d].todo[i].label = l, req'[d].todo[i].id = n
        PROVE  In(EventCall(EventOf[l], n), req'[d].todo) \/ Base(n)'
    <2>0. PICK b : b = req'[d].todo[i] OBVIOUS
    <2>1. CASE req'[d] = req[d]
      <3>1. In(EventCall(EventOf[l], n), req[d].todo) \/ Base(n) BY <1>1, <2>1 DEF PutsTold
      <3> QED BY <2>1, <3>1, BaseKept
    <2>2. CASE GoesOn(d)
      <3>1. Brought(req[d], req'[d]) BY <2>2 DEF GoesOn, Fresh
      <3>2. CASE req[d].op = "signoff" /\ n = req[d].insp /\ l = req[d].label
        <4>1. Base(n) BY <1>1, <3>2 DEF PutsTold
        <4> QED BY <4>1, BaseKept
      <3> QED BY <1>1, <3>1, <3>2 DEF Brought, In
    <2>3. CASE Calls(d) \/ CallFails(d)
      <3>1. Goes(req[d], req'[d]) BY <2>3, CallsGo DEF Dutiful, Calls
      <3>2. req'[d].op = req[d].op /\ req'[d].todo \in {<<>>, Tail(req[d].todo)} /\ req[d].op # "idle" /\ req[d].todo # <<>>
        BY <1>1, <3>1 DEF Goes, Idle
      <3>3. req'[d].todo = Tail(req[d].todo)
        <4>1. DOMAIN <<>> = {} OBVIOUS
        <4> QED BY <1>1, <3>2, <4>1
      <3>4. Duty(req[d]) BY DEF Dutiful
      <3>5. RestOf(req[d], req'[d]) BY <3>2, <3>3, <3>4, DutyTail
      <3>6. ~Decisive(b) BY <1>1, <2>0, <3>5 DEF RestOf
      <3> QED BY <1>1, <2>0, <3>6 DEF Decisive
    <2>4. \A c \in Client : c # d /\ req' = [req EXCEPT ![c] = req'[c]] => req'[d] = req[d]
      BY DEF Dutiful, Blocking
    <2>5. \A c \in Client : Calls(c) \/ CallFails(c) => req' = [req EXCEPT ![c] = req'[c]]
      BY CallsGo DEF Dutiful, Calls
    <2> QED BY <2>1, <2>2, <2>3, <2>4, <2>5, Moves DEF Quiet, GoesOn
  <1>2. ASSUME NEW n \in DOMAIN nodes', nodes'[n].label \in DOMAIN EventOf
        PROVE  Base(n)'
    <2>1. CASE n \in DOMAIN nodes /\ nodes'[n].label = nodes[n].label
      <3>1. Base(n) BY <1>2, <2>1 DEF PutsTold
      <3> QED BY <3>1, BaseKept
    <2>2. CASE ~(n \in DOMAIN nodes /\ nodes'[n].label = nodes[n].label)
      <3>1. PICK c \in Client : Calls(c) BY <2>2, Moves DEF Quiet, GoesOn, CallFails, graph
      <3>2. PICK r, a : r = req[c] /\ a = r.todo[1] OBVIOUS
      <3>3. (\E id : NodeDone(c, a, id)) \/ UpsertDone(c, a) \/ DeleteDone(c, a) \/ EdgeDone(c, a)
        BY <3>1, <3>2, CallsDo DEF Dutiful, Calls
      <3>4. ASSUME NEW id, NodeDone(c, a, id) PROVE Base(n)'
        <4>1. n \in given' BY <2>2, <3>4 DEF NodeDone, Put
        <4> QED BY <4>1 DEF Base
      <3>5. CASE UpsertDone(c, a)
        <4>1. n = a.id /\ nodes'[n].label = a.label /\ a.call = "upsert"
          BY <2>2, <3>5, UpsertLeaves DEF Dutiful, UpsertDone
        <4>2. /\ r.op # "idle" /\ 1 \in DOMAIN r.todo
              /\ \A i \in DOMAIN r.todo : IsEvent(r.todo[i]) => Fits(r.op, a, r.todo[i])
          BY <3>1, <3>2, FirstCall
        <4>3. In(EventCall(EventOf[a.label], n), r.todo) \/ Base(n) BY <1>2, <3>2, <4>1, <4>2 DEF PutsTold
        <4>4. CASE In(EventCall(EventOf[a.label], n), r.todo)
          <5>1. PICK type : type = EventOf[a.label] OBVIOUS
          <5>2. PICK i \in DOMAIN r.todo : r.todo[i] = EventCall(type, n) BY <4>4, <5>1 DEF In
          <5>3. IsEvent(r.todo[i]) /\ r.todo[i].props.eventType = type
            BY <5>2 DEF IsEvent, EventCall, CreateNode
          <5>4. type \in DOMAIN Told BY <1>2, <4>1, <5>1 DEF Told, EventOf
          <5>5. n \notin Registers BY <4>1, <4>2, <5>3, <5>4 DEF Fits
          <5>6. Covered(type, n)' BY <3>1, <3>2, <4>1, <4>4, <5>1, <5>5, CoversNext DEF Registers
          <5> QED BY <1>2, <4>1, <5>1, <5>6 DEF Base
        <4> QED BY <4>3, <4>4, BaseKept
      <3>6. ~DeleteDone(c, a) /\ ~EdgeDone(c, a) BY <2>2 DEF DeleteDone, EdgeDone
      <3> QED BY <3>3, <3>4, <3>5, <3>6
    <2> QED BY <2>1, <2>2
  <1>3. ASSUME NEW d \in Client, NEW n, req'[d].op = "signoff", req'[d].label \in DOMAIN EventOf, req'[d].insp = n
        PROVE  Base(n)'
    <2>1. Base(n) => Base(n)' BY BaseKept
    <2>2. CASE req'[d] = req[d]
      <3>1. Base(n) BY <1>3, <2>2 DEF PutsTold
      <3> QED BY <2>1, <3>1
    <2>3. CASE GoesOn(d)
      <3>1. \/ req[d].op = "signoff" /\ n = req[d].insp /\ req'[d].label = req[d].label
            \/ n \in DOMAIN nodes /\ req'[d].label = nodes[n].label
        BY <1>3, <2>3 DEF GoesOn, Fresh
      <3>2. Base(n) BY <1>3, <3>1 DEF PutsTold
      <3> QED BY <2>1, <3>2
    <2>4. CASE Calls(d) \/ CallFails(d)
      <3>1. Goes(req[d], req'[d]) BY <2>4, CallsGo DEF Dutiful, Calls
      <3> QED BY <1>3, <3>1 DEF Goes, Idle
    <2>5. \A c \in Client : c # d /\ req' = [req EXCEPT ![c] = req'[c]] => req'[d] = req[d]
      BY DEF Dutiful, Blocking
    <2>6. \A c \in Client : Calls(c) \/ CallFails(c) => req' = [req EXCEPT ![c] = req'[c]]
      BY CallsGo DEF Dutiful, Calls
    <2> QED BY <2>2, <2>3, <2>4, <2>5, <2>6, Moves DEF Quiet, GoesOn
  <1> QED BY <1>1, <1>2, <1>3 DEF PutsTold

LEMMA TruthStep ==
    ASSUME SealedUntouched, SignedOnlyBySignOff, Dutiful, [Next]_vars, Truth
    PROVE  Truth'
  <1>0. done \subseteq done'
    <2>1. ASSUME NEW c \in Client, Calls(c) PROVE done \subseteq done'
      <3>1. PICK a : a = req[c].todo[1] OBVIOUS
      <3>2. (\E id : NodeDone(c, a, id)) \/ UpsertDone(c, a) \/ DeleteDone(c, a) \/ EdgeDone(c, a)
        BY <2>1, <3>1, CallsDo DEF Dutiful, Calls
      <3> QED BY <3>2 DEF NodeDone, UpsertDone, DeleteDone, EdgeDone
    <2> QED BY <2>1, Moves DEF Quiet, GoesOn, CallFails
  <1>1. ASSUME NEW m \in DOMAIN nodes' \cap given', nodes'[m].label = "ComplianceEvent",
               NEW et, et = nodes'[m].props.eventType, et \in DOMAIN Told
        PROVE  <<Told[et], nodes'[m].props.relatedNodeId>> \in done'
    <2>1. m[1] = "ComplianceEvent" /\ "ComplianceEvent" \in Sealed
      <3>1. SealedNamed' BY DutifulStep DEF Dutiful
      <3> QED BY <1>1, <3>1 DEF SealedNamed, Sealed
    <2>2. CASE m \in DOMAIN nodes \cap given
      <3>1. nodes[m].label = "ComplianceEvent" BY <2>1, <2>2 DEF Dutiful, SealedNamed
      <3>2. nodes'[m] = nodes[m] BY <2>2, <3>1, EventStays
      <3> QED BY <1>0, <1>1, <2>2, <3>1, <3>2 DEF Truth, AuditTruthful, NodesByLabel, G
    <2>3. CASE ~(m \in DOMAIN nodes \cap given)
      <3>1. PICK c \in Client : Calls(c) BY <1>1, <2>3, Moves DEF Quiet, GoesOn, CallFails, graph
      <3>2. PICK r, a : r = req[c] /\ a = r.todo[1] OBVIOUS
      <3>3. (\E id : NodeDone(c, a, id)) \/ UpsertDone(c, a) \/ DeleteDone(c, a) \/ EdgeDone(c, a)
        BY <3>1, <3>2, CallsDo DEF Dutiful, Calls
      <3>4. /\ r.op # "idle" /\ 1 \in DOMAIN r.todo /\ Kind(r.op, a)
            /\ \A i \in DOMAIN r.todo : Decisive(r.todo[i]) => i = 1
        BY <3>1, <3>2, FirstCall
      <3>5. ~UpsertDone(c, a)
        <4>1. a.call = "upsert" => a.id # m BY <2>1, <3>4 DEF Kind, Plain, EventCall, CreateNode
        <4> QED BY <1>1, <2>3, <4>1, UpsertLeaves DEF Dutiful, UpsertDone
      <3>6. ~DeleteDone(c, a) /\ ~EdgeDone(c, a) BY <1>1, <2>3 DEF DeleteDone, EdgeDone
      <3>7. PICK id : NodeDone(c, a, id) BY <3>3, <3>5, <3>6
      <3>8. m = id BY <1>1, <2>3, <3>7 DEF NodeDone, Put
      <3>9. IsEvent(a) BY <2>1, <3>7, <3>8 DEF NodeDone, IsEvent
      <3>10. Stored(c, a) = EventCall(a.props.eventType, About(r, a)) /\ a.reg = "event"
        <4>1. a = EventCall(a.props.eventType, a.props.relatedNodeId) BY <3>4, <3>9, StoredIs
        <4>2. \A x, y : EventCall(x, y).reg = "event" BY DEF EventCall, CreateNode
        <4>3. a.reg = "event" BY <4>1, <4>2
        <4> QED BY <3>2, <3>4, <3>9, <4>3, StoredIs
      <3>11. ~Decisive(a) BY <3>9, <3>10 DEF Decisive, IsEvent
      <3>12. \A i \in DOMAIN r.todo : ~Decisive(r.todo[i]) BY <3>2, <3>4, <3>11
      <3>13. nodes'[m].props = [eventType |-> a.props.eventType, relatedNodeId |-> About(r, a)]
        BY <3>7, <3>8, <3>10 DEF NodeDone, Put, EventCall, CreateNode
      <3>14. et = a.props.eventType /\ nodes'[m].props.relatedNodeId = About(r, a) BY <1>1, <3>13
      <3>15. <<Told[et], About(r, a)>> \in done BY <1>1, <3>2, <3>4, <3>9, <3>12, <3>14 DEF Truth
      <3> QED BY <1>0, <3>14, <3>15
    <2> QED BY <2>2, <2>3
  <1>2. ASSUME NEW d \in Client, NEW q, q = req'[d], q.op # "idle", \A j \in DOMAIN q.todo : ~Decisive(q.todo[j]),
               NEW i \in DOMAIN q.todo, IsEvent(q.todo[i]), NEW et, et = q.todo[i].props.eventType, et \in DOMAIN Told
        PROVE  <<Told[et], About(q, q.todo[i])>> \in done'
    <2>1. CASE q = req[d] BY <1>0, <1>2, <2>1 DEF Truth
    <2>2. CASE GoesOn(d)
      <3>1. Untold(q) BY <1>2, <2>2 DEF GoesOn, Fresh
      <3> QED BY <1>2, <3>1 DEF Untold
    <2>3. CASE Calls(d) \/ CallFails(d)
      <3>1. PICK r, a : r = req[d] /\ a = r.todo[1] OBVIOUS
      <3>2. Goes(r, q) BY <1>2, <2>3, <3>1, CallsGo DEF Dutiful, Calls
      <3>3. q.op = r.op /\ q.todo \in {<<>>, Tail(r.todo)} /\ r.op # "idle" /\ r.todo # <<>>
        BY <1>2, <3>2 DEF Goes, Idle
      <3>4. q.todo = Tail(r.todo)
        <4>1. DOMAIN <<>> = {} OBVIOUS
        <4> QED BY <1>2, <3>3, <4>1
      <3>5. Duty(r) BY <3>1 DEF Dutiful
      <3>6. RestOf(r, q) BY <3>3, <3>4, <3>5, DutyTail
      <3>7. PICK e : e = q.todo[i] OBVIOUS
      <3>8. i + 1 \in DOMAIN r.todo /\ r.todo[i + 1] = e BY <3>6, <3>7 DEF RestOf
      <3>9. /\ Kind(r.op, a) /\ Fits(r.op, a, e) /\ (IsEvent(a) => e = a)
            /\ \A j \in DOMAIN r.todo : Decisive(r.todo[j]) => j = 1
        <4>1. /\ Kind(r.op, a)
              /\ \A j \in DOMAIN r.todo : Decisive(r.todo[j]) \/ IsPart(r.todo[j]) => j = 1
              /\ \A j \in DOMAIN r.todo : IsEvent(r.todo[j]) =>
                    /\ Fits(r.op, a, r.todo[j])
                    /\ IsEvent(a) => r.todo[j] = a
                    /\ r.todo[j] = EventCall(r.todo[j].props.eventType, r.todo[j].props.relatedNodeId)
          BY <2>3, <3>1, FirstCall
        <4> QED BY <1>2, <3>7, <3>8, <4>1
      <3>10. ~Decisive(a) /\ q.regs["main"] = r.regs["main"] => <<Told[et], About(q, e)>> \in done'
        <4>1. SUFFICES ASSUME ~Decisive(a), q.regs["main"] = r.regs["main"] PROVE <<Told[et], About(q, e)>> \in done'
          OBVIOUS
        <4>2. \A j \in DOMAIN r.todo : ~Decisive(r.todo[j]) BY <3>1, <3>9, <4>1
        <4>3. <<Told[et], About(r, e)>> \in done BY <1>2, <3>1, <3>3, <3>7, <3>8, <4>2 DEF Truth
        <4>4. About(q, e) = About(r, e) BY <4>1 DEF About
        <4> QED BY <1>0, <4>3, <4>4
      <3>11. CASE CallFails(d)
        <4>0. Decisive(a) => req'[d] = Idle BY <3>1, <3>11, FailsDo DEF Dutiful
        <4>1. ~Decisive(a) BY <1>2, <4>0 DEF Idle
        <4>2. q.regs = r.regs BY <1>2, <3>1, <3>11, <4>1, FailsDo DEF Dutiful
        <4> QED BY <3>7, <3>10, <4>1, <4>2
      <3>12. CASE Calls(d)
        <4>1. (\E id : NodeDone(d, a, id)) \/ UpsertDone(d, a) \/ DeleteDone(d, a) \/ EdgeDone(d, a)
          BY <3>1, <3>12, CallsDo DEF Dutiful, Calls
        <4>2. ASSUME NEW id, NodeDone(d, a, id) PROVE <<Told[et], About(q, e)>> \in done'
          <5>1. CASE a.reg = "main"
            <6>1. e.props.relatedNodeId = Main /\ Told[et] = r.op BY <1>2, <3>7, <3>9, <4>2, <5>1 DEF Fits, NodeDone
            <6>2. About(q, e) = id BY <1>2, <4>2, <5>1, <6>1 DEF About, NodeDone
            <6> QED BY <3>1, <4>2, <5>1, <6>1, <6>2 DEF NodeDone
          <5>2. CASE a.reg # "main"
            <6>1. ~Decisive(a) BY <4>2, <5>2 DEF NodeDone, Decisive
            <6>2. q.regs["main"] = r.regs["main"] BY <1>2, <3>1, <4>2, <5>2 DEF NodeDone
            <6> QED BY <3>10, <6>1, <6>2
          <5> QED BY <5>1, <5>2
        <4>3. CASE UpsertDone(d, a)
          <5>1. e.props.relatedNodeId = a.id /\ a.id \notin Registers /\ Told[et] = r.op
            BY <1>2, <3>7, <3>9, <4>3 DEF Fits, UpsertDone
          <5>2. About(q, e) = a.id BY <5>1 DEF About, Registers
          <5>3. done' = done \cup {<<r.op, a.id>>} BY <3>1, <4>3 DEF UpsertDone
          <5> QED BY <3>7, <5>1, <5>2, <5>3
        <4>4. ~DeleteDone(d, a) BY <1>2, <3>7, <3>9 DEF Fits, DeleteDone
        <4>5. CASE EdgeDone(d, a)
          <5>1. ~Decisive(a) BY <4>5 DEF EdgeDone, Decisive
          <5>2. q.regs["main"] = r.regs["main"] BY <1>2, <3>1, <4>5 DEF EdgeDone
          <5> QED BY <3>7, <3>10, <5>1, <5>2
        <4> QED BY <3>7, <4>1, <4>2, <4>3, <4>4, <4>5
      <3> QED BY <2>3, <3>11, <3>12
    <2>4. \A c \in Client : c # d /\ req' = [req EXCEPT ![c] = req'[c]] => req'[d] = req[d]
      BY DEF Dutiful, Blocking
    <2>5. \A c \in Client : Calls(c) \/ CallFails(c) => req' = [req EXCEPT ![c] = req'[c]]
      BY CallsGo DEF Dutiful, Calls
    <2> QED BY <1>2, <2>1, <2>2, <2>3, <2>4, <2>5, Moves DEF Quiet, GoesOn
  <1> QED BY <1>1, <1>2 DEF Truth, AuditTruthful, NodesByLabel, G

\* A request that has begun nothing has told nothing, and the graph at start is Seeded
\* with frameworks and rules.
LEMMA StartTold ==
    ASSUME SealedUntouched, Init
    PROVE  Dutiful /\ PutsTold /\ Created /\ Signed /\ Truth
  <1>1. /\ WellKept(nodes, edges)
        /\ \A n \in DOMAIN nodes :
              \/ n \in DOMAIN Seeded.nodes /\ nodes[n] = Seeded.nodes[n]
              \/ /\ n[1] \in {"ComplianceFramework", "ComplianceRule"} /\ nodes[n].label = n[1]
                 /\ \E k \in {"name", "ruleId"} : \E v : nodes[n].props = Map(k, v)
    BY SeededKept DEF Init
  <1>2. /\ req = [c \in Client |-> Idle] /\ given = {} /\ Blocking
    BY DEF Init, Idle, Blocking, Formed
  <1>3. \A c \in Client : req[c].op = "idle" BY <1>2 DEF Idle
  <1>4. SealedNamed
    BY <1>1 DEF SealedNamed, SealedUntouched, Sealed, ScanLabels
  <1>5. \A c \in Client : RegsHeld(req[c]) /\ Duty(req[c]) /\ Rest(req[c])
    BY <1>3 DEF RegsHeld, Duty, Rest
  <1>6. Created /\ Truth
    BY <1>2, <1>3 DEF Created, Truth, AuditTruthful
  <1>7. PutsTold
    BY <1>1, <1>3 DEF PutsTold, Base, EventOf
  <1>8. \A n \in DOMAIN nodes : SignsOff(nodes[n].props) => n \in DOMAIN Seeded.nodes /\ SignsOff(Seeded.nodes[n].props)
    <2> SUFFICES ASSUME NEW n \in DOMAIN nodes, SignsOff(nodes[n].props)
                 PROVE  n \in DOMAIN Seeded.nodes /\ SignsOff(Seeded.nodes[n].props)
      OBVIOUS
    <2>1. ASSUME NEW k \in {"name", "ruleId"}, NEW v, nodes[n].props = Map(k, v) PROVE FALSE
      <3>1. DOMAIN nodes[n].props = {k} BY <2>1 DEF Map
      <3> QED BY <3>1 DEF SignsOff
    <2> QED BY <1>1, <2>1
  <1> QED BY <1>1, <1>2, <1>4, <1>5, <1>6, <1>7, <1>8 DEF Dutiful, Signed

\* What is covered is in the log, is still to be written, or could not be.
LEMMA CoveredAudited ==
    ASSUME Dutiful, NEW type, NEW n, Covered(type, n)
    PROVE  Audited(type, n)
  <1>1. ASSUME NEW c \in Client, Owes(req[c], type, n) PROVE Pending(type, n)
    <2>1. PICK r : r = req[c] OBVIOUS
    <2>2. PICK i \in DOMAIN r.todo : IsEvent(r.todo[i]) /\ r.todo[i].props.eventType = type /\ About(r, r.todo[i]) = n
      BY <1>1, <2>1 DEF Owes
    <2>3. r.op # "idle" /\ Kind(r.op, r.todo[i]) BY <1>1, <2>1 DEF Owes, Dutiful, Duty
    <2>4. Stored(c, r.todo[i]) = EventCall(type, n) BY <2>1, <2>2, <2>3, StoredIs
    <2>5. /\ Stored(c, r.todo[i]).call = "node" /\ Stored(c, r.todo[i]).label = "ComplianceEvent"
          /\ Stored(c, r.todo[i]).props = [eventType |-> type, relatedNodeId |-> n]
      BY <2>4 DEF EventCall, CreateNode
    <2> QED BY <2>1, <2>2, <2>3, <2>5 DEF Pending
  <1> QED BY <1>1 DEF Covered, Audited

\* compliance_inspection.go and compliance_dataflow.go: the handlers write before they log.
\* Whatever requests interleave and fail, an event of this life speaks of a write that took
\* effect.  (No client names an event or a scan, and a status signed_off is nobody's but a
\* sign-off's.)
THEOREM AuditSpeaksTrue ==
    ASSUME SealedUntouched, SignedOnlyBySignOff
    PROVE  Spec => []AuditTruthful
  <1>1. Init => Dutiful /\ Truth BY StartTold
  <1>2. Dutiful /\ Truth /\ [Next]_vars => (Dutiful /\ Truth)' BY DutifulStep, TruthStep
  <1>3. Dutiful /\ Truth => AuditTruthful BY DEF Truth
  <1> QED BY <1>1, <1>2, <1>3, PTL DEF Spec

\* The same handlers, graph.go, UpsertNode, and inspection.go, LogEvent: but for events that
\* could not be written, the audit log has the creation of every entity the API created in
\* this life, an update of every inspection, finding and remediation that a PUT brought into
\* being, and every sign-off, whatever requests interleave and fail.
THEOREM AuditLogComplete ==
    ASSUME SealedUntouched, SignedOnlyBySignOff
    PROVE  Spec => []AuditTrail
  <1> DEFINE Inv == Dutiful /\ PutsTold /\ Created /\ Signed
  <1>1. Init => Inv BY StartTold
  <1>2. Inv /\ [Next]_vars => Inv' BY DutifulStep, PutsToldStep, CreatedStep, SignedStep
  <1>3. ASSUME Inv PROVE AuditTrail
    <2>1. \A n \in given \cap DOMAIN nodes : n[1] \in DOMAIN CreationEvent => Audited(CreationEvent[n[1]], n)
      BY <1>3, CoveredAudited DEF Created
    <2>2. ASSUME NEW n \in DOMAIN nodes \ (given \cup DOMAIN Seeded.nodes), nodes[n].label \in DOMAIN EventOf
          PROVE  \E l \in DOMAIN EventOf : Audited(EventOf[l], n)
      <3>1. Base(n) BY <1>3, <2>2 DEF PutsTold
      <3>2. PICK l \in DOMAIN EventOf : Covered(EventOf[l], n) BY <2>2, <3>1 DEF Base
      <3> QED BY <1>3, <3>2, CoveredAudited
    <2>3. ASSUME NEW n \in DOMAIN nodes, Prop(G, n, "status") = "signed_off"
          PROVE  \/ Audited("inspection_signed_off", n)
                 \/ n \in DOMAIN Seeded.nodes /\ Prop(Seeded, n, "status") = "signed_off"
      <3>1. SignsOff(nodes[n].props) BY <2>3 DEF Prop, G, SignsOff
      <3>2. \/ Covered("inspection_signed_off", n)
            \/ n \in DOMAIN Seeded.nodes /\ SignsOff(Seeded.nodes[n].props)
        BY <1>3, <3>1 DEF Signed
      <3>3. CASE Covered("inspection_signed_off", n) BY <1>3, <3>3, CoveredAudited
      <3>4. CASE n \in DOMAIN Seeded.nodes /\ SignsOff(Seeded.nodes[n].props) BY <3>4 DEF SignsOff, Prop
      <3> QED BY <3>2, <3>3, <3>4
    <2> QED BY <2>1, <2>2, <2>3 DEF AuditTrail
  <1> HIDE DEF Inv
  <1> QED BY <1>1, <1>2, <1>3, PTL DEF Spec

=============================================================================
