----------------------------- MODULE MCCompliance -----------------------------
(* Instances of Compliance for TLC.                                          *)
EXTENDS Compliance

Node(l, p) == [label |-> l, props |-> p]
Times == [d10 |-> 10, d60 |-> 60, t80 |-> 80, t90 |-> 90]
Dates == {"d10", "d60"}

\* A rule without a label, which ends in a warning; the walk stops at the next
\* file, which has no ID.
NoFiles == <<>>
Files == << [id |-> "SOC2-1", framework |-> "soc2", module |-> "access", severity |-> "odd",
             label |-> "", condition |-> "has_edge", edgeLabel |-> "X", required |-> {}],
            [id |-> ""] >>

Edge(l, n, m) == [id |-> <<l, 1>>, label |-> l, from |-> n, to |-> m]

\* What is not named otherwise is never named.
Uses == {"HAS_LEGAL_BASIS", "PROTECTED_BY", "PROCESSES_CATEGORY", "FROM_ACTIVITY", "TO_ACTIVITY", "TO_PROCESSOR",
         "CARRIES", "GOVERNED_BY", "PART_OF_INSPECTION", "INSPECTS", "BASED_ON", "HAS_FINDING", "AFFECTS",
         "REMEDIATED_BY", "APPROVED_BY", "delete", "signoff", "OrgSetup", "DataFlow", "DataSubjectRequest",
         "Inspection", "InspectionFinding", "RemediationAction"}
Naming(f) == [u \in Uses |-> IF u \in DOMAIN f THEN f[u] ELSE {}]

\* The register: reference data, and one entity of most kinds.
Reference ==
    [nodes |->
        (<<"SecurityMeasure", 1>> :> Node("SecurityMeasure", EmptyMap)) @@
        (<<"DataCategory", 1>> :> Node("DataCategory", Map("isSpecial", "true"))) @@
        (<<"LegalBasis", 1>> :> Node("LegalBasis", EmptyMap)) @@
        (<<"ChecklistItem", 1>> :> Node("ChecklistItem", Map("status", "compliant"))) @@
        (<<"Evidence", 1>> :> Node("Evidence", EmptyMap)) @@
        (<<"DataProcessor", 1>> :> Node("DataProcessor", Map("name", "p"))) @@
        (<<"DataSubjectRequest", 1>> :> Node("DataSubjectRequest", Map("deadline", "d10"))) @@
        (<<"DataSubjectRequest", 2>> :> Node("DataSubjectRequest", Map("deadline", "d60"))) @@
        (<<"DataBreach", 1>> :> Node("DataBreach",
            [severity |-> "high", discoveredAt |-> "t80", authorityNotifiedAt |-> "t90"])) @@
        (<<"ProcessingActivity", 1>> :> Node("ProcessingActivity", Map("riskLevel", "high"))) @@
        (<<"DataFlow", 1>> :> Node("DataFlow", Map("transferType", "international"))) @@
        (<<"ComplianceScan", 1>> :> Node("ComplianceScan", Map("scanId", 1))),
     edges |->
        {Edge("PROTECTED_BY", <<"ProcessingActivity", 1>>, <<"SecurityMeasure", 1>>),
         Edge("FROM_ACTIVITY", <<"DataFlow", 1>>, <<"ProcessingActivity", 1>>)}]

RegisterRules == {"FLOW-001"}
RegisterBodies ==
    [ProcessingActivity |-> {EmptyMap}, DPIA |-> {EmptyMap},
     DataFlow |-> {Map("legalBasis", "contract")}]
RegisterUpdates ==
    [OrgSetup |-> {[dpoName |-> "n", dpoEmail |-> "e"]},
     DataFlow |-> {Map("safeguard", "scc")},
     DataSubjectRequest |-> {Map("status", "completed")}]
RegisterOps == {"create", "ropa", "singleton", "update", "delete", "edge", "flow", "validate", "scan", "schedule"}
RegisterScans == {[framework |-> "", module |-> "dataflow"]}
RegisterTimes == {61}

\* Besides the entity that is meant: one of another label, one nobody knows, one
\* that another request creates.
RegisterNamed == Naming(
    [PROTECTED_BY |-> {<<"DataFlow", 1>>},
     FROM_ACTIVITY |-> {<<"ProcessingActivity", 1>>, <<"ProcessingActivity", 1, 0>>},
     DataFlow |-> {<<"DataFlow", 1>>, <<"DataFlow", 9>>},
     DataSubjectRequest |-> {<<"DataSubjectRequest", 1>>},
     delete |-> {<<"ProcessingActivity", 1>>, <<"DataFlow", 1>>}])
RegisterPosted ==
    {[label |-> "CARRIES", from |-> <<"DataCategory", 1>>, to |-> <<"DataFlow", 1>>]}

InspectionUpdates ==
    [Inspection |-> {Map("status", "review")},
     InspectionFinding |-> {Map("status", "waived"), Map("status", "open")},
     RemediationAction |-> {Map("status", "completed")},
     OrgSetup |-> {}]
InspectionStatuses ==
    [Inspection |-> {""}, InspectionFinding |-> {""}, RemediationAction |-> {""}]
NoStatuses == [Inspection |-> {}, InspectionFinding |-> {}, RemediationAction |-> {}]
InspectionNamed == Naming(
    [INSPECTS |-> {}, BASED_ON |-> {}, AFFECTS |-> {},
     HAS_FINDING |-> {<<"Inspection", 1>>},
     REMEDIATED_BY |-> {<<"InspectionFinding", 1>>},
     APPROVED_BY |-> {"a"},
     signoff |-> {<<"Inspection", 1>>},
     Inspection |-> {},
     InspectionFinding |-> {<<"InspectionFinding", 1>>},
     RemediationAction |-> {<<"Inspection", 9>>}])
InspectionOps == {"inspection", "finding", "remediation", "update", "signoff", "flow"}
FlowBodies == [ProcessingActivity |-> {}, DataFlow |-> {EmptyMap}]

\* An inspection with a finding that is open.
Inspected ==
    [nodes |->
        (<<"Agent", 1>> :> Node("Agent", Map("agentId", "a"))) @@
        (<<"ComplianceScan", 1>> :> Node("ComplianceScan", Map("scanId", 1))) @@
        (<<"Inspection", 1>> :> Node("Inspection", Map("status", "draft"))) @@
        (<<"InspectionFinding", 1>> :> Node("InspectionFinding", Map("status", "open"))),
     edges |-> {Edge("HAS_FINDING", <<"Inspection", 1>>, <<"InspectionFinding", 1>>)}]

Symmetry == Permutations(Client)
=============================================================================
