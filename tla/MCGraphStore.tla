----------------------------- MODULE MCGraphStore -----------------------------
(* Instances of GraphStore for TLC.  Identifiers are tuples of the parts     *)
(* between colons, so that Key is concatenation and prefixes really collide. *)
EXTENDS GraphStore, Sequences, TLC

MCKey(a, b) == a \o b

MCNewNodeID(l, k) == <<"n">> \o l \o <<ToString(k)>>
MCNewEdgeID(l, k) == <<"e">> \o l \o <<ToString(k)>>

MCLabelA == <<"A">>
MCLabelB == <<"B">>
MCLabels2 == {MCLabelA, MCLabelB}
MCEdgeLabels == {<<"R">>}

\* An agent named "1:e": the scan for created node "1" meets its entries.
MCColonAgents == {<<"n", "A", "1", "e">>}
MCNodeIDs == MCColonAgents \cup {MCNewNodeID(l, k) : l \in NodeLabel, k \in 1..MaxID}
MCHashEdge == <<"e", "R", "h">>
\* The one edge that is upserted goes from the agent to created node "1".
MCHashEdgeID(l, from, to) ==
    IF from = <<"n", "A", "1", "e">> /\ to = <<"n", "A", "1">> THEN MCHashEdge
    ELSE <<"e", "another">>
MCEdgeIDs == {MCHashEdge} \cup {MCNewEdgeID(l, k) : l \in MCEdgeLabels, k \in 1..MaxID}

\* What is left of every key that can be written when a scan cuts a prefix off.
MCPrefixes == NodeID \cup MCLabels2 \cup MCEdgeLabels
MCWords == {MCKey(n, e) : n \in NodeID, e \in EdgeID} \cup {MCKey(l, n) : l \in MCLabels2, n \in NodeID}
                \cup {MCKey(l, e) : l \in MCEdgeLabels, e \in EdgeID}
MCSuffixes == {SubSeq(wa[1], Len(wa[2]) + 1, Len(wa[1])) :
                  wa \in {x \in MCWords \X MCPrefixes :
                            Len(x[2]) < Len(x[1]) /\ SubSeq(x[1], 1, Len(x[2])) = x[2]}}
=============================================================================
