---------------------------- MODULE PropertyGraph ----------------------------
(***************************************************************************)
(* What package graph promises its callers: a labeled property graph, a    *)
(* map of nodes and a map of directed edges, with no index in sight.       *)
(* Removing a node removes the edges that touch it, in the same step.  An  *)
(* edge whose ID the graph assigned itself (CreateEdge) appears only       *)
(* between two nodes that exist; an edge with an ID chosen by the caller   *)
(* (UpsertEdge) may appear before its endpoints.                           *)
(***************************************************************************)
CONSTANTS
    NodeID, EdgeID,     \* identifiers
    NodeRec, EdgeRec,   \* stored values; an EdgeRec has fields from and to
    AssignedEdgeID      \* the edge IDs that CreateEdge hands out

VARIABLES nodes, edges  \* partial functions: ID -> record

gvars == <<nodes, edges>>

\* The function f with x mapped to v, whether or not f was defined at x.
With(f, x, v) == [y \in DOMAIN f \cup {x} |-> IF y = x THEN v ELSE f[y]]

\* The function f with the points of S removed.
Without(f, S) == [y \in DOMAIN f \ S |-> f[y]]

\* The edges that start or end at node n.
Incident(n) == {e \in DOMAIN edges : edges[e].from = n \/ edges[e].to = n}

GInit ==
    /\ nodes = [n \in {} |-> n]
    /\ edges = [e \in {} |-> e]

SetNode(n, r) ==
    /\ nodes' = With(nodes, n, r)
    /\ UNCHANGED edges

RemoveNode(n) ==
    /\ nodes' = Without(nodes, {n})
    /\ edges' = Without(edges, Incident(n))

SetEdge(e, r) ==
    /\ e \in AssignedEdgeID => {r.from, r.to} \subseteq DOMAIN nodes
    /\ edges' = With(edges, e, r)
    /\ UNCHANGED nodes

RemoveEdge(e) ==
    /\ edges' = Without(edges, {e})
    /\ UNCHANGED nodes

GNext ==
    \/ \E n \in NodeID : RemoveNode(n) \/ \E r \in NodeRec : SetNode(n, r)
    \/ \E e \in EdgeID : RemoveEdge(e) \/ \E r \in EdgeRec : SetEdge(e, r)

GSpec == GInit /\ [][GNext]_gvars
=============================================================================
