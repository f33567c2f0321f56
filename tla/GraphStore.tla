------------------------------ MODULE GraphStore ------------------------------
(***************************************************************************)
(* The graph engine: package graph over package storage (BadgerDB) over    *)
(* package index.  Every storage operation is one Badger transaction and   *)
(* every Graph method holds Graph.mu, so each is one action.  The one      *)
(* write that bypasses the mutex, Cypher SET, is two actions.              *)
(*                                                                         *)
(* A transaction reads the old version of what it replaces or removes, to  *)
(* take its index entries away.  It ignores an error of that read, and then*)
(* goes on as if there were nothing to take away: `misreads` counts the    *)
(* transactions this happened to.                                          *)
(*                                                                         *)
(* Index entries are strings such as "i:out:" + nodeID + ":" + edgeID, and *)
(* a lookup is a prefix scan that cuts the prefix off.  Node IDs contain   *)
(* colons, so the scan for node "n:Agent:a" also meets the entries of node *)
(* "n:Agent:a:b".  Key(a, b) is the concatenation a + ":" + b and a scan   *)
(* returns every s with Key(a, s) among the keys, as the code does.        *)
(***************************************************************************)
EXTENDS Integers

CONSTANTS
    NodeID, EdgeID,         \* identifiers that may be stored
    CallerNodeID,           \* node IDs that callers of UpsertNode make up
    NodeLabel, EdgeLabel,
    PropKey, PropVal,
    Absent,                 \* "this property map has no such key"
    Suffix,                 \* strings a prefix scan may cut out of a key
    Client,                 \* query sessions that execute SET
    Key(_, _),              \* a + ":" + b
    NewNodeID(_, _),        \* "n:<label>:<counter>"
    NewEdgeID(_, _),        \* "e:<label>:<counter>"
    HashEdgeID(_, _, _),    \* ingest.DeterministicEdgeID: "e:<label>:<hash of the ends>"
    ReadErrors,             \* may the read of an upsert fail transiently?
    MaxID,                  \* bound on idCounter in one process lifetime
    MaxFaults               \* bound on restarts and ignored read errors

Props   == [PropKey -> PropVal \cup {Absent}]
NodeRec == [label : NodeLabel, props : Props]
EdgeRec == [label : EdgeLabel, from : NodeID, to : NodeID]

\* The edge IDs CreateEdge can assign; UpsertEdge is called with hashed ones.
AssignedEdgeID == {NewEdgeID(l, k) : l \in EdgeLabel, k \in 1..MaxID}

\* A colon inside an ID makes a scan ambiguous, but never between two keys
\* that were really written: an edge ID always has three colon-separated parts,
\* node IDs begin with "n:" or "ckpt:", and labels contain no colon.
ASSUME KeyInjective ==
    /\ \A n, m \in NodeID, e, f \in EdgeID : Key(n, e) = Key(m, f) => n = m /\ e = f
    /\ \A l, k \in NodeLabel, n, m \in NodeID : Key(l, n) = Key(k, m) => l = k /\ n = m
    /\ \A l, k \in EdgeLabel, e, f \in EdgeID : Key(l, e) = Key(k, f) => l = k /\ e = f

ASSUME IDShapes ==
    /\ CallerNodeID \subseteq NodeID
    /\ NodeID \cup EdgeID \subseteq Suffix
    /\ \A l \in NodeLabel, k \in 1..MaxID : NewNodeID(l, k) \in NodeID
    /\ \A l \in EdgeLabel, k \in 1..MaxID : NewEdgeID(l, k) \in EdgeID

ASSUME BoundsAssumption == MaxID \in Nat /\ MaxFaults \in Nat /\ Absent \notin PropVal

VARIABLES
    nodes,      \* "node:" keys: partial function NodeID -> NodeRec
    edges,      \* "edge:" keys: partial function EdgeID -> EdgeRec
    lblIdx,     \* "i:lbl:" keys
    outIdx,     \* "i:out:" keys
    inIdx,      \* "i:in:" keys
    elblIdx,    \* "i:elbl:" keys
    idCounter,  \* the package-level counter, kept in memory only
    restarts,   \* process restarts so far
    misreads,   \* transactions that ignored a failed read so far
    pending     \* SET in progress per client: the node read, or NoRead

indexes == <<lblIdx, outIdx, inIdx, elblIdx>>
store == <<nodes, edges, indexes, misreads>>
vars == <<store, idCounter, restarts, pending>>

NoRead == [id |-> Absent]

Graph == INSTANCE PropertyGraph

\* What is stored is well formed.
StoreOK ==
    /\ DOMAIN nodes \subseteq NodeID /\ nodes \in [DOMAIN nodes -> NodeRec]
    /\ DOMAIN edges \subseteq EdgeID /\ edges \in [DOMAIN edges -> EdgeRec]

\* Type invariant: stored records, the counter and the nodes SET has read.
TypeOK ==
    /\ StoreOK
    /\ idCounter \in 0..MaxID
    /\ restarts \in 0..MaxFaults
    /\ misreads \in 0..MaxFaults
    /\ pending \in [Client -> [id : NodeID, rec : NodeRec] \cup {NoRead}]

Init ==
    /\ nodes = [n \in {} |-> n]
    /\ edges = [e \in {} |-> e]
    /\ lblIdx = {} /\ outIdx = {} /\ inIdx = {} /\ elblIdx = {}
    /\ idCounter = 0
    /\ restarts = 0 /\ misreads = 0
    /\ pending = [c \in Client |-> NoRead]

-----------------------------------------------------------------------------
(* Package index: prefix scans.                                            *)

\* The scan of prefix a: what is left of the keys that start with it.
Scan(idx, a) == {s \in Suffix : Key(a, s) \in idx}

OutgoingEdges(n) == Scan(outIdx, n)
\* Faulty variant: the scan returns only the outgoing half.
IncomingEdgesForgotten(n) == {}
IncomingEdges(n) == Scan(inIdx, n)

\* Index entries of an edge record r stored under e.
OutKey(e, r)  == Key(r.from, e)
InKey(e, r)   == Key(r.to, e)
ElblKey(e, r) == Key(r.label, e)

-----------------------------------------------------------------------------
(* Package storage: one Badger transaction each.                           *)

\* Of the records S that a transaction reads, the ones whose read fails and is
\* ignored.
Unread(S) == IF restarts + misreads < MaxFaults THEN SUBSET S ELSE {{}}
Misread(lost) == misreads' = IF lost = {} THEN misreads ELSE misreads + 1

\* The label entries of the nodes in S that are stored.
FiledLabels(S) == {Key(nodes[m].label, m) : m \in S \cap DOMAIN nodes}

\* Faulty variant: the entry of the version being replaced is left behind.
PutNodeNoDeindex(n, r) ==
    /\ misreads' = misreads
    /\ nodes' = Graph!With(nodes, n, r)
    /\ lblIdx' = lblIdx \cup {Key(r.label, n)}
    /\ UNCHANGED <<edges, outIdx, inIdx, elblIdx>>
PutNode(n, r) ==
    \E lost \in Unread({n} \cap DOMAIN nodes) :
        /\ Misread(lost)
        /\ nodes' = Graph!With(nodes, n, r)
        /\ lblIdx' = (lblIdx \ FiledLabels({n} \ lost)) \cup {Key(r.label, n)}
        /\ UNCHANGED <<edges, outIdx, inIdx, elblIdx>>

\* Removes the entries of every edge in S that is stored.
DeindexEdges(S) ==
    LET old == S \cap DOMAIN edges
    IN  /\ outIdx'  = outIdx  \ {OutKey(e, edges[e])  : e \in old}
        /\ inIdx'   = inIdx   \ {InKey(e, edges[e])   : e \in old}
        /\ elblIdx' = elblIdx \ {ElblKey(e, edges[e]) : e \in old}

PutEdge(e, r) ==
    \E lost \in Unread({e} \cap DOMAIN edges) :
        LET old == ({e} \ lost) \cap DOMAIN edges
        IN  /\ Misread(lost)
            /\ edges' = Graph!With(edges, e, r)
            /\ outIdx'  = (outIdx  \ {OutKey(f, edges[f])  : f \in old}) \cup {OutKey(e, r)}
            /\ inIdx'   = (inIdx   \ {InKey(f, edges[f])   : f \in old}) \cup {InKey(e, r)}
            /\ elblIdx' = (elblIdx \ {ElblKey(f, edges[f]) : f \in old}) \cup {ElblKey(e, r)}
            /\ UNCHANGED <<nodes, lblIdx>>

\* storage.DeleteNode: a missing node is not an error; the edges to remove are
\* the ones the two scans return; scanned IDs that are no edge are skipped, and
\* so are edges that cannot be read.
RemoveNode(n) ==
    LET listed == (OutgoingEdges(n) \cup IncomingEdges(n)) \cap DOMAIN edges
    IN  IF n \in DOMAIN nodes
        THEN \E lost \in Unread(listed) :
                /\ Misread(lost)
                /\ edges' = Graph!Without(edges, listed \ lost)
                /\ DeindexEdges(listed \ lost)
                /\ lblIdx' = lblIdx \ FiledLabels({n})
                /\ nodes' = Graph!Without(nodes, {n})
        ELSE UNCHANGED store

\* An edge that cannot be read is removed, and its entries stay.
RemoveEdge(e) ==
    \E lost \in Unread({e} \cap DOMAIN edges) :
        /\ Misread(lost)
        /\ DeindexEdges({e} \ lost)
        /\ edges' = Graph!Without(edges, {e})
        /\ UNCHANGED <<nodes, lblIdx>>

-----------------------------------------------------------------------------
(* Package graph: the operations callers use.                              *)

\* maps.Copy(old, new): the keys of new overwrite.
Merge(old, new) == [k \in PropKey |-> IF new[k] # Absent THEN new[k] ELSE old[k]]

\* idCounter.Add(1).  The counter moves even when the write then fails.
NextID ==
    /\ idCounter < MaxID
    /\ idCounter' = idCounter + 1

CreateNode(l, p) ==
    /\ NextID
    /\ \/ PutNode(NewNodeID(l, idCounter + 1), [label |-> l, props |-> p])
       \/ UNCHANGED store       \* storage error
    /\ UNCHANGED <<restarts, pending>>

\* Faulty variant: the endpoint check is dropped.
CreateEdgeUnchecked(l, from, to) ==
    /\ NextID
    /\ PutEdge(NewEdgeID(l, idCounter + 1), [label |-> l, from |-> from, to |-> to])
    /\ UNCHANGED <<restarts, pending>>
CreateEdge(l, from, to) ==
    /\ from \in DOMAIN nodes /\ to \in DOMAIN nodes
    /\ NextID
    /\ \/ PutEdge(NewEdgeID(l, idCounter + 1), [label |-> l, from |-> from, to |-> to])
       \/ UNCHANGED store       \* storage error
    /\ UNCHANGED <<restarts, pending>>

DeleteNode(n) ==
    /\ RemoveNode(n)
    /\ UNCHANGED <<idCounter, restarts, pending>>

DeleteEdge(e) ==
    /\ RemoveEdge(e)
    /\ UNCHANGED <<idCounter, restarts, pending>>

\* An existing node keeps its label and merges the properties.  Any error of
\* the read, not only "not found", takes the second branch and stores a new
\* node over the old one.
UpsertNode(n, l, p) ==
    /\ \/ /\ n \in DOMAIN nodes
          /\ PutNode(n, [nodes[n] EXCEPT !.props = Merge(@, p)])
       \/ /\ n \notin DOMAIN nodes \/ ReadErrors
          /\ PutNode(n, [label |-> l, props |-> p])
    /\ UNCHANGED <<idCounter, restarts, pending>>

\* An existing edge keeps its label and endpoints; endpoints are not checked.
\* Every caller names the edge by its label and endpoints.
UpsertEdge(l, from, to) ==
    LET e == HashEdgeID(l, from, to)
    IN  /\ e \in EdgeID \ AssignedEdgeID
        /\ \/ e \in DOMAIN edges /\ PutEdge(e, edges[e])
           \/ /\ e \notin DOMAIN edges \/ ReadErrors
              /\ PutEdge(e, [label |-> l, from |-> from, to |-> to])
        /\ UNCHANGED <<idCounter, restarts, pending>>

\* The two reads: what NodesByLabel and Neighbors return.
NodesByLabel(l) == Scan(lblIdx, l) \cap DOMAIN nodes
Neighbors(n) == (OutgoingEdges(n) \cup IncomingEdges(n)) \cap DOMAIN edges

-----------------------------------------------------------------------------
(* Package query, execSetProperty: GetNode under the read lock, then a     *)
(* whole-node PutNode on the storage backend without the lock.             *)

SetPropertyRead(c, n) ==
    /\ pending[c] = NoRead
    /\ n \in DOMAIN nodes
    /\ pending' = [pending EXCEPT ![c] = [id |-> n, rec |-> nodes[n]]]
    /\ UNCHANGED <<store, idCounter, restarts>>

SetPropertyWrite(c, k, v) ==
    /\ pending[c] # NoRead
    /\ PutNode(pending[c].id, [pending[c].rec EXCEPT !.props[k] = v])
    /\ pending' = [pending EXCEPT ![c] = NoRead]
    /\ UNCHANGED <<idCounter, restarts>>

\* The process stops and starts again: Badger keeps its keys, the counter and
\* the queries in flight are gone.
Restart ==
    /\ restarts + misreads < MaxFaults
    /\ restarts' = restarts + 1
    /\ idCounter' = 0
    /\ pending' = [c \in Client |-> NoRead]
    /\ UNCHANGED store

\* The IDs UpsertNode is called with: deterministic ones (package ingest's
\* AgentNodeID and the like), and IDs a caller was given earlier.
UpsertableID ==
    CallerNodeID \cup DOMAIN nodes \cup {NewNodeID(l, k) : l \in NodeLabel, k \in 1..idCounter}

NodeStep ==
    \/ \E l \in NodeLabel, p \in Props : CreateNode(l, p)
    \/ \E n \in NodeID : DeleteNode(n)
    \/ \E n \in UpsertableID, l \in NodeLabel, p \in Props : UpsertNode(n, l, p)

EdgeStep ==
    \/ \E l \in EdgeLabel, from, to \in NodeID : CreateEdge(l, from, to) \/ UpsertEdge(l, from, to)
    \/ \E e \in EdgeID : DeleteEdge(e)

QueryStep ==
    \/ \E c \in Client, n \in NodeID : SetPropertyRead(c, n)
    \/ \E c \in Client, k \in PropKey, v \in PropVal : SetPropertyWrite(c, k, v)

Next == NodeStep \/ EdgeStep \/ QueryStep \/ Restart

Spec == Init /\ [][Next]_vars

-----------------------------------------------------------------------------
(* Properties.                                                             *)

\* What is stored is always filed, after any mix of creates, upserts, cascading
\* deletes, stale SET writes and ID reuse after a restart; and as long as no
\* transaction has passed over a record it could not read, the four secondary
\* indexes hold nothing else (PutNode and PutEdge deindex what they replace).
Filed ==
    /\ {Key(nodes[n].label, n) : n \in DOMAIN nodes} \subseteq lblIdx
    /\ {OutKey(e, edges[e])  : e \in DOMAIN edges} \subseteq outIdx
    /\ {InKey(e, edges[e])   : e \in DOMAIN edges} \subseteq inIdx
    /\ {ElblKey(e, edges[e]) : e \in DOMAIN edges} \subseteq elblIdx
NothingStale ==
    /\ lblIdx  \subseteq {Key(nodes[n].label, n) : n \in DOMAIN nodes}
    /\ outIdx  \subseteq {OutKey(e, edges[e])  : e \in DOMAIN edges}
    /\ inIdx   \subseteq {InKey(e, edges[e])   : e \in DOMAIN edges}
    /\ elblIdx \subseteq {ElblKey(e, edges[e]) : e \in DOMAIN edges}
IndexExact == Filed /\ (misreads = 0 => NothingStale)

\* Neighbors and NodesByLabel return all incident edges and all labeled nodes,
\* and no others while nothing was passed over, although a prefix scan also
\* meets the entries of longer node IDs.
LookupsExact ==
    /\ \A n \in NodeID :
          LET found == Neighbors(n)
          IN  /\ Graph!Incident(n) \subseteq found
              /\ misreads = 0 => found = Graph!Incident(n)
    /\ \A l \in NodeLabel :
          LET found  == NodesByLabel(l)
              wanted == {n \in DOMAIN nodes : nodes[n].label = l}
          IN  /\ wanted \subseteq found
              /\ misreads = 0 => found = wanted

\* An edge made by CreateEdge never dangles: its endpoints were there when it
\* was made, and deleting either of them deletes the edge with it, unless a
\* transaction passes over a record that it cannot read.
CreatedEdgesAnchored ==
    misreads = 0 =>
        \A e \in DOMAIN edges \cap AssignedEdgeID :
            edges[e].from \in DOMAIN nodes /\ edges[e].to \in DOMAIN nodes

\* As long as no record is passed over, the store implements the property
\* graph: in particular the cascade computed from index scans removes exactly
\* the incident edges.
ImplementsPropertyGraph ==
    Graph!GInit /\ [][misreads' = 0 => Graph!GNext]_(Graph!gvars)
=============================================================================
