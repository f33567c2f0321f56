--------------------------- MODULE GraphStoreProofs ---------------------------
(* Proofs about GraphStore, for any identifiers, labels, property maps,      *)
(* clients and bounds that satisfy its assumptions.                          *)
EXTENDS GraphStore, TLAPS

-----------------------------------------------------------------------------
(* What holds while no transaction has passed over a record.                 *)

Exact ==
    /\ lblIdx  = {Key(nodes[n].label, n) : n \in DOMAIN nodes}
    /\ outIdx  = {OutKey(e, edges[e])  : e \in DOMAIN edges}
    /\ inIdx   = {Key(edges[e].to, e)  : e \in DOMAIN edges}
    /\ elblIdx = {ElblKey(e, edges[e]) : e \in DOMAIN edges}

AnswersExact ==
    /\ \A n \in NodeID : Neighbors(n) = Graph!Incident(n)
    /\ \A l \in NodeLabel : NodesByLabel(l) = {n \in DOMAIN nodes : nodes[n].label = l}

Anchored ==
    \A e \in DOMAIN edges \cap AssignedEdgeID :
        edges[e].from \in DOMAIN nodes /\ edges[e].to \in DOMAIN nodes

-----------------------------------------------------------------------------
(* A storage transaction that reads everything it has to keeps the records   *)
(* well formed and the indexes exact.                                        *)

\* PutNode: storing r under n files exactly r's label entry for n.
LEMMA PutNodeLemma ==
    ASSUME StoreOK, Exact, misreads = 0, misreads' = 0, NEW n \in NodeID, NEW r \in NodeRec, PutNode(n, r)
    PROVE  /\ StoreOK' /\ Exact'
           /\ DOMAIN nodes' = DOMAIN nodes \cup {n} /\ edges' = edges
<1>0. /\ nodes' = Graph!With(nodes, n, r)
      /\ lblIdx' = (lblIdx \ FiledLabels({n})) \cup {Key(r.label, n)}
      /\ UNCHANGED <<edges, outIdx, inIdx, elblIdx>>
  <2>1. PICK lost \in Unread({n} \cap DOMAIN nodes) :
            /\ Misread(lost)
            /\ nodes' = Graph!With(nodes, n, r)
            /\ lblIdx' = (lblIdx \ FiledLabels({n} \ lost)) \cup {Key(r.label, n)}
            /\ UNCHANGED <<edges, outIdx, inIdx, elblIdx>>
    BY DEF PutNode
  <2>2. {n} \ lost = {n}
    BY <2>1 DEF Misread
  <2>. QED BY <2>1, <2>2
<1>1. /\ DOMAIN nodes' = DOMAIN nodes \cup {n} /\ edges' = edges
      /\ nodes'[n] = r
      /\ \A m \in DOMAIN nodes : m # n => nodes'[m] = nodes[m]
  BY <1>0 DEF Graph!With
<1>2. StoreOK'
  <2>1. nodes' \in [DOMAIN nodes' -> NodeRec]
    BY <1>0 DEF Graph!With, StoreOK
  <2>. QED BY <1>1, <2>1 DEF StoreOK
<1>3. \A m \in DOMAIN nodes : nodes[m].label \in NodeLabel /\ m \in NodeID
  BY DEF StoreOK, NodeRec
<1>4. r.label \in NodeLabel
  BY DEF NodeRec
<1>5. lblIdx' = {Key(nodes'[m].label, m) : m \in DOMAIN nodes'}
  <2>1. ASSUME NEW x \in lblIdx' PROVE x \in {Key(nodes'[m].label, m) : m \in DOMAIN nodes'}
    <3>1. CASE x = Key(r.label, n)
      BY <3>1, <1>1
    <3>2. CASE x \in lblIdx \ FiledLabels({n})
      <4>1. PICK m \in DOMAIN nodes : x = Key(nodes[m].label, m)
        BY <3>2 DEF Exact
      <4>2. m # n
        BY <3>2, <4>1 DEF FiledLabels
      <4>. QED BY <4>1, <4>2, <1>1
    <3>. QED BY <1>0, <2>1, <3>1, <3>2
  <2>2. ASSUME NEW m \in DOMAIN nodes' PROVE Key(nodes'[m].label, m) \in lblIdx'
    <3>1. CASE m = n
      BY <3>1, <1>0, <1>1
    <3>2. CASE m # n
      <4>1. m \in DOMAIN nodes /\ nodes'[m] = nodes[m]
        BY <3>2, <1>1
      <4>2. Key(nodes[m].label, m) \in lblIdx
        BY <4>1 DEF Exact
      <4>3. Key(nodes[m].label, m) \notin FiledLabels({n})
        BY <3>2, <4>1, <1>3, KeyInjective DEF FiledLabels
      <4>. QED BY <1>0, <4>1, <4>2, <4>3
    <3>. QED BY <3>1, <3>2
  <2>. QED BY <2>1, <2>2
<1>. QED BY <1>0, <1>1, <1>2, <1>5 DEF Exact, OutKey, ElblKey

\* PutEdge: storing r under e files exactly r's three entries for e, whatever
\* edge was stored under e before.
LEMMA PutEdgeLemma ==
    ASSUME StoreOK, Exact, misreads = 0, misreads' = 0, NEW e \in EdgeID, NEW r \in EdgeRec, PutEdge(e, r)
    PROVE  /\ StoreOK' /\ Exact'
           /\ edges' = Graph!With(edges, e, r) /\ nodes' = nodes
<1>0. /\ edges' = Graph!With(edges, e, r) /\ UNCHANGED <<nodes, lblIdx>>
      /\ outIdx'  = (outIdx  \ {OutKey(f, edges[f])  : f \in {e} \cap DOMAIN edges}) \cup {OutKey(e, r)}
      /\ inIdx'   = (inIdx   \ {InKey(f, edges[f])   : f \in {e} \cap DOMAIN edges}) \cup {InKey(e, r)}
      /\ elblIdx' = (elblIdx \ {ElblKey(f, edges[f]) : f \in {e} \cap DOMAIN edges}) \cup {ElblKey(e, r)}
  <2>1. PICK lost \in Unread({e} \cap DOMAIN edges) :
            /\ Misread(lost)
            /\ edges' = Graph!With(edges, e, r)
            /\ outIdx'  = (outIdx  \ {OutKey(f, edges[f])  : f \in ({e} \ lost) \cap DOMAIN edges}) \cup {OutKey(e, r)}
            /\ inIdx'   = (inIdx   \ {InKey(f, edges[f])   : f \in ({e} \ lost) \cap DOMAIN edges}) \cup {InKey(e, r)}
            /\ elblIdx' = (elblIdx \ {ElblKey(f, edges[f]) : f \in ({e} \ lost) \cap DOMAIN edges}) \cup {ElblKey(e, r)}
            /\ UNCHANGED <<nodes, lblIdx>>
    BY Zenon DEF PutEdge
  <2>2. {e} \ lost = {e}
    BY <2>1 DEF Misread
  <2>. QED BY <2>1, <2>2
<1>1. /\ DOMAIN edges' = DOMAIN edges \cup {e} /\ nodes' = nodes
      /\ edges'[e] = r
      /\ \A f \in DOMAIN edges : f # e => edges'[f] = edges[f]
  BY <1>0 DEF Graph!With
<1>2. StoreOK'
  <2>1. edges' \in [DOMAIN edges' -> EdgeRec]
    BY <1>0 DEF Graph!With, StoreOK
  <2>. QED BY <1>1, <2>1 DEF StoreOK
<1>3. \A f \in DOMAIN edges : /\ f \in EdgeID /\ edges[f].label \in EdgeLabel
                               /\ edges[f].from \in NodeID /\ edges[f].to \in NodeID
  BY DEF StoreOK, EdgeRec
<1>4. outIdx' = {Key(edges'[f].from, f) : f \in DOMAIN edges'}
  <2>1. ASSUME NEW x \in outIdx' PROVE x \in {Key(edges'[f].from, f) : f \in DOMAIN edges'}
    <3>1. CASE x = OutKey(e, r)
      BY <3>1, <1>1 DEF OutKey
    <3>2. CASE x \in outIdx \ {OutKey(f, edges[f]) : f \in {e} \cap DOMAIN edges}
      <4>1. PICK f \in DOMAIN edges : x = Key(edges[f].from, f)
        BY <3>2 DEF Exact, OutKey
      <4>2. f # e
        BY <3>2, <4>1 DEF OutKey
      <4>. QED BY <4>1, <4>2, <1>1
    <3>. QED BY <1>0, <2>1, <3>1, <3>2
  <2>2. ASSUME NEW f \in DOMAIN edges' PROVE Key(edges'[f].from, f) \in outIdx'
    <3>1. CASE f = e
      BY <3>1, <1>0, <1>1 DEF OutKey
    <3>2. CASE f # e
      <4>1. f \in DOMAIN edges /\ edges'[f] = edges[f]
        BY <3>2, <1>1
      <4>2. Key(edges[f].from, f) \in outIdx
        BY <4>1 DEF Exact, OutKey
      <4>3. Key(edges[f].from, f) \notin {OutKey(g, edges[g]) : g \in {e} \cap DOMAIN edges}
        BY <3>2, <4>1, <1>3, KeyInjective DEF OutKey
      <4>. QED BY <1>0, <4>1, <4>2, <4>3
    <3>. QED BY <3>1, <3>2
  <2>. QED BY <2>1, <2>2
<1>5. inIdx' = {Key(edges'[f].to, f) : f \in DOMAIN edges'}
  <2>1. ASSUME NEW x \in inIdx' PROVE x \in {Key(edges'[f].to, f) : f \in DOMAIN edges'}
    <3>1. CASE x = InKey(e, r)
      BY <3>1, <1>1 DEF InKey
    <3>2. CASE x \in inIdx \ {InKey(f, edges[f]) : f \in {e} \cap DOMAIN edges}
      <4>1. PICK f \in DOMAIN edges : x = Key(edges[f].to, f)
        BY <3>2 DEF Exact, InKey
      <4>2. f # e
        BY <3>2, <4>1 DEF InKey
      <4>. QED BY <4>1, <4>2, <1>1
    <3>. QED BY <1>0, <2>1, <3>1, <3>2
  <2>2. ASSUME NEW f \in DOMAIN edges' PROVE Key(edges'[f].to, f) \in inIdx'
    <3>1. CASE f = e
      BY <3>1, <1>0, <1>1 DEF InKey
    <3>2. CASE f # e
      <4>1. f \in DOMAIN edges /\ edges'[f] = edges[f]
        BY <3>2, <1>1
      <4>2. Key(edges[f].to, f) \in inIdx
        BY <4>1 DEF Exact, InKey
      <4>3. Key(edges[f].to, f) \notin {InKey(g, edges[g]) : g \in {e} \cap DOMAIN edges}
        BY <3>2, <4>1, <1>3, KeyInjective DEF InKey
      <4>. QED BY <1>0, <4>1, <4>2, <4>3
    <3>. QED BY <3>1, <3>2
  <2>. QED BY <2>1, <2>2
<1>6. elblIdx' = {Key(edges'[f].label, f) : f \in DOMAIN edges'}
  <2>1. ASSUME NEW x \in elblIdx' PROVE x \in {Key(edges'[f].label, f) : f \in DOMAIN edges'}
    <3>1. CASE x = ElblKey(e, r)
      BY <3>1, <1>1 DEF ElblKey
    <3>2. CASE x \in elblIdx \ {ElblKey(f, edges[f]) : f \in {e} \cap DOMAIN edges}
      <4>1. PICK f \in DOMAIN edges : x = Key(edges[f].label, f)
        BY <3>2 DEF Exact, ElblKey
      <4>2. f # e
        BY <3>2, <4>1 DEF ElblKey
      <4>. QED BY <4>1, <4>2, <1>1
    <3>. QED BY <1>0, <2>1, <3>1, <3>2
  <2>2. ASSUME NEW f \in DOMAIN edges' PROVE Key(edges'[f].label, f) \in elblIdx'
    <3>1. CASE f = e
      BY <3>1, <1>0, <1>1 DEF ElblKey
    <3>2. CASE f # e
      <4>1. f \in DOMAIN edges /\ edges'[f] = edges[f]
        BY <3>2, <1>1
      <4>2. Key(edges[f].label, f) \in elblIdx
        BY <4>1 DEF Exact, ElblKey
      <4>3. Key(edges[f].label, f) \notin {ElblKey(g, edges[g]) : g \in {e} \cap DOMAIN edges}
        BY <3>2, <4>1, <1>3, KeyInjective DEF ElblKey
      <4>. QED BY <1>0, <4>1, <4>2, <4>3
    <3>. QED BY <3>1, <3>2
  <2>. QED BY <2>1, <2>2
<1>7. lblIdx' = {Key(nodes'[n].label, n) : n \in DOMAIN nodes'}
  BY <1>0, <1>1 DEF Exact
<1>. QED BY <1>1, <1>2, <1>4, <1>0, <1>5, <1>6, <1>7 DEF Exact, OutKey, ElblKey

\* Deindexing a set of edges and dropping them leaves the edge indexes exact.
LEMMA DropEdgesLemma ==
    ASSUME StoreOK, Exact, misreads = 0, misreads' = 0, NEW S, DeindexEdges(S), edges' = Graph!Without(edges, S)
    PROVE  /\ DOMAIN edges' \subseteq EdgeID /\ edges' \in [DOMAIN edges' -> EdgeRec]
           /\ outIdx'  = {OutKey(f, edges'[f])  : f \in DOMAIN edges'}
           /\ inIdx'   = {Key(edges'[f].to, f)  : f \in DOMAIN edges'}
           /\ elblIdx' = {ElblKey(f, edges'[f]) : f \in DOMAIN edges'}
<1>1. /\ DOMAIN edges' = DOMAIN edges \ S
      /\ \A f \in DOMAIN edges' : edges'[f] = edges[f]
  BY DEF Graph!Without
<1>2. /\ DOMAIN edges' \subseteq EdgeID /\ edges' \in [DOMAIN edges' -> EdgeRec]
  BY <1>1 DEF StoreOK, Graph!Without
<1>3. \A f \in DOMAIN edges : /\ f \in EdgeID /\ edges[f].label \in EdgeLabel
                               /\ edges[f].from \in NodeID /\ edges[f].to \in NodeID
  BY DEF StoreOK, EdgeRec
<1>4. outIdx' = {Key(edges'[f].from, f) : f \in DOMAIN edges'}
  <2>1. outIdx' = outIdx \ {OutKey(f, edges[f]) : f \in S \cap DOMAIN edges}
    BY DEF DeindexEdges
  <2>2. ASSUME NEW f \in DOMAIN edges'
        PROVE  Key(edges[f].from, f) \notin {OutKey(g, edges[g]) : g \in S \cap DOMAIN edges}
    BY <1>1, <1>3, KeyInjective DEF OutKey
  <2>3. outIdx = {Key(edges[f].from, f) : f \in DOMAIN edges}
    BY DEF Exact, OutKey
  <2>. QED BY <1>1, <2>1, <2>2, <2>3 DEF OutKey
<1>5. inIdx' = {Key(edges'[f].to, f) : f \in DOMAIN edges'}
  <2>1. inIdx' = inIdx \ {InKey(f, edges[f]) : f \in S \cap DOMAIN edges}
    BY DEF DeindexEdges
  <2>2. ASSUME NEW f \in DOMAIN edges'
        PROVE  Key(edges[f].to, f) \notin {InKey(g, edges[g]) : g \in S \cap DOMAIN edges}
    BY <1>1, <1>3, KeyInjective DEF InKey
  <2>3. inIdx = {Key(edges[f].to, f) : f \in DOMAIN edges}
    BY DEF Exact, InKey
  <2>. QED BY <1>1, <2>1, <2>2, <2>3 DEF InKey
<1>6. elblIdx' = {Key(edges'[f].label, f) : f \in DOMAIN edges'}
  <2>1. elblIdx' = elblIdx \ {ElblKey(f, edges[f]) : f \in S \cap DOMAIN edges}
    BY DEF DeindexEdges
  <2>2. ASSUME NEW f \in DOMAIN edges'
        PROVE  Key(edges[f].label, f) \notin {ElblKey(g, edges[g]) : g \in S \cap DOMAIN edges}
    BY <1>1, <1>3, KeyInjective DEF ElblKey
  <2>3. elblIdx = {Key(edges[f].label, f) : f \in DOMAIN edges}
    BY DEF Exact, ElblKey
  <2>. QED BY <1>1, <2>1, <2>2, <2>3 DEF ElblKey
<1>. QED BY <1>2, <1>4, <1>5, <1>6 DEF OutKey, ElblKey

\* Exact indexes make the prefix scans exact: the extra strings a scan meets are
\* no edge IDs, so Neighbors returns the incident edges and nothing else.
LEMMA ScansExact ==
    ASSUME StoreOK, Exact
    PROVE  AnswersExact
<1>1. \A f \in DOMAIN edges : /\ f \in EdgeID /\ f \in Suffix
                               /\ edges[f].from \in NodeID /\ edges[f].to \in NodeID
  BY IDShapes DEF StoreOK, EdgeRec
<1>2. ASSUME NEW n \in NodeID PROVE Neighbors(n) = Graph!Incident(n)
  <2>1. ASSUME NEW f \in DOMAIN edges PROVE f \in OutgoingEdges(n) <=> edges[f].from = n
    <3>1. f \in OutgoingEdges(n) <=> Key(n, f) \in outIdx
      BY <1>1 DEF OutgoingEdges, Scan
    <3>2. Key(n, f) \in outIdx <=> \E g \in DOMAIN edges : Key(n, f) = Key(edges[g].from, g)
      BY DEF Exact, OutKey
    <3>. QED BY <3>1, <3>2, <1>1, KeyInjective
  <2>2. ASSUME NEW f \in DOMAIN edges PROVE f \in IncomingEdges(n) <=> edges[f].to = n
    <3>1. f \in IncomingEdges(n) <=> Key(n, f) \in inIdx
      BY <1>1 DEF IncomingEdges, Scan
    <3>2. Key(n, f) \in inIdx <=> \E g \in DOMAIN edges : Key(n, f) = Key(edges[g].to, g)
      BY DEF Exact
    <3>. QED BY <3>1, <3>2, <1>1, KeyInjective
  <2>. QED BY <2>1, <2>2 DEF Neighbors, Graph!Incident
<1>3. ASSUME NEW l \in NodeLabel
      PROVE  NodesByLabel(l) = {n \in DOMAIN nodes : nodes[n].label = l}
  <2>1. \A n \in DOMAIN nodes : n \in NodeID /\ n \in Suffix /\ nodes[n].label \in NodeLabel
    BY IDShapes DEF StoreOK, NodeRec
  <2>2. ASSUME NEW n \in DOMAIN nodes PROVE n \in Scan(lblIdx, l) <=> nodes[n].label = l
    <3>1. n \in Scan(lblIdx, l) <=> Key(l, n) \in lblIdx
      BY <2>1 DEF Scan
    <3>2. Key(l, n) \in lblIdx <=> \E m \in DOMAIN nodes : Key(l, n) = Key(nodes[m].label, m)
      BY DEF Exact
    <3>. QED BY <3>1, <3>2, <2>1, KeyInjective
  <2>. QED BY <2>2 DEF NodesByLabel
<1>. QED BY <1>2, <1>3 DEF AnswersExact

\* storage.DeleteNode either finds no node, or is the abstract cascade.
LEMMA RemoveNodeLemma ==
    ASSUME StoreOK, Exact, misreads = 0, misreads' = 0, NEW n \in NodeID, RemoveNode(n)
    PROVE  /\ StoreOK' /\ Exact'
           /\ UNCHANGED <<nodes, edges>> \/ Graph!RemoveNode(n)
<1>1. CASE n \notin DOMAIN nodes
  <2>1. UNCHANGED store
    BY <1>1 DEF RemoveNode
  <2>. QED BY <2>1 DEF StoreOK, Exact, store, indexes, OutKey, ElblKey
<1>2. CASE n \in DOMAIN nodes
  <2> DEFINE gone == (OutgoingEdges(n) \cup IncomingEdges(n)) \cap DOMAIN edges
  <2>1. /\ edges' = Graph!Without(edges, gone) /\ DeindexEdges(gone)
        /\ lblIdx' = lblIdx \ FiledLabels({n}) /\ nodes' = Graph!Without(nodes, {n})
    <3>1. PICK lost \in Unread(gone) :
              /\ Misread(lost)
              /\ edges' = Graph!Without(edges, gone \ lost) /\ DeindexEdges(gone \ lost)
              /\ lblIdx' = lblIdx \ FiledLabels({n}) /\ nodes' = Graph!Without(nodes, {n})
      BY <1>2 DEF RemoveNode
    <3>2. gone \ lost = gone
      BY <3>1 DEF Misread
    <3>. QED BY <3>1, <3>2
  <2>2. gone = Graph!Incident(n)
    BY ScansExact DEF AnswersExact, Neighbors
  <2> HIDE DEF gone
  <2>3. /\ DOMAIN edges' \subseteq EdgeID /\ edges' \in [DOMAIN edges' -> EdgeRec]
        /\ outIdx'  = {OutKey(f, edges'[f])  : f \in DOMAIN edges'}
        /\ inIdx'   = {Key(edges'[f].to, f)  : f \in DOMAIN edges'}
        /\ elblIdx' = {ElblKey(f, edges'[f]) : f \in DOMAIN edges'}
    BY <2>1, DropEdgesLemma
  <2>4. /\ DOMAIN nodes' = DOMAIN nodes \ {n}
        /\ \A m \in DOMAIN nodes' : nodes'[m] = nodes[m]
    BY <2>1 DEF Graph!Without
  <2>5. nodes' \in [DOMAIN nodes' -> NodeRec]
    BY <2>1 DEF Graph!Without, StoreOK
  <2>6. lblIdx' = {Key(nodes'[m].label, m) : m \in DOMAIN nodes'}
    <3>1. \A m \in DOMAIN nodes : m \in NodeID /\ nodes[m].label \in NodeLabel
      BY DEF StoreOK, NodeRec
    <3>2. FiledLabels({n}) = {Key(nodes[n].label, n)}
      BY <1>2 DEF FiledLabels
    <3>3. \A m \in DOMAIN nodes' : Key(nodes[m].label, m) # Key(nodes[n].label, n)
      BY <1>2, <2>4, <3>1, KeyInjective
    <3>4. lblIdx = {Key(nodes[m].label, m) : m \in DOMAIN nodes}
      BY DEF Exact
    <3>. QED BY <2>1, <2>4, <3>2, <3>3, <3>4
  <2>7. StoreOK' /\ Exact'
    BY <2>3, <2>4, <2>5, <2>6 DEF StoreOK, Exact
  <2>8. Graph!RemoveNode(n)
    BY <2>1, <2>2 DEF Graph!RemoveNode
  <2>. QED BY <2>7, <2>8
<1>. QED BY <1>1, <1>2

\* storage.DeleteEdge is the abstract removal.
LEMMA RemoveEdgeLemma ==
    ASSUME StoreOK, Exact, misreads = 0, misreads' = 0, NEW e \in EdgeID, RemoveEdge(e)
    PROVE  StoreOK' /\ Exact' /\ Graph!RemoveEdge(e)
<1>0. DeindexEdges({e}) /\ edges' = Graph!Without(edges, {e}) /\ UNCHANGED <<nodes, lblIdx>>
  <2>1. PICK lost \in Unread({e} \cap DOMAIN edges) :
            /\ Misread(lost)
            /\ DeindexEdges({e} \ lost) /\ edges' = Graph!Without(edges, {e}) /\ UNCHANGED <<nodes, lblIdx>>
    BY DEF RemoveEdge
  <2>2. {e} \ lost = {e}
    BY <2>1 DEF Misread
  <2>. QED BY <2>1, <2>2
<1>1. /\ DOMAIN edges' \subseteq EdgeID /\ edges' \in [DOMAIN edges' -> EdgeRec]
      /\ outIdx'  = {OutKey(f, edges'[f])  : f \in DOMAIN edges'}
      /\ inIdx'   = {Key(edges'[f].to, f)  : f \in DOMAIN edges'}
      /\ elblIdx' = {ElblKey(f, edges'[f]) : f \in DOMAIN edges'}
  BY <1>0, DropEdgesLemma
<1>2. UNCHANGED <<nodes, lblIdx>> /\ edges' = Graph!Without(edges, {e})
  BY <1>0
<1>3. StoreOK' /\ Exact'
  BY <1>1, <1>2 DEF StoreOK, Exact
<1>. QED BY <1>2, <1>3 DEF Graph!RemoveEdge

-----------------------------------------------------------------------------
(* Whatever a transaction passes over, what is stored stays well formed and  *)
(* filed.                                                                    *)

Kept == StoreOK' /\ Filed' /\ misreads' \in misreads..MaxFaults

\* A transaction that passes over something is counted, within the bound.
LEMMA MisreadCount ==
    ASSUME TypeOK, NEW S, NEW lost \in Unread(S), Misread(lost)
    PROVE  misreads' \in misreads..MaxFaults
BY BoundsAssumption DEF TypeOK, Unread, Misread

\* PutNode takes no other node's label entry away.
LEMMA PutNodeKeeps ==
    ASSUME TypeOK, Filed, NEW n \in NodeID, NEW r \in NodeRec, PutNode(n, r)
    PROVE  Kept
<1>1. PICK lost \in Unread({n} \cap DOMAIN nodes) :
          /\ Misread(lost)
          /\ nodes' = Graph!With(nodes, n, r)
          /\ lblIdx' = (lblIdx \ FiledLabels({n} \ lost)) \cup {Key(r.label, n)}
          /\ UNCHANGED <<edges, outIdx, inIdx, elblIdx>>
  BY DEF PutNode
<1>2. misreads' \in misreads..MaxFaults
  BY <1>1, MisreadCount
<1>3. /\ DOMAIN nodes' = DOMAIN nodes \cup {n} /\ nodes'[n] = r
      /\ \A m \in DOMAIN nodes : m # n => nodes'[m] = nodes[m]
  BY <1>1 DEF Graph!With
<1>4. nodes' \in [DOMAIN nodes' -> NodeRec]
  BY <1>1 DEF Graph!With, TypeOK, StoreOK
<1>5. StoreOK'
  BY <1>1, <1>3, <1>4 DEF TypeOK, StoreOK
<1>6. ASSUME NEW m \in DOMAIN nodes' PROVE Key(nodes'[m].label, m) \in lblIdx'
  <2>1. CASE m = n
    BY <1>1, <1>3, <2>1
  <2>2. CASE m # n
    <3>1. m \in DOMAIN nodes /\ nodes'[m] = nodes[m]
      BY <1>3, <2>2
    <3>2. Key(nodes[m].label, m) \in lblIdx
      BY <3>1 DEF Filed
    <3>3. \A x \in DOMAIN nodes : x \in NodeID /\ nodes[x].label \in NodeLabel
      BY DEF TypeOK, StoreOK, NodeRec
    <3>4. Key(nodes[m].label, m) \notin FiledLabels({n} \ lost)
      BY <2>2, <3>1, <3>3, KeyInjective DEF FiledLabels
    <3>. QED BY <1>1, <3>1, <3>2, <3>4
  <2>. QED BY <2>1, <2>2
<1>7. Filed'
  BY <1>1, <1>6 DEF Filed, OutKey, InKey, ElblKey
<1>. QED BY <1>2, <1>5, <1>7 DEF Kept

\* Deindexing edges, when they and perhaps others are dropped, takes no entry
\* of a remaining edge away.
LEMMA DropKeeps ==
    ASSUME TypeOK, Filed, NEW T, NEW S \in SUBSET T,
           DeindexEdges(S), edges' = Graph!Without(edges, T)
    PROVE  /\ DOMAIN edges' \subseteq EdgeID /\ edges' \in [DOMAIN edges' -> EdgeRec]
           /\ {OutKey(e, edges'[e])  : e \in DOMAIN edges'} \subseteq outIdx'
           /\ {InKey(e, edges'[e])   : e \in DOMAIN edges'} \subseteq inIdx'
           /\ {ElblKey(e, edges'[e]) : e \in DOMAIN edges'} \subseteq elblIdx'
<1>1. /\ DOMAIN edges' = DOMAIN edges \ T
      /\ \A e \in DOMAIN edges' : edges'[e] = edges[e]
  BY DEF Graph!Without
<1>2. DOMAIN edges' \subseteq EdgeID /\ edges' \in [DOMAIN edges' -> EdgeRec]
  BY <1>1 DEF TypeOK, StoreOK, Graph!Without
<1>3. \A e \in DOMAIN edges : /\ e \in EdgeID /\ edges[e].label \in EdgeLabel
                               /\ edges[e].from \in NodeID /\ edges[e].to \in NodeID
  BY DEF TypeOK, StoreOK, EdgeRec
<1>4. ASSUME NEW e \in DOMAIN edges' PROVE OutKey(e, edges'[e]) \in outIdx'
  <2>1. OutKey(e, edges[e]) \in outIdx
    BY <1>1 DEF Filed
  <2>2. OutKey(e, edges[e]) \notin {OutKey(f, edges[f]) : f \in S \cap DOMAIN edges}
    BY <1>1, <1>3, KeyInjective DEF OutKey
  <2>. QED BY <1>1, <2>1, <2>2 DEF DeindexEdges
<1>5. ASSUME NEW e \in DOMAIN edges' PROVE InKey(e, edges'[e]) \in inIdx'
  <2>1. InKey(e, edges[e]) \in inIdx
    BY <1>1 DEF Filed
  <2>2. InKey(e, edges[e]) \notin {InKey(f, edges[f]) : f \in S \cap DOMAIN edges}
    BY <1>1, <1>3, KeyInjective DEF InKey
  <2>. QED BY <1>1, <2>1, <2>2 DEF DeindexEdges
<1>6. ASSUME NEW e \in DOMAIN edges' PROVE ElblKey(e, edges'[e]) \in elblIdx'
  <2>1. ElblKey(e, edges[e]) \in elblIdx
    BY <1>1 DEF Filed
  <2>2. ElblKey(e, edges[e]) \notin {ElblKey(f, edges[f]) : f \in S \cap DOMAIN edges}
    BY <1>1, <1>3, KeyInjective DEF ElblKey
  <2>. QED BY <1>1, <2>1, <2>2 DEF DeindexEdges
<1>. QED BY <1>2, <1>4, <1>5, <1>6

\* PutEdge takes no other edge's entries away.
LEMMA PutEdgeKeeps ==
    ASSUME TypeOK, Filed, NEW e \in EdgeID, NEW r \in EdgeRec, PutEdge(e, r)
    PROVE  Kept
<1>1. PICK lost \in Unread({e} \cap DOMAIN edges) :
          /\ Misread(lost)
          /\ edges' = Graph!With(edges, e, r)
          /\ outIdx'  = (outIdx  \ {OutKey(f, edges[f])  : f \in ({e} \ lost) \cap DOMAIN edges}) \cup {OutKey(e, r)}
          /\ inIdx'   = (inIdx   \ {InKey(f, edges[f])   : f \in ({e} \ lost) \cap DOMAIN edges}) \cup {InKey(e, r)}
          /\ elblIdx' = (elblIdx \ {ElblKey(f, edges[f]) : f \in ({e} \ lost) \cap DOMAIN edges}) \cup {ElblKey(e, r)}
          /\ UNCHANGED <<nodes, lblIdx>>
  BY Zenon DEF PutEdge
<1>2. misreads' \in misreads..MaxFaults
  BY <1>1, MisreadCount
<1>3. /\ DOMAIN edges' = DOMAIN edges \cup {e} /\ edges'[e] = r
      /\ \A f \in DOMAIN edges : f # e => edges'[f] = edges[f]
  BY <1>1 DEF Graph!With
<1>4. edges' \in [DOMAIN edges' -> EdgeRec]
  BY <1>1 DEF Graph!With, TypeOK, StoreOK
<1>5. StoreOK'
  BY <1>1, <1>3, <1>4 DEF TypeOK, StoreOK
<1>6. \A f \in DOMAIN edges : /\ f \in EdgeID /\ edges[f].label \in EdgeLabel
                               /\ edges[f].from \in NodeID /\ edges[f].to \in NodeID
  BY DEF TypeOK, StoreOK, EdgeRec
<1>7. ASSUME NEW f \in DOMAIN edges', f # e
      PROVE  /\ f \in DOMAIN edges /\ edges'[f] = edges[f]
             /\ OutKey(f, edges[f]) \in outIdx /\ InKey(f, edges[f]) \in inIdx
             /\ ElblKey(f, edges[f]) \in elblIdx
  BY <1>3, <1>7 DEF Filed
<1>8. ASSUME NEW f \in DOMAIN edges' PROVE OutKey(f, edges'[f]) \in outIdx'
  <2>1. CASE f = e
    BY <1>1, <1>3, <2>1
  <2>2. CASE f # e
    <3>1. OutKey(f, edges[f]) \notin {OutKey(g, edges[g]) : g \in ({e} \ lost) \cap DOMAIN edges}
      BY <1>6, <1>7, <2>2, KeyInjective DEF OutKey
    <3>. QED BY <1>1, <1>7, <2>2, <3>1
  <2>. QED BY <2>1, <2>2
<1>9. ASSUME NEW f \in DOMAIN edges' PROVE InKey(f, edges'[f]) \in inIdx'
  <2>1. CASE f = e
    BY <1>1, <1>3, <2>1
  <2>2. CASE f # e
    <3>1. InKey(f, edges[f]) \notin {InKey(g, edges[g]) : g \in ({e} \ lost) \cap DOMAIN edges}
      BY <1>6, <1>7, <2>2, KeyInjective DEF InKey
    <3>. QED BY <1>1, <1>7, <2>2, <3>1
  <2>. QED BY <2>1, <2>2
<1>10. ASSUME NEW f \in DOMAIN edges' PROVE ElblKey(f, edges'[f]) \in elblIdx'
  <2>1. CASE f = e
    BY <1>1, <1>3, <2>1
  <2>2. CASE f # e
    <3>1. ElblKey(f, edges[f]) \notin {ElblKey(g, edges[g]) : g \in ({e} \ lost) \cap DOMAIN edges}
      BY <1>6, <1>7, <2>2, KeyInjective DEF ElblKey
    <3>. QED BY <1>1, <1>7, <2>2, <3>1
  <2>. QED BY <2>1, <2>2
<1>11. {Key(nodes'[m].label, m) : m \in DOMAIN nodes'} \subseteq lblIdx'
  BY <1>1 DEF Filed
<1>12. Filed'
  BY <1>8, <1>9, <1>10, <1>11 DEF Filed
<1>. QED BY <1>2, <1>5, <1>12 DEF Kept

\* The cascade takes no entry of anything that remains away.
LEMMA RemoveNodeKeeps ==
    ASSUME TypeOK, Filed, NEW n \in NodeID, RemoveNode(n)
    PROVE  Kept
<1>1. CASE n \notin DOMAIN nodes
  <2>1. UNCHANGED <<nodes, edges, indexes, misreads>>
    BY <1>1 DEF RemoveNode, store
  <2>. QED BY <2>1, BoundsAssumption DEF Kept, TypeOK, StoreOK, Filed, indexes, OutKey, InKey, ElblKey
<1>2. CASE n \in DOMAIN nodes
  <2>1. PICK lost \in Unread((OutgoingEdges(n) \cup IncomingEdges(n)) \cap DOMAIN edges) :
            /\ Misread(lost)
            /\ edges' = Graph!Without(edges, ((OutgoingEdges(n) \cup IncomingEdges(n)) \cap DOMAIN edges) \ lost)
            /\ DeindexEdges(((OutgoingEdges(n) \cup IncomingEdges(n)) \cap DOMAIN edges) \ lost)
            /\ lblIdx' = lblIdx \ FiledLabels({n})
            /\ nodes' = Graph!Without(nodes, {n})
    BY <1>2 DEF RemoveNode
  <2>2. misreads' \in misreads..MaxFaults
    BY <2>1, MisreadCount
  <2>3. /\ DOMAIN edges' \subseteq EdgeID /\ edges' \in [DOMAIN edges' -> EdgeRec]
        /\ {OutKey(e, edges'[e])  : e \in DOMAIN edges'} \subseteq outIdx'
        /\ {InKey(e, edges'[e])   : e \in DOMAIN edges'} \subseteq inIdx'
        /\ {ElblKey(e, edges'[e]) : e \in DOMAIN edges'} \subseteq elblIdx'
    BY <2>1, DropKeeps
  <2>4. /\ DOMAIN nodes' = DOMAIN nodes \ {n}
        /\ \A m \in DOMAIN nodes' : nodes'[m] = nodes[m]
    BY <2>1 DEF Graph!Without
  <2>5. nodes' \in [DOMAIN nodes' -> NodeRec]
    BY <2>1 DEF Graph!Without, TypeOK, StoreOK
  <2>6. ASSUME NEW m \in DOMAIN nodes' PROVE Key(nodes'[m].label, m) \in lblIdx'
    <3>1. Key(nodes[m].label, m) \in lblIdx
      BY <2>4 DEF Filed
    <3>2. \A x \in DOMAIN nodes : x \in NodeID /\ nodes[x].label \in NodeLabel
      BY DEF TypeOK, StoreOK, NodeRec
    <3>3. Key(nodes[m].label, m) \notin FiledLabels({n})
      BY <2>4, <3>2, KeyInjective DEF FiledLabels
    <3>. QED BY <2>1, <2>4, <3>1, <3>3
  <2>7. StoreOK'
    BY <2>3, <2>4, <2>5 DEF TypeOK, StoreOK
  <2>8. Filed'
    BY <2>3, <2>6 DEF Filed
  <2>. QED BY <2>2, <2>7, <2>8 DEF Kept
<1>. QED BY <1>1, <1>2

\* Removing an edge takes no entry of another edge away.
LEMMA RemoveEdgeKeeps ==
    ASSUME TypeOK, Filed, NEW e \in EdgeID, RemoveEdge(e)
    PROVE  Kept
<1>1. PICK lost \in Unread({e} \cap DOMAIN edges) :
          /\ Misread(lost)
          /\ DeindexEdges({e} \ lost) /\ edges' = Graph!Without(edges, {e}) /\ UNCHANGED <<nodes, lblIdx>>
  BY DEF RemoveEdge
<1>2. misreads' \in misreads..MaxFaults
  BY <1>1, MisreadCount
<1>3. /\ DOMAIN edges' \subseteq EdgeID /\ edges' \in [DOMAIN edges' -> EdgeRec]
      /\ {OutKey(f, edges'[f])  : f \in DOMAIN edges'} \subseteq outIdx'
      /\ {InKey(f, edges'[f])   : f \in DOMAIN edges'} \subseteq inIdx'
      /\ {ElblKey(f, edges'[f]) : f \in DOMAIN edges'} \subseteq elblIdx'
  <2>1. {e} \ lost \in SUBSET {e}
    OBVIOUS
  <2>. QED BY <1>1, <2>1, DropKeeps
<1>4. StoreOK'
  BY <1>1, <1>3 DEF TypeOK, StoreOK
<1>5. {Key(nodes'[m].label, m) : m \in DOMAIN nodes'} \subseteq lblIdx'
  BY <1>1 DEF Filed
<1>6. Filed'
  BY <1>3, <1>5 DEF Filed
<1>. QED BY <1>2, <1>4, <1>6 DEF Kept

-----------------------------------------------------------------------------
(* Every step of the engine is a step of the property graph, and keeps the   *)
(* invariant that makes it one.                                              *)

\* One abstract step, or none.
AbstractStep == Graph!GNext \/ UNCHANGED Graph!gvars

\* The inductive invariant of the store's safety theorems.
IInv == TypeOK /\ Filed /\ (misreads = 0 => Exact /\ Anchored)

\* What a step leaves: everything filed, and the rest if nothing was passed over.
Sure == Kept /\ (misreads' = 0 => Exact' /\ AbstractStep)

\* Merging property maps gives a property map.
LEMMA MergeType ==
    ASSUME NEW p \in Props, NEW q \in Props
    PROVE  Merge(p, q) \in Props
BY DEF Merge, Props

\* Writing a node is an abstract SetNode, whoever writes it.
LEMMA NodeWrite ==
    ASSUME IInv, NEW n \in NodeID, NEW r \in NodeRec, PutNode(n, r)
    PROVE  Sure
<1>1. Kept
  BY PutNodeKeeps DEF IInv
<1>2. ASSUME misreads' = 0 PROVE Exact' /\ AbstractStep
  <2>1. misreads = 0 /\ StoreOK /\ Exact
    BY <1>1, <1>2 DEF Kept, IInv, TypeOK
  <2>2. Graph!With(nodes, n, r) = nodes' /\ edges' = edges
    BY DEF PutNode
  <2>3. Graph!SetNode(n, r)
    BY <2>2 DEF Graph!SetNode
  <2>. QED BY <1>2, <2>1, <2>3, PutNodeLemma DEF AbstractStep, Graph!GNext
<1>. QED BY <1>1, <1>2 DEF Sure

\* Writing an edge is an abstract SetEdge when an assigned ID is anchored.
LEMMA EdgeWrite ==
    ASSUME IInv, NEW e \in EdgeID, NEW r \in EdgeRec, PutEdge(e, r),
           e \in AssignedEdgeID => {r.from, r.to} \subseteq DOMAIN nodes
    PROVE  Sure
<1>1. Kept
  BY PutEdgeKeeps DEF IInv
<1>2. ASSUME misreads' = 0 PROVE Exact' /\ AbstractStep
  <2>1. misreads = 0 /\ StoreOK /\ Exact
    BY <1>1, <1>2 DEF Kept, IInv, TypeOK
  <2>2. Exact' /\ edges' = Graph!With(edges, e, r) /\ nodes' = nodes
    BY <1>2, <2>1, PutEdgeLemma
  <2>3. Graph!SetEdge(e, r)
    BY <2>2 DEF Graph!SetEdge
  <2>. QED BY <2>2, <2>3 DEF AbstractStep, Graph!GNext
<1>. QED BY <1>1, <1>2 DEF Sure

\* The store part of every step: records stay well formed, indexes exact, and
\* the step is one the property graph allows.
LEMMA StoreStep ==
    ASSUME IInv, [Next]_vars
    PROVE  Sure
<1> USE DEF IInv, TypeOK
<1>1. ASSUME UNCHANGED store PROVE Sure
  <2>1. UNCHANGED <<nodes, edges, indexes, misreads>>
    BY <1>1 DEF store
  <2>2. Kept
    BY <2>1 DEF Kept, StoreOK, Filed, indexes, OutKey, InKey, ElblKey
  <2>3. Exact => Exact'
    BY <2>1 DEF Exact, indexes, OutKey, ElblKey
  <2>. QED BY <2>1, <2>2, <2>3 DEF Sure, AbstractStep, Graph!gvars
<1>2. ASSUME NEW l \in NodeLabel, NEW p \in Props, CreateNode(l, p)
      PROVE  Sure
  <2>1. idCounter + 1 \in 1..MaxID
    BY <1>2, BoundsAssumption DEF CreateNode, NextID
  <2>2. NewNodeID(l, idCounter + 1) \in NodeID
    BY <2>1, IDShapes
  <2>3. [label |-> l, props |-> p] \in NodeRec
    BY DEF NodeRec
  <2>. QED BY <1>1, <1>2, <2>2, <2>3, NodeWrite DEF CreateNode
<1>3. ASSUME NEW n \in NodeID, DeleteNode(n)
      PROVE  Sure
  <2>1. RemoveNode(n)
    BY <1>3 DEF DeleteNode
  <2>2. Kept
    BY <2>1, RemoveNodeKeeps
  <2>3. ASSUME misreads' = 0 PROVE Exact' /\ AbstractStep
    <3>1. misreads = 0 /\ StoreOK /\ Exact
      BY <2>2, <2>3 DEF Kept
    <3>. QED BY <2>1, <2>3, <3>1, RemoveNodeLemma DEF AbstractStep, Graph!GNext, Graph!gvars
  <2>. QED BY <2>2, <2>3 DEF Sure
<1>4. ASSUME NEW n \in UpsertableID, NEW l \in NodeLabel, NEW p \in Props, UpsertNode(n, l, p)
      PROVE  Sure
  <2>1. n \in NodeID
    <3>1. 1..idCounter \subseteq 1..MaxID
      BY BoundsAssumption
    <3>. QED BY <3>1, IDShapes DEF UpsertableID, StoreOK
  <2>2. [label |-> l, props |-> p] \in NodeRec
    BY DEF NodeRec
  <2>3. CASE n \in DOMAIN nodes /\ PutNode(n, [nodes[n] EXCEPT !.props = Merge(@, p)])
    <3>1. nodes[n] \in NodeRec
      BY <2>3 DEF StoreOK
    <3>2. [nodes[n] EXCEPT !.props = Merge(@, p)] \in NodeRec
      BY <3>1, MergeType DEF NodeRec
    <3>. QED BY <2>1, <2>3, <3>2, NodeWrite
  <2>4. CASE PutNode(n, [label |-> l, props |-> p])
    BY <2>1, <2>2, <2>4, NodeWrite
  <2>. QED BY <1>4, <2>3, <2>4 DEF UpsertNode
<1>5. ASSUME NEW l \in EdgeLabel, NEW from \in NodeID, NEW to \in NodeID, CreateEdge(l, from, to)
      PROVE  Sure
  <2>1. idCounter + 1 \in 1..MaxID
    BY <1>5, BoundsAssumption DEF CreateEdge, NextID
  <2>2. NewEdgeID(l, idCounter + 1) \in EdgeID
    BY <2>1, IDShapes
  <2>3. [label |-> l, from |-> from, to |-> to] \in EdgeRec
    BY DEF EdgeRec
  <2>4. from \in DOMAIN nodes /\ to \in DOMAIN nodes
    BY <1>5 DEF CreateEdge
  <2>. QED BY <1>1, <1>5, <2>2, <2>3, <2>4, EdgeWrite DEF CreateEdge
<1>6. ASSUME NEW e \in EdgeID, DeleteEdge(e)
      PROVE  Sure
  <2>1. RemoveEdge(e)
    BY <1>6 DEF DeleteEdge
  <2>2. Kept
    BY <2>1, RemoveEdgeKeeps
  <2>3. ASSUME misreads' = 0 PROVE Exact' /\ AbstractStep
    <3>1. misreads = 0 /\ StoreOK /\ Exact
      BY <2>2, <2>3 DEF Kept
    <3>. QED BY <2>1, <2>3, <3>1, RemoveEdgeLemma DEF AbstractStep, Graph!GNext
  <2>. QED BY <2>2, <2>3 DEF Sure
<1>7. ASSUME NEW l \in EdgeLabel, NEW from \in NodeID, NEW to \in NodeID, UpsertEdge(l, from, to)
      PROVE  Sure
  <2>1. [label |-> l, from |-> from, to |-> to] \in EdgeRec
    BY DEF EdgeRec
  <2>2. PICK e \in EdgeID \ AssignedEdgeID :
            \/ e \in DOMAIN edges /\ PutEdge(e, edges[e])
            \/ PutEdge(e, [label |-> l, from |-> from, to |-> to])
    BY <1>7 DEF UpsertEdge
  <2>3. CASE e \in DOMAIN edges /\ PutEdge(e, edges[e])
    <3>1. edges[e] \in EdgeRec
      BY <2>3 DEF StoreOK
    <3>. QED BY <2>2, <2>3, <3>1, EdgeWrite
  <2>4. CASE PutEdge(e, [label |-> l, from |-> from, to |-> to])
    BY <2>1, <2>2, <2>4, EdgeWrite
  <2>. QED BY <2>2, <2>3, <2>4
<1>8. ASSUME NEW c \in Client, NEW k \in PropKey, NEW v \in PropVal, SetPropertyWrite(c, k, v)
      PROVE  Sure
  <2>1. pending[c] \in [id : NodeID, rec : NodeRec]
    BY <1>8 DEF SetPropertyWrite
  <2>2. [pending[c].rec EXCEPT !.props[k] = v] \in NodeRec
    BY <2>1 DEF NodeRec, Props
  <2>. QED BY <1>8, <2>1, <2>2, NodeWrite DEF SetPropertyWrite
<1>9. CASE Restart \/ UNCHANGED vars \/ \E c \in Client, n \in NodeID : SetPropertyRead(c, n)
  BY <1>1, <1>9 DEF Restart, SetPropertyRead, vars
<1>. QED BY <1>2, <1>3, <1>4, <1>5, <1>6, <1>7, <1>8, <1>9
         DEF Next, NodeStep, EdgeStep, QueryStep

\* The property graph itself keeps assigned edges anchored.
LEMMA AnchoredStep ==
    ASSUME StoreOK, Anchored, AbstractStep
    PROVE  Anchored'
<1>1. CASE UNCHANGED <<nodes, edges>>
  BY <1>1 DEF Anchored
<1>2. ASSUME NEW n \in NodeID, Graph!RemoveNode(n) PROVE Anchored'
  BY <1>2 DEF Graph!RemoveNode, Graph!Without, Graph!Incident, Anchored
<1>3. ASSUME NEW n \in NodeID, NEW r \in NodeRec, Graph!SetNode(n, r) PROVE Anchored'
  BY <1>3 DEF Graph!SetNode, Graph!With, Anchored
<1>4. ASSUME NEW e \in EdgeID, Graph!RemoveEdge(e) PROVE Anchored'
  BY <1>4 DEF Graph!RemoveEdge, Graph!Without, Anchored
<1>5. ASSUME NEW e \in EdgeID, NEW r \in EdgeRec, Graph!SetEdge(e, r) PROVE Anchored'
  BY <1>5 DEF Graph!SetEdge, Graph!With, Anchored
<1>. QED BY <1>1, <1>2, <1>3, <1>4, <1>5 DEF AbstractStep, Graph!GNext, Graph!gvars

\* The volatile part of the state: counter, restarts, and the nodes SET read.
LEMMA VolatileStep ==
    ASSUME TypeOK, [Next]_vars
    PROVE  /\ idCounter' \in 0..MaxID
           /\ restarts' \in 0..MaxFaults
           /\ pending' \in [Client -> [id : NodeID, rec : NodeRec] \cup {NoRead}]
<1> USE BoundsAssumption DEF TypeOK
<1>1. CASE NodeStep
  <2>1. /\ UNCHANGED <<restarts, pending>>
        /\ NextID \/ UNCHANGED idCounter
    BY <1>1, Zenon DEF NodeStep, CreateNode, DeleteNode, UpsertNode
  <2>2. idCounter' \in 0..MaxID
    BY <2>1 DEF NextID
  <2>. QED BY <2>1, <2>2
<1>2. CASE EdgeStep
  <2>1. /\ UNCHANGED <<restarts, pending>>
        /\ NextID \/ UNCHANGED idCounter
    BY <1>2, Zenon DEF EdgeStep, CreateEdge, DeleteEdge, UpsertEdge
  <2>2. idCounter' \in 0..MaxID
    BY <2>1 DEF NextID
  <2>. QED BY <2>1, <2>2
<1>3. ASSUME NEW c \in Client, NEW n \in NodeID, SetPropertyRead(c, n)
      PROVE  pending' \in [Client -> [id : NodeID, rec : NodeRec] \cup {NoRead}]
  <2>1. nodes[n] \in NodeRec
    BY <1>3 DEF SetPropertyRead, StoreOK
  <2>2. [id |-> n, rec |-> nodes[n]] \in [id : NodeID, rec : NodeRec]
    BY <2>1
  <2>. QED BY <1>3, <2>2 DEF SetPropertyRead
<1>4. CASE QueryStep
  <2>1. pending' \in [Client -> [id : NodeID, rec : NodeRec] \cup {NoRead}]
    BY <1>3, <1>4 DEF QueryStep, SetPropertyWrite
  <2>2. UNCHANGED <<idCounter, restarts>>
    BY <1>4 DEF QueryStep, SetPropertyRead, SetPropertyWrite
  <2>. QED BY <2>1, <2>2
<1>5. CASE Restart
  BY <1>5 DEF Restart
<1>6. CASE UNCHANGED vars
  BY <1>6 DEF vars
<1>. QED BY <1>1, <1>2, <1>4, <1>5, <1>6 DEF Next

\* Initially nothing is stored and nothing is indexed.
LEMMA InitInv == Init => IInv
BY BoundsAssumption DEF Init, IInv, TypeOK, StoreOK, Filed, Exact, Anchored

\* IInv is inductive.
LEMMA StepInv == IInv /\ [Next]_vars => IInv'
<1> SUFFICES ASSUME IInv, [Next]_vars PROVE IInv'
  OBVIOUS
<1>1. Sure
  BY StoreStep
<1>2. TypeOK' /\ Filed'
  <2>1. misreads' \in 0..MaxFaults
    BY <1>1 DEF Sure, Kept, IInv, TypeOK
  <2>. QED BY <1>1, <2>1, VolatileStep DEF Sure, Kept, IInv, TypeOK
<1>3. ASSUME misreads' = 0 PROVE Exact' /\ Anchored'
  <2>1. misreads = 0
    BY <1>1, <1>3 DEF Sure, Kept, IInv, TypeOK
  <2>. QED BY <1>1, <1>3, <2>1, AnchoredStep DEF Sure, IInv, TypeOK
<1>. QED BY <1>2, <1>3 DEF IInv

\* Records and filing are right together in every reachable state; indexes and
\* anchors too while nothing was passed over.
THEOREM Invariance == Spec => []IInv
BY InitInv, StepInv, PTL DEF Spec

-----------------------------------------------------------------------------
(* The theorems.                                                             *)

\* Stored records, the ID counter and the nodes read by SET stay well typed.
THEOREM TypeCorrect == Spec => []TypeOK
<1>1. IInv => TypeOK
  BY DEF IInv
<1>. QED BY <1>1, Invariance, PTL

\* Everything stored is indexed, and nothing else is while no transaction has
\* passed over a record, for any interleaving of locked operations, unlocked
\* SET writes and restarts.
THEOREM IndexesAreExact == Spec => []IndexExact
<1>1. IInv => IndexExact
  BY DEF IInv, IndexExact, Exact, NothingStale, InKey
<1>. QED BY <1>1, Invariance, PTL

\* A scan finds whatever is filed.
LEMMA ScansFind ==
    ASSUME StoreOK, Filed
    PROVE  /\ \A n \in NodeID : Graph!Incident(n) \subseteq Neighbors(n)
           /\ \A l \in NodeLabel : {n \in DOMAIN nodes : nodes[n].label = l} \subseteq NodesByLabel(l)
<1>1. DOMAIN edges \subseteq Suffix /\ DOMAIN nodes \subseteq Suffix
  BY IDShapes DEF StoreOK
<1>2. ASSUME NEW n \in NodeID, NEW e \in Graph!Incident(n) PROVE e \in Neighbors(n)
  <2>1. e \in DOMAIN edges /\ (edges[e].from = n \/ edges[e].to = n)
    BY <1>2 DEF Graph!Incident
  <2>2. OutKey(e, edges[e]) \in outIdx /\ InKey(e, edges[e]) \in inIdx
    BY <2>1 DEF Filed
  <2>. QED BY <1>1, <2>1, <2>2 DEF Neighbors, OutgoingEdges, IncomingEdges, Scan, OutKey, InKey
<1>3. ASSUME NEW l \in NodeLabel, NEW n \in DOMAIN nodes, nodes[n].label = l
      PROVE  n \in NodesByLabel(l)
  BY <1>1, <1>3 DEF Filed, NodesByLabel, Scan
<1>. QED BY <1>2, <1>3

\* Neighbors and NodesByLabel miss nothing, and answer exactly while nothing
\* was passed over, in spite of colliding prefixes.
THEOREM LookupsAreExact == Spec => []LookupsExact
<1>1. IInv => LookupsExact
  <2> SUFFICES ASSUME IInv PROVE LookupsExact
    OBVIOUS
  <2>1. /\ \A n \in NodeID : Graph!Incident(n) \subseteq Neighbors(n)
        /\ \A l \in NodeLabel : {n \in DOMAIN nodes : nodes[n].label = l} \subseteq NodesByLabel(l)
    BY ScansFind DEF IInv, TypeOK
  <2>2. misreads = 0 => AnswersExact
    <3> SUFFICES ASSUME misreads = 0 PROVE AnswersExact
      OBVIOUS
    <3>. QED BY ScansExact DEF IInv, TypeOK
  <2>. QED BY <2>1, <2>2 DEF LookupsExact, AnswersExact
<1>. QED BY <1>1, Invariance, PTL

\* No edge made by CreateEdge loses an endpoint while nothing was passed over.
THEOREM CreatedEdgesStayAnchored == Spec => []CreatedEdgesAnchored
<1>1. IInv => CreatedEdgesAnchored
  BY DEF IInv, CreatedEdgesAnchored, Anchored
<1>. QED BY <1>1, Invariance, PTL

\* The indexed store implements the property graph: its initial state is an
\* abstract initial state, and each of its steps is an abstract step or none
\* as long as no transaction passes over a record.
THEOREM Refinement == Spec => ImplementsPropertyGraph
<1>1. Init => Graph!GInit
  BY DEF Init, Graph!GInit
<1>2. IInv /\ [Next]_vars => [misreads' = 0 => Graph!GNext]_Graph!gvars
  <2> SUFFICES ASSUME IInv, [Next]_vars PROVE [misreads' = 0 => Graph!GNext]_Graph!gvars
    OBVIOUS
  <2>. QED BY StoreStep DEF Sure, AbstractStep
<1>. QED BY <1>1, <1>2, Invariance, PTL DEF Spec, ImplementsPropertyGraph
=============================================================================
