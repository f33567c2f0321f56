----------------------------- MODULE QueryEngine -----------------------------
(***************************************************************************)
(* The planner and the executor of package query, run by concurrent        *)
(* sessions (HTTP requests, Bolt connections, RPC calls) on one graph.     *)
(* A plan is a chain, so it is the sequence of its operators, source       *)
(* first.  A session takes a step for each call on the graph; what lies    *)
(* between two calls is computed in one step.                              *)
(*                                                                         *)
(* A value is its type with the text fmt.Sprint gives for it: the engine   *)
(* compares the texts.                                                     *)
(***************************************************************************)
EXTENDS QueryParser, FiniteSets

CONSTANTS
    Session,
    Texts,          \* the statements that are sent, as tokens
    Params,         \* parameter name -> value
    Stored,         \* the graph at start: [nodes, edges]
    TextOrder,      \* every text, in string order
    Within,         \* <<t, u>>: t is a proper substring of u
    NewID,          \* statement number -> ID of the node or edge it creates
    Procedures,     \* the registered procedures: name -> [args, vector], the number of
                    \* arguments and the one that must be a list of numbers, or 0
    MaxStatements

VARIABLES
    nodes,          \* node ID -> [label, props]
    edges,          \* edge ID -> [label, from, to]
    sess,           \* session -> the statement it is executing
    sent,           \* number of statements so far
    alone           \* history: session -> nobody else has written since it began

vars == <<nodes, edges, sess, sent, alone>>
G == [nodes |-> nodes, edges |-> edges]
-----------------------------------------------------------------------------
(* Values and expressions.                                                   *)

Val(type, text) == [type |-> type, text |-> text]
Nil == Val("nil", "<nil>")

nodeToMap(g, n) == [type |-> "node", text |-> n, props |-> g.nodes[n].props]
edgeToMap(g, e) == [type |-> "edge", text |-> e]

At(f, k) == IF k \in DOMAIN f THEN f[k] ELSE Nil
Bind(f, k, v) == [x \in DOMAIN f \cup {k} |-> IF x = k THEN v ELSE f[x]]
NoRow == [x \in {} |-> x]

Literal(e) ==
    CASE e.type = "NULL" -> Nil
      [] e.type = "TRUE" -> Val("bool", "true") [] e.type = "FALSE" -> Val("bool", "false")
      [] OTHER -> Val(e.type, IF e.neg THEN "-" \o e.text ELSE e.text)

\* A list prints as its elements, separated by blanks, in brackets.
ListText(vs) == "[" \o FoldLeft(LAMBDA a, v : IF a = "" THEN v.text ELSE a \o " " \o v.text, "", vs) \o "]"

RECURSIVE evalExpr(_, _)
evalExpr(e, row) ==
    CASE e.k = "lit"   -> Literal(e)
      [] e.k = "ident" -> At(row, e.name)
      [] e.k = "prop"  -> IF At(row, e.var).type = "node" THEN At(row[e.var].props, e.prop) ELSE Nil
      [] e.k = "param" -> At(Params, e.name)
      [] e.k = "star"  -> Val("string", "*")
      [] e.k = "list"  -> LET vs == [i \in DOMAIN e.elems |-> evalExpr(e.elems[i], row)]
                          IN  [type |-> "list", text |-> ListText(vs), elems |-> vs]
      [] OTHER -> Nil

Rank(v) == CHOOSE i \in DOMAIN TextOrder : TextOrder[i] = v.text

RECURSIVE evalBool(_, _)
evalBool(e, row) ==
    LET l == evalExpr(e.left, row)
        r == evalExpr(e.right, row)
    IN  CASE e.k = "not" -> ~evalBool(e.expr, row)
          [] e.k = "lit" -> e.type = "TRUE"
          [] e.k = "binary" /\ e.op = "AND" -> evalBool(e.left, row) /\ evalBool(e.right, row)
          [] e.k = "binary" /\ e.op = "OR"  -> evalBool(e.left, row) \/ evalBool(e.right, row)
          [] e.k = "binary" /\ e.op = "="   -> l.text = r.text
          [] e.k = "binary" /\ e.op = "<>"  -> l.text # r.text
          [] e.k = "binary" /\ e.op = "<"   -> Rank(l) < Rank(r)
          [] e.k = "binary" /\ e.op = ">"   -> Rank(l) > Rank(r)
          [] e.k = "binary" /\ e.op = "<="  -> Rank(l) <= Rank(r)
          [] e.k = "binary" /\ e.op = ">="  -> Rank(l) >= Rank(r)
          [] e.k = "binary" /\ e.op = "CONTAINS" -> l.text = r.text \/ <<r.text, l.text>> \in Within
          [] e.k = "binary" /\ e.op = "IN" ->
                r.type = "list" /\ \E i \in DOMAIN r.elems : r.elems[i].text = l.text
          [] OTHER -> FALSE

\* Inline properties: only literals filter.
matchProps(props, filter) ==
    \A k \in DOMAIN filter : filter[k].k = "lit" => At(props, k).text = Literal(filter[k]).text

matchPropsExact(props, wanted) == \A k \in DOMAIN wanted : At(props, k).text = wanted[k].text

Evaluated(props) == [k \in DOMAIN props |-> evalExpr(props[k], NoRow)]
-----------------------------------------------------------------------------
(* The planner.                                                              *)

Op(op, args) == [op |-> op, args |-> args]

\* The first pattern: a scan of its first node, then one expansion per edge.
planMatch(c) ==
    LET p == c.patterns[1]
    IN  <<Op("scan", p.nodes[1])>> \o
        [i \in DOMAIN p.edges |-> Op("expand", [src |-> p.nodes[i].var, edge |-> p.edges[i], dest |-> p.nodes[i + 1]])]

\* A node, or an edge between two; longer patterns are refused.
planCreate(c) ==
    LET p == c.patterns[1]
    IN  CASE Len(p.edges) = 0 -> <<Op("create", p.nodes[1])>>
          [] Len(p.edges) = 1 -> <<Op("link", [src |-> p.nodes[1].var, dest |-> p.nodes[2].var, label |-> p.edges[1].label])>>
          [] OTHER -> <<>>

planReturn(c) ==
    (IF c.order = <<>> THEN <<>> ELSE <<Op("sort", c.order)>>)
    \o <<Op("project", c.items)>>
    \o IF c.limit = None /\ c.skip = None THEN <<>> ELSE <<Op("limit", c)>>

\* A clause that reads from the graph or creates starts the plan over; one that
\* works on rows is put on top of it.  No plan: <<>>.
planClause(plan, c) ==
    CASE c.k = "MATCH"  -> planMatch(c)
      [] c.k = "CREATE" -> planCreate(c)
      [] c.k = "MERGE"  -> <<Op("merge", c.patterns[1].nodes[1])>>
      [] c.k = "CALL"   -> <<Op("call", c)>>
      [] c.k = "WHERE"  -> Append(plan, Op("filter", c.expr))
      [] c.k = "RETURN" -> plan \o planReturn(c)
      [] c.k = "SET"    -> Append(plan, Op("set", c.items))
      [] c.k = "DELETE" -> Append(plan, Op("delete", c.vars))

NeedsSource == {"WHERE", "RETURN", "SET", "DELETE"}

Plan(stmt) ==
    FoldLeft(LAMBDA r, c :
                LET p == planClause(r.plan, c)
                IN  IF ~r.ok \/ (c.k \in NeedsSource /\ r.plan = <<>>) \/ p = <<>>
                    THEN [ok |-> FALSE, plan |-> <<>>] ELSE [ok |-> TRUE, plan |-> p],
             [ok |-> TRUE, plan |-> <<>>], stmt)
-----------------------------------------------------------------------------
(* Operators on rows.                                                        *)

\* Elements in the order of their IDs.
Ordered(S) == FoldSet(LAMBDA x, l : Append(l, x), <<>>, S)

Mapped(seq, F(_)) == [i \in DOMAIN seq |-> F(seq[i])]

exprName(item) ==
    CASE item.alias # "" -> item.alias
      [] item.alias = "" /\ item.expr.k = "ident" -> item.expr.name
      [] item.alias = "" /\ item.expr.k = "prop"  -> item.expr.var \o "." \o item.expr.prop
      [] item.alias = "" /\ item.expr.k = "func"  -> item.expr.name \o "(*)"
      [] item.alias = "" /\ item.expr.k = "star"  -> "*"
      [] OTHER -> "?"

Counts(items) == {i \in DOMAIN items : items[i].expr.k = "func" /\ items[i].expr.name = "count"}

CountRow(items, n) ==
    LET c == items[CHOOSE i \in Counts(items) : \A j \in Counts(items) : i <= j]
    IN  [x \in {IF c.alias # "" THEN c.alias ELSE "count(*)"} |-> Val("int", ToString(n))]

ProjectRow(items, row) ==
    [x \in {exprName(items[i]) : i \in DOMAIN items} |->
        evalExpr(items[SelectLastInSeq(items, LAMBDA it : exprName(it) = x)].expr, row)]

execProject(items, rows) ==
    IF Counts(items) # {} THEN <<CountRow(items, Len(rows))>>
    ELSE Mapped(rows, LAMBDA row : ProjectRow(items, row))

\* The first item on which two rows differ decides.
Before(items, r1, r2) ==
    \E i \in DOMAIN items :
        LET a == evalExpr(items[i].expr, r1)
            b == evalExpr(items[i].expr, r2)
        IN  /\ IF items[i].desc THEN Rank(a) > Rank(b) ELSE Rank(a) < Rank(b)
            /\ \A j \in 1..(i - 1) : evalExpr(items[j].expr, r1).text = evalExpr(items[j].expr, r2).text

\* A stable sort: rows that ORDER BY does not tell apart stay in their order.
execSort(items, rows) ==
    LET less(x, y) == Before(items, x.row, y.row) \/ (~Before(items, y.row, x.row) /\ x.at < y.at)
        sorted == SortSeq([i \in DOMAIN rows |-> [at |-> i, row |-> rows[i]]], less)
    IN  Mapped(sorted, LAMBDA x : x.row)

\* Faulty variant: the limit is applied before the offset.
LimitFirst(c, rows) ==
    LET page == IF c.limit = None \/ Atoi(c.limit) >= Len(rows) THEN rows ELSE SubSeq(rows, 1, Atoi(c.limit))
    IN  IF c.skip = None THEN page ELSE SubSeq(page, Atoi(c.skip) + 1, Len(page))

execLimitOffset(c, rows) ==
    LET start == IF c.skip = None THEN 0 ELSE Atoi(c.skip)
        rest  == SubSeq(rows, start + 1, Len(rows))
    IN  IF c.limit = None \/ Atoi(c.limit) >= Len(rest) THEN rest ELSE SubSeq(rest, 1, Atoi(c.limit))

Shaped(o, rows) ==
    CASE o.op = "filter"  -> SelectSeq(rows, LAMBDA r : evalBool(o.args, r))
      [] o.op = "sort"    -> execSort(o.args, rows)
      [] o.op = "project" -> execProject(o.args, rows)
      [] o.op = "limit"   -> execLimitOffset(o.args, rows)
RowOps == {"filter", "sort", "project", "limit"}
-----------------------------------------------------------------------------
(* Sessions.                                                                 *)

Idle == [st |-> "idle"]
Running(s) == sess[s].st = "run"
At1(s, op) == Running(s) /\ sess[s].plan # <<>> /\ Head(sess[s].plan).op = op
Args(s) == Head(sess[s].plan).args

\* The operator is done, with these rows.
Return(s, rows) ==
    sess' = [sess EXCEPT ![s].plan = Tail(@), ![s].rows = rows, ![s].ph = "start", ![s].todo = <<>>, ![s].out = <<>>]
Failed(s) == sess' = [sess EXCEPT ![s] = Idle]

\* A statement that does not parse, or has no plan, is answered with an error.
Execute(s) ==
    /\ sess[s] = Idle /\ sent < MaxStatements
    /\ \E text \in Texts :
          LET p == ParseStatement(text)
              q == IF p.ok THEN Plan(p.val) ELSE Fail
          IN  sess' = IF q.ok
                THEN [sess EXCEPT ![s] = [st |-> "run", stmt |-> p.val, plan |-> q.plan, rows |-> <<>>, ph |-> "start",
                                          todo |-> <<>>, out |-> <<>>, no |-> sent + 1, before |-> G]]
                ELSE sess
    /\ sent' = sent + 1
    /\ UNCHANGED <<nodes, edges>>

execRows(s) ==
    /\ Running(s) /\ sess[s].plan # <<>> /\ Head(sess[s].plan).op \in RowOps
    /\ Return(s, Shaped(Head(sess[s].plan), sess[s].rows))
    /\ UNCHANGED <<nodes, edges, sent>>

WithLabel(g, l) == {n \in DOMAIN g.nodes : g.nodes[n].label = l}

execScan(s) ==
    /\ At1(s, "scan")
    /\ LET p == Args(s)
           found == {n \in WithLabel(G, p.label) : matchProps(nodes[n].props, p.props)}
       IN  Return(s, Mapped(Ordered(found), LAMBDA n : Bind(NoRow, p.var, nodeToMap(G, n))))
    /\ UNCHANGED <<nodes, edges, sent>>

\* The edges of the next row are listed; each is read, with its other end, later.
Near(dir) == IF dir = "left" THEN "to" ELSE "from"
Far(dir)  == IF dir = "left" THEN "from" ELSE "to"

ExpandRow(s) ==
    /\ At1(s, "expand") /\ sess[s].todo = <<>> /\ sess[s].rows # <<>>
    /\ LET row == Head(sess[s].rows)
           src == At(row, Args(s).src)
           ids == Ordered({e \in DOMAIN edges : edges[e][Near(Args(s).edge.dir)] = src.text})
       IN  sess' = [sess EXCEPT ![s].rows = Tail(@),
                        ![s].todo = IF src.type = "nil" THEN <<>> ELSE Mapped(ids, LAMBDA e : <<row, e>>)]
    /\ UNCHANGED <<nodes, edges, sent>>

\* GetEdge, then GetNode of the edge's other end: what is gone is passed over,
\* and so is what has another label.
ExpandEdge(s) ==
    /\ At1(s, "expand") /\ sess[s].ph = "start" /\ sess[s].todo # <<>>
    /\ LET a == Args(s).edge
           row == Head(sess[s].todo)[1]
           e == Head(sess[s].todo)[2]
           named == IF a.var = "" THEN row ELSE Bind(row, a.var, edgeToMap(G, e))
       IN  sess' = IF e \in DOMAIN edges /\ a.label \in {"", edges[e].label}
                   THEN [sess EXCEPT ![s].ph = "dest", ![s].todo[1] = <<named, edges[e][Far(a.dir)]>>]
                   ELSE [sess EXCEPT ![s].todo = Tail(@)]
    /\ UNCHANGED <<nodes, edges, sent>>

ExpandDest(s) ==
    /\ At1(s, "expand") /\ sess[s].ph = "dest"
    /\ LET d == Args(s).dest
           row == Head(sess[s].todo)[1]
           n == Head(sess[s].todo)[2]
       IN  sess' = [sess EXCEPT ![s].ph = "start", ![s].todo = Tail(@),
                ![s].out = IF n \in DOMAIN nodes /\ d.label \in {"", nodes[n].label}
                           THEN Append(@, Bind(row, d.var, nodeToMap(G, n)))
                           ELSE @]
    /\ UNCHANGED <<nodes, edges, sent>>

ExpandEnd(s) ==
    /\ At1(s, "expand") /\ sess[s].todo = <<>> /\ sess[s].rows = <<>>
    /\ Return(s, sess[s].out)
    /\ UNCHANGED <<nodes, edges, sent>>
-----------------------------------------------------------------------------
(* Writes.                                                                   *)

Fresh(s) == NewID[sess[s].no]
Column(p) == IF p.var = "" THEN "node" ELSE p.var
NodeRow(p, n, rec) == <<Bind(NoRow, Column(p), [type |-> "node", text |-> n, props |-> rec.props])>>

CreateNode(s) ==
    LET p == Args(s)
        rec == [label |-> p.label, props |-> Evaluated(p.props)]
    IN  /\ nodes' = Bind(nodes, Fresh(s), rec)
        /\ Return(s, NodeRow(p, Fresh(s), rec))
        /\ UNCHANGED <<edges, sent>>

execCreateNode(s) == At1(s, "create") /\ CreateNode(s)

\* The variables are taken for the IDs of the two nodes.
execCreateEdge(s) ==
    /\ At1(s, "link")
    /\ LET a == Args(s)
       IN  IF {a.src, a.dest} \subseteq DOMAIN nodes
           THEN /\ edges' = Bind(edges, Fresh(s), [label |-> a.label, from |-> a.src, to |-> a.dest])
                /\ Return(s, <<Bind(NoRow, "edge", [type |-> "edge", text |-> Fresh(s)])>>)
           ELSE Failed(s) /\ UNCHANGED edges
    /\ UNCHANGED <<nodes, sent>>

\* MERGE lists the label, and creates in a later step if nothing matches.
Matching(g, p) == {n \in WithLabel(g, p.label) : matchPropsExact(g.nodes[n].props, Evaluated(p.props))}

execMergeNode(s) ==
    /\ At1(s, "merge") /\ sess[s].ph = "start"
    /\ LET found == Matching(G, Args(s))
       IN  IF found = {} THEN sess' = [sess EXCEPT ![s].ph = "create"]
           ELSE LET n == Ordered(found)[1] IN Return(s, NodeRow(Args(s), n, nodes[n]))
    /\ UNCHANGED <<nodes, edges, sent>>
MergeCreate(s) == At1(s, "merge") /\ sess[s].ph = "create" /\ CreateNode(s)

\* SET and DELETE go through the rows; what is not bound to a map is passed over.
Bound(row, v) == At(row, v).type \in {"node", "edge"}

execWrites(s) ==
    /\ Running(s) /\ sess[s].plan # <<>> /\ Head(sess[s].plan).op \in {"set", "delete"} /\ sess[s].ph = "start"
    /\ sess' = [sess EXCEPT ![s].ph = "go",
            ![s].todo = FlattenSeq(Mapped(sess[s].rows, LAMBDA row :
                IF At1(s, "set")
                THEN Mapped(SelectSeq(Args(s), LAMBDA it : Bound(row, it.var)), LAMBDA it :
                        [id |-> row[it.var].text, prop |-> it.prop, val |-> evalExpr(it.value, row)])
                ELSE Mapped(SelectSeq(Args(s), LAMBDA v : Bound(row, v)), LAMBDA v : [id |-> row[v].text])))]
    /\ UNCHANGED <<nodes, edges, sent>>

\* GetNode; a node that is gone, or an edge, is passed over.
SetRead(s) ==
    /\ At1(s, "set") /\ sess[s].ph = "go" /\ sess[s].todo # <<>>
    /\ LET w == Head(sess[s].todo)
       IN  sess' = IF w.id \in DOMAIN nodes
                   THEN [sess EXCEPT ![s].ph = "put", ![s].out = <<[nodes[w.id] EXCEPT !.props = Bind(@, w.prop, w.val)]>>]
                   ELSE [sess EXCEPT ![s].todo = Tail(@)]
    /\ UNCHANGED <<nodes, edges, sent>>

\* PutNode on the storage: the whole node as it was read, changed.
SetWrite(s) ==
    /\ At1(s, "set") /\ sess[s].ph = "put"
    /\ nodes' = Bind(nodes, Head(sess[s].todo).id, sess[s].out[1])
    /\ sess' = [sess EXCEPT ![s].ph = "go", ![s].todo = Tail(@), ![s].out = <<>>]
    /\ UNCHANGED <<edges, sent>>

SetEnd(s) ==
    /\ At1(s, "set") /\ sess[s].ph = "go" /\ sess[s].todo = <<>>
    /\ Return(s, sess[s].rows)
    /\ UNCHANGED <<nodes, edges, sent>>

\* Faulty variant: the edges of a deleted node stay.
WithoutEdgesKept(g, n) == [nodes |-> [x \in DOMAIN g.nodes \ {n} |-> g.nodes[x]], edges |-> g.edges]

\* DeleteNode with its edges; an ID without a node is no error.
Without(g, n) ==
    [nodes |-> [x \in DOMAIN g.nodes \ {n} |-> g.nodes[x]],
     edges |-> [e \in {x \in DOMAIN g.edges : n \notin {g.edges[x].from, g.edges[x].to}} |-> g.edges[e]]]

DeleteStep(s) ==
    /\ At1(s, "delete") /\ sess[s].ph = "go" /\ sess[s].todo # <<>>
    /\ LET g == Without(G, Head(sess[s].todo).id) IN nodes' = g.nodes /\ edges' = g.edges
    /\ sess' = [sess EXCEPT ![s].todo = Tail(@)]
    /\ UNCHANGED sent

DeleteEnd(s) ==
    /\ At1(s, "delete") /\ sess[s].ph = "go" /\ sess[s].todo = <<>>
    /\ Return(s, <<>>)
    /\ UNCHANGED <<nodes, edges, sent>>

Callable(proc, args) ==
    /\ proc \in DOMAIN Procedures
    /\ Len(args) >= Procedures[proc].args
    /\ LET i == Procedures[proc].vector
       IN  i = 0 \/ (/\ args[i].type = "list"
                     /\ \A j \in DOMAIN args[i].elems : args[i].elems[j].type \in {"int", "float"})

\* A procedure returns nodes an index found; those that are gone are left out.
execProcedure(s) ==
    /\ At1(s, "call")
    /\ LET c == Args(s)
           args == Mapped(c.args, LAMBDA e : evalExpr(e, NoRow))
           row(n) == [node |-> nodeToMap(G, n), score |-> Val("float", "1")]
       IN  IF ~Callable(c.proc, args)
           THEN Failed(s)
           ELSE \E hits \in SUBSET (DOMAIN nodes) :
                    Return(s, Mapped(Ordered(hits), LAMBDA n :
                        IF c.yield = <<>> THEN row(n) ELSE [x \in ToSet(c.yield) |-> At(row(n), x)]))
    /\ UNCHANGED <<nodes, edges, sent>>

Answer(s) ==
    /\ Running(s) /\ sess[s].plan = <<>>
    /\ sess' = [sess EXCEPT ![s] = Idle]
    /\ UNCHANGED <<nodes, edges, sent>>
-----------------------------------------------------------------------------
Init ==
    /\ nodes = Stored.nodes /\ edges = Stored.edges
    /\ sess = [s \in Session |-> Idle] /\ sent = 0
    /\ alone = [s \in Session |-> TRUE]

Read(s)  == execScan(s) \/ ExpandRow(s) \/ ExpandEdge(s) \/ ExpandDest(s) \/ ExpandEnd(s) \/ execRows(s) \/ execProcedure(s)
Write(s) == execCreateNode(s) \/ execCreateEdge(s) \/ execMergeNode(s) \/ MergeCreate(s)
            \/ execWrites(s) \/ SetRead(s) \/ SetWrite(s) \/ SetEnd(s) \/ DeleteStep(s) \/ DeleteEnd(s)
Step(s) == Read(s) \/ Write(s) \/ Answer(s)

Track(s) ==
    alone' = [t \in Session |-> IF sess[t] = Idle THEN TRUE
                                ELSE alone[t] /\ (t = s \/ (nodes' = nodes /\ edges' = edges))]

Next == \E s \in Session : (Execute(s) \/ Step(s)) /\ Track(s)

Spec == Init /\ [][Next]_vars
=============================================================================
