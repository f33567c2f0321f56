---------------------------- MODULE QuerySemantics ----------------------------
(***************************************************************************)
(* What a statement means, declaratively: which bindings a pattern has,    *)
(* which of them a condition keeps, how a page of them may look, and what  *)
(* a write makes of the graph.  The properties compare the parser and the  *)
(* executor with it.                                                       *)
(***************************************************************************)
EXTENDS QueryEngine

CONSTANTS
    Trees,          \* syntax trees for the parser
    Scraps          \* token sequences, most of which are no statement

\* Statements whose first clause is their only source, the fragment of openCypher
\* the planner keeps; it drops every clause before the last source.
SingleSource(stmt) == \A i \in DOMAIN stmt : (i = 1) <=> (stmt[i].k \notin NeedsSource)

\* The paths of a pattern, as node and edge IDs, and the variables they bind.
Paths(g, p) ==
    {q \in [n : [DOMAIN p.nodes -> DOMAIN g.nodes], e : [DOMAIN p.edges -> DOMAIN g.edges]] :
        /\ \A i \in DOMAIN p.nodes : p.nodes[i].label \in {"", g.nodes[q.n[i]].label}
        /\ matchProps(g.nodes[q.n[1]].props, p.nodes[1].props)
        /\ \A i \in DOMAIN p.edges :
              /\ p.edges[i].label \in {"", g.edges[q.e[i]].label}
              /\ IF p.edges[i].dir = "left"
                 THEN g.edges[q.e[i]].to = q.n[i] /\ g.edges[q.e[i]].from = q.n[i + 1]
                 ELSE g.edges[q.e[i]].from = q.n[i] /\ g.edges[q.e[i]].to = q.n[i + 1]}

RowOf(g, p, q) ==
    [v \in {p.nodes[i].var : i \in DOMAIN p.nodes} \cup {p.edges[i].var : i \in {j \in DOMAIN p.edges : p.edges[j].var # ""}} |->
        IF \E i \in DOMAIN p.nodes : p.nodes[i].var = v
        THEN nodeToMap(g, q.n[CHOOSE i \in DOMAIN p.nodes : p.nodes[i].var = v])
        ELSE edgeToMap(g, q.e[CHOOSE i \in DOMAIN p.edges : p.edges[i].var = v])]

\* The bindings of a statement that begins with MATCH, with the rows they give.
Bindings(g, stmt) ==
    LET p == stmt[1].patterns[1]
    IN  {<<q, RowOf(g, p, q)>> : q \in
            {x \in Paths(g, p) : \A i \in DOMAIN stmt : stmt[i].k = "WHERE" => evalBool(stmt[i].expr, RowOf(g, p, x))}}

\* The rows are a page of a listing of all the bindings that ORDER BY allows.
IsPage(rows, B, c) ==
    \E f \in [1..Cardinality(B) -> B] :
        /\ \A i, j \in DOMAIN f : i # j => f[i] # f[j]
        /\ \A i, j \in DOMAIN f : i < j => ~Before(c.order, f[j][2], f[i][2])
        /\ LET full == IF Counts(c.items) # {} THEN <<CountRow(c.items, Cardinality(B))>>
                       ELSE Mapped(f, LAMBDA b : ProjectRow(c.items, b[2]))
               skip == IF c.skip = None THEN 0 ELSE Atoi(c.skip)
               last == IF c.limit = None THEN Len(full) ELSE skip + Atoi(c.limit)
           IN  /\ Len(rows) = Cardinality({i \in DOMAIN full : skip < i /\ i <= last})
               /\ \A i \in DOMAIN rows : rows[i] = full[skip + i]

\* The graph a statement leaves behind when it is executed at once.
Items(stmt, k, field) == UNION {ToSet(stmt[i][field]) : i \in {j \in DOMAIN stmt : stmt[j].k = k}}

Assigned(g, stmt, n) ==
    UNION {{<<it.prop, evalExpr(it.value, b[2])>> :
                it \in {x \in Items(stmt, "SET", "items") : Bound(b[2], x.var) /\ b[2][x.var].text = n}} :
           b \in Bindings(g, stmt)}

Doomed(g, stmt) == UNION {{b[2][v].text : v \in Items(stmt, "DELETE", "vars")} : b \in Bindings(g, stmt)}

Effect(g, stmt, id) ==
    LET p == stmt[1].patterns[1]
        new == [g EXCEPT !.nodes = Bind(@, id, [label |-> p.nodes[1].label, props |-> Evaluated(p.nodes[1].props)])]
    IN  CASE stmt[1].k = "CREATE" ->
                IF p.edges = <<>> THEN new
                ELSE [g EXCEPT !.edges = Bind(@, id, [label |-> p.edges[1].label, from |-> p.nodes[1].var, to |-> p.nodes[2].var])]
          [] stmt[1].k = "MERGE" ->
                IF \E n \in DOMAIN g.nodes : /\ g.nodes[n].label = p.nodes[1].label
                                             /\ \A k \in DOMAIN p.nodes[1].props :
                                                   At(g.nodes[n].props, k).text = evalExpr(p.nodes[1].props[k], NoRow).text
                THEN g ELSE new
          [] OTHER ->
                LET gone == Doomed(g, stmt)
                IN  [nodes |-> [n \in DOMAIN g.nodes \ gone |->
                        [g.nodes[n] EXCEPT !.props = FoldSet(LAMBDA a, ps : Bind(ps, a[1], a[2]), @, Assigned(g, stmt, n))]],
                     edges |-> [e \in {x \in DOMAIN g.edges : {g.edges[x].from, g.edges[x].to} \cap gone = {}} |-> g.edges[e]]]
-----------------------------------------------------------------------------
(* Properties.                                                               *)

TypeOK ==
    /\ \A n \in DOMAIN nodes : DOMAIN nodes[n] = {"label", "props"}
    /\ sent \in 0..MaxStatements
    /\ \A s \in Session : Running(s) => sess[s].ph \in {"start", "go", "put", "create"}

\* No interleaving of SET, which puts nodes back, with DELETE, which takes them
\* and their edges away, and with CREATE of an edge leaves an edge without ends.
EndsExist == \A e \in DOMAIN edges : {edges[e].from, edges[e].to} \subseteq DOMAIN nodes

\* A statement during which nobody else wrote does exactly what it means: its
\* rows are a page of the bindings of its pattern, and it changes the graph as if
\* at once, although it works row by row and edge by edge.
ExactWhenAlone ==
    \A s \in Session :
        LET stmt == sess[s].stmt
            g == sess[s].before
        IN  Running(s) /\ sess[s].plan = <<>> /\ alone[s] /\ SingleSource(stmt) /\ stmt[1].k # "CALL" =>
                /\ G = Effect(g, stmt, NewID[sess[s].no])
                /\ stmt[1].k = "MATCH" /\ Last(stmt).k = "RETURN" =>
                       IsPage(sess[s].rows, Bindings(g, stmt), Last(stmt))

\* Precedence, nesting and optional parts: the text of a tree is parsed to the tree.
ParsesWhatIsWritten == sent = 0 => \A t \in Trees : ParseStatement(Render(t)) = Ok(Len(Render(t)) + 1, t)

\* A statement that is accepted is accepted whole: apart from parentheses and the
\* like no token is ignored, and what follows a mistake never is.
Significant(toks) == SelectSeq(toks, LAMBDA t : t[1] \notin {"(", ")", "[", "]", "{", "}", "ASC"})
NoTokenIsIgnored ==
    sent = 0 => \A t \in Scraps : LET r == ParseStatement(t)
                                  IN  r.ok => Significant(Render(r.val)) = Significant(t)
=============================================================================
