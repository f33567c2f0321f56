------------------------------- MODULE MCQuery -------------------------------
(* Statements, a graph and syntax trees for TLC.                             *)
EXTENDS QuerySemantics

V(t) == Val("string", t)
Str(t) == Lit("string", t, FALSE)
N(v, l) == NodePattern(v, l, NoProps)
P(k, v) == [x \in {k} |-> v]
Pat(ns, es) == [nodes |-> ns, edges |-> es]
Match(p) == [k |-> "MATCH", patterns |-> <<p>>]
Where(e) == [k |-> "WHERE", expr |-> e]
Item(e) == [expr |-> e, alias |-> ""]
Return1(items, order, limit, skip) ==
    [k |-> "RETURN", items |-> items, order |-> order, limit |-> limit, skip |-> skip]
SetTo(v, p, e) == [var |-> v, prop |-> p, value |-> e]
PropX(v) == Property(v, "x")

\* Two agents that know each other and themselves, with equal names, and a skill.
Graph1 ==
    [nodes |-> [a |-> [label |-> "A", props |-> [x |-> V("1"), y |-> V("2")]],
                b |-> [label |-> "A", props |-> [x |-> V("2")]],
                c |-> [label |-> "B", props |-> [x |-> V("1")]]],
     edges |-> [e |-> [label |-> "K", from |-> "a", to |-> "b"],
                f |-> [label |-> "K", from |-> "a", to |-> "c"],
                g |-> [label |-> "L", from |-> "b", to |-> "a"]]]

Reads ==
    { <<Match(Pat(<<N("n", "A")>>, <<>>)), Where(Binary("=", PropX("n"), Lit("int", "1", FALSE))),
        Return1(<<Item(Ident("n"))>>, <<>>, None, None)>>,
      <<Match(Pat(<<NodePattern("n", "A", P("x", Str("1")))>>, <<>>)),
        Return1(<<Item(FuncCall("count", <<Star>>))>>, <<>>, None, None)>>,
      <<Match(Pat(<<N("n", "A"), N("m", "")>>, <<EdgePattern("r", "K", "right")>>)),
        Where(Binary("OR", Not(Binary("IN", PropX("m"), List(<<Param("p")>>))), Binary("<", PropX("m"), PropX("n")))),
        Return1(<<Item(PropX("m")), Item(Ident("r"))>>, <<[expr |-> PropX("m"), desc |-> TRUE]>>, "1", None)>>,
      <<Match(Pat(<<N("n", "A"), N("m", ""), N("o", "A")>>,
                  <<EdgePattern("", "K", "right"), EdgePattern("", "K", "left")>>)),
        Return1(<<Item(PropX("n")), Item(PropX("o"))>>, <<[expr |-> Property("o", "y"), desc |-> FALSE]>>, "1", "1")>> }

Writes ==
    { <<Match(Pat(<<N("n", "A"), N("m", "")>>, <<EdgePattern("", "K", "right")>>)),
        [k |-> "SET", items |-> <<SetTo("m", "y", Str("2")), SetTo("n", "z", PropX("n"))>>]>>,
      <<Match(Pat(<<N("n", "A")>>, <<>>)), [k |-> "DELETE", vars |-> <<"n">>]>>,
      <<[k |-> "CREATE", patterns |-> <<Pat(<<N("a", ""), N("c", "")>>, <<EdgePattern("", "K", "right")>>)>>]>>,
      <<[k |-> "CREATE", patterns |-> <<Pat(<<NodePattern("n", "A", P("x", Param("p")))>>, <<>>)>>]>>,
      <<[k |-> "MERGE", patterns |-> <<Pat(<<NodePattern("", "A", [x |-> Str("1"), y |-> Str("1")])>>, <<>>)>>]>>,
      <<[k |-> "CALL", proc |-> <<"kafgraph", "vectorSearch">>,
         args |-> <<Str("A"), Str("x"), List(<<Lit("float", "1", FALSE)>>), Lit("int", "2", FALSE)>>, yield |-> <<"node">>]>>,
      <<[k |-> "CALL", proc |-> <<"kafgraph", "vectorSearch">>, args |-> <<Str("A")>>, yield |-> <<>>]>> }

QueryTexts == {Render(t) : t \in Reads \cup Writes} \cup {<<T("RETURN"), T("*")>>, <<T("DELETE")>>}
QueryParams == [p |-> V("1")]
Order == <<"-1", "1", "2", "<nil>", "node">>
Parts == {<<"1", "[1]">>}
IDs == <<"n1", "n2", "n3">>
Procs == (<<"kafgraph", "vectorSearch">> :> [args |-> 4, vector |-> 3])

\* Expressions, two operators deep, and statements with every optional part.
Atoms == {PropX("n"), Ident("n"), Lit("int", "1", TRUE), List(<<Str("1"), Star>>), FuncCall("count", <<Star>>), FuncCall("f", <<>>)}
Depth1 == Atoms \cup {Binary(op, l, r) : op \in {"=", "AND", "OR", "IN"}, l \in {Ident("n"), Str("1")}, r \in {PropX("n")}}
                \cup {Not(Ident("n"))}
Depth2 == Depth1 \cup {Binary(op, l, r) : op \in {"=", "AND", "OR", "CONTAINS"}, l \in Depth1, r \in Depth1} \cup {Not(e) : e \in Depth1}
Expressions == Depth2 \cup {Binary(op, l, Not(Ident("n"))) : op \in {"AND", "OR"}, l \in Depth2}
NodePatterns == {NodePattern(v, l, p) : v \in {"", "n"}, l \in {"", "A"}, p \in {NoProps, P("x", Binary("OR", Ident("n"), Str("1")))}}
Patterns == {Pat(<<m>>, <<>>) : m \in NodePatterns}
            \cup {Pat(<<m, n>>, <<EdgePattern(v, l, d)>>) :
                    m \in NodePatterns, n \in NodePatterns, v \in {"", "r"}, l \in {"", "K"}, d \in {"left", "right"}}
Syntax ==
    {<<Where(e), Match(Pat(<<N("n", "A")>>, <<>>))>> : e \in Expressions}
    \cup {<<[k |-> k, patterns |-> <<p, Pat(<<N("m", ""), N("", "B"), N("o", "")>>, <<EdgePattern("", "", "left"), EdgePattern("r", "", "right")>>)>>]>> :
            k \in {"MATCH", "CREATE"}, p \in Patterns}
    \cup {<<[k |-> "MERGE", patterns |-> <<p>>], [k |-> "DELETE", vars |-> <<"n", "m">>]>> : p \in Patterns}
    \cup {<<Return1(<<[expr |-> e, alias |-> a], Item(Star)>>, o, l, s)>> :
            e \in Atoms, a \in {"", "z"}, o \in {<<>>, <<[expr |-> Ident("n"), desc |-> FALSE], [expr |-> PropX("n"), desc |-> TRUE]>>},
            l \in {None, "1"}, s \in {None, "2"}}
    \cup {<<[k |-> "SET", items |-> <<SetTo("n", "x", e), SetTo("m", "y", Param("p"))>>]>> : e \in Atoms}
    \cup {<<[k |-> "CALL", proc |-> p, args |-> a, yield |-> y]>> :
            p \in {<<"f">>, <<"f", "g">>}, a \in {<<>>, <<Star, Ident("n")>>}, y \in {<<>>, <<"n", "m">>}}

\* Short token sequences behind WHERE and RETURN.
Tokens == {<<"ident", "n">>, <<"int", "1">>, T("."), T("="), T("AND"), T("NOT"), T("("), T(")"), T("-"), T("*"),
           T(","), <<"illegal", "^">>}
Tails == {T("ORDER"), T("BY"), T("LIMIT"), T("SKIP"), T("ASC"), T("DESC"), T("AS"), <<"ident", "n">>, <<"int", "1">>, T(",")}
Fragments ==
    {<<T("WHERE")>> \o t : t \in UNION {[1..n -> Tokens] : n \in 0..4}}
    \cup {<<T("RETURN"), <<"ident", "n">>>> \o t : t \in UNION {[1..n -> Tails] : n \in 0..4}}
=============================================================================
