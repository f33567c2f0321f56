----------------------------- MODULE QueryParser -----------------------------
(***************************************************************************)
(* The recursive-descent parser of package query, on tokens.  A token is   *)
(* <<type, literal>>; keywords and symbols have their text as the type.    *)
(* A parser takes the tokens and a position and returns the position after *)
(* what it consumed with the syntax tree, or Fail.  Comma is the only      *)
(* separator of lists, so one operator parses every list, by the kind of   *)
(* its items.  Render is the reference: the text of a syntax tree, with    *)
(* parentheses where precedence asks for them.                             *)
(***************************************************************************)
EXTENDS Naturals, Sequences, SequencesExt, TLC

EOF == <<"EOF", "">>
Peek(s, i)  == IF i > Len(s) THEN EOF ELSE s[i]
Is(s, i, t) == Peek(s, i)[1] = t

Ok(i, v) == [ok |-> TRUE, pos |-> i, val |-> v]
Fail     == [ok |-> FALSE]
Then(r, F(_, _)) == IF r.ok THEN F(r.pos, r.val) ELSE Fail

Expect(s, i, t) == IF Is(s, i, t) THEN Ok(i + 1, Peek(s, i)[2]) ELSE Fail

\* What Expect finds after an introducing token, or a default without one.
After(s, i, intro, t, default) == IF Is(s, i, intro) THEN Expect(s, i + 1, t) ELSE Ok(i, default)

Atoi(text) == CHOOSE n \in 0..9 : ToString(n) = text
-----------------------------------------------------------------------------
(* Syntax trees.                                                             *)

Lit(type, text, neg) == [k |-> "lit", type |-> type, text |-> text, neg |-> neg]
Ident(name)     == [k |-> "ident", name |-> name]
Property(v, p)  == [k |-> "prop", var |-> v, prop |-> p]
Param(name)     == [k |-> "param", name |-> name]
Star            == [k |-> "star"]
List(es)        == [k |-> "list", elems |-> es]
FuncCall(f, es) == [k |-> "func", name |-> f, args |-> es]
Binary(op, l, r) == [k |-> "binary", op |-> op, left |-> l, right |-> r]
Not(e)          == [k |-> "not", expr |-> e]

NoProps == [x \in {} |-> x]
NodePattern(v, l, p) == [var |-> v, label |-> l, props |-> p]
EdgePattern(v, l, d) == [var |-> v, label |-> l, dir |-> d]

Compare == {"=", "<>", "<", ">", "<=", ">=", "CONTAINS", "IN"}
Literals == {"int", "float", "string", "TRUE", "FALSE", "NULL"}
-----------------------------------------------------------------------------
(* Everything that nests goes through parseItem; the others are loops.       *)

RECURSIVE parseItem(_, _, _), CommaList(_, _, _, _), Operands(_, _, _), Hops(_, _, _),
          DottedName(_, _, _), Clauses(_, _, _)

\* An item, then further items as long as a comma follows.
CommaList(kind, s, i, items) ==
    Then(parseItem(kind, s, i), LAMBDA j, x :
        IF Is(s, j, ",") THEN CommaList(kind, s, j + 1, Append(items, x)) ELSE Ok(j, Append(items, x)))

\* A possibly empty list up to a closing token.
ListUpTo(close, s, i) ==
    IF Is(s, i, close) THEN Ok(i + 1, <<>>)
    ELSE Then(CommaList("expr", s, i, <<>>), LAMBDA j, es : Then(Expect(s, j, close), LAMBDA k, c : Ok(k, es)))

\* In a call a star that comes first is an argument of its own.
CallArgs(s, i) ==
    IF ~Is(s, i, "*") THEN ListUpTo(")", s, i)
    ELSE Then(IF Is(s, i + 1, ",") THEN CommaList("expr", s, i + 2, <<Star>>) ELSE Ok(i + 1, <<Star>>), LAMBDA j, es :
         Then(Expect(s, j, ")"), LAMBDA k, c : Ok(k, es)))

\* A name, or the word COUNT: a call, a property or a variable.
parseName(s, i) ==
    LET name == Peek(s, i)[2]
    IN  IF Is(s, i + 1, "(")
        THEN Then(CallArgs(s, i + 2), LAMBDA j, es : Ok(j, FuncCall(name, es)))
        ELSE IF Is(s, i + 1, ".")
        THEN Then(Expect(s, i + 2, "ident"), LAMBDA j, p : Ok(j, Property(name, p)))
        ELSE Ok(i + 1, Ident(name))

parseAtom(s, i) ==
    LET t == Peek(s, i)
    IN  CASE t[1] = "*" -> Ok(i + 1, Star)
          [] t[1] \in Literals -> Ok(i + 1, Lit(t[1], t[2], FALSE))
          [] t[1] = "param" -> Ok(i + 1, Param(t[2]))
          [] t[1] = "[" -> Then(ListUpTo("]", s, i + 1), LAMBDA j, es : Ok(j, List(es)))
          [] t[1] = "(" -> Then(parseItem("expr", s, i + 1), LAMBDA j, e : Then(Expect(s, j, ")"), LAMBDA k, c : Ok(k, e)))
          [] t[1] \in {"ident", "COUNT"} -> parseName(s, i)
          [] t[1] = "-" -> IF Peek(s, i + 1)[1] \in {"int", "float"}
                           THEN Ok(i + 2, Lit(Peek(s, i + 1)[1], Peek(s, i + 1)[2], TRUE)) ELSE Fail
          [] OTHER -> Fail

\* One comparison at most; it does not chain.
parseComparison(s, i) ==
    Then(parseAtom(s, i), LAMBDA j, l :
        IF Peek(s, j)[1] \in Compare
        THEN Then(parseAtom(s, j + 1), LAMBDA k, r : Ok(k, Binary(Peek(s, j)[1], l, r)))
        ELSE Ok(j, l))

parseNot(s, i) ==
    IF Is(s, i, "NOT") THEN Then(parseComparison(s, i + 1), LAMBDA j, e : Ok(j, Not(e)))
    ELSE parseComparison(s, i)

\* The loops of parseAnd and parseOr: what was read becomes the left operand.
Operands(op, s, r) ==
    IF ~r.ok \/ ~Is(s, r.pos, op) THEN r
    ELSE Then(LET x == parseNot(s, r.pos + 1) IN IF op = "AND" THEN x ELSE Operands("AND", s, x),
              LAMBDA j, x : Operands(op, s, Ok(j, Binary(op, r.val, x))))

\* Faulty variant: the loops return on the second operand.
parseAndRight(s, i) ==
    Then(parseNot(s, i), LAMBDA j, l :
        IF Is(s, j, "AND") THEN Then(parseItem("expr", s, j + 1), LAMBDA k, r : Ok(k, Binary("AND", l, r))) ELSE Ok(j, l))

parseAnd(s, i) == Operands("AND", s, parseNot(s, i))
parseOr(s, i)  == Operands("OR", s, parseAnd(s, i))
parseExpr(s, i) == parseOr(s, i)
-----------------------------------------------------------------------------
(* Patterns.                                                                 *)

\* A key that comes twice has its last value.
LastWins(es) == [x \in {es[n][1] : n \in DOMAIN es} |-> es[SelectLastInSeq(es, LAMBDA e : e[1] = x)][2]]

parseMapLiteral(s, i) ==
    IF Is(s, i, "}") THEN Ok(i + 1, NoProps)
    ELSE Then(CommaList("entry", s, i, <<>>), LAMBDA j, es : Then(Expect(s, j, "}"), LAMBDA k, c :
        Ok(k, LastWins(es))))

\* (var:Label {props}), everything optional.
parseNodePattern(s, i) ==
    Then(Expect(s, i, "("), LAMBDA i1, o :
    Then(IF Is(s, i1, "ident") THEN Expect(s, i1, "ident") ELSE Ok(i1, ""), LAMBDA i2, v :
    Then(After(s, i2, ":", "ident", ""), LAMBDA i3, l :
    Then(IF Is(s, i3, "{") THEN parseMapLiteral(s, i3 + 1) ELSE Ok(i3, NoProps), LAMBDA i4, p :
    Then(Expect(s, i4, ")"), LAMBDA i5, c : Ok(i5, NodePattern(v, l, p)))))))

\* [var:LABEL]
parseRelDetail(s, i) ==
    Then(IF Is(s, i, "ident") THEN Expect(s, i, "ident") ELSE Ok(i, ""), LAMBDA j, v :
    Then(After(s, j, ":", "ident", ""), LAMBDA k, l :
    Then(Expect(s, k, "]"), LAMBDA m, c : Ok(m, <<v, l>>))))

parseRelAndNode(s, i) ==
    LET left == Is(s, i, "<-")
    IN  Then(IF Is(s, i + 1, "[") THEN parseRelDetail(s, i + 2) ELSE Ok(i + 1, <<"", "">>), LAMBDA j, d :
        Then(Expect(s, j, IF left THEN "-" ELSE "->"), LAMBDA k, c :
        Then(parseNodePattern(s, k), LAMBDA m, n :
            Ok(m, <<EdgePattern(d[1], d[2], IF left THEN "left" ELSE "right"), n>>))))

Hops(s, i, pat) ==
    IF ~(Is(s, i, "-") \/ Is(s, i, "<-")) THEN Ok(i, pat)
    ELSE Then(parseRelAndNode(s, i), LAMBDA j, h :
            Hops(s, j, [nodes |-> Append(pat.nodes, h[2]), edges |-> Append(pat.edges, h[1])]))

parsePattern(s, i) ==
    Then(parseNodePattern(s, i), LAMBDA j, n : Hops(s, j, [nodes |-> <<n>>, edges |-> <<>>]))
-----------------------------------------------------------------------------
(* Items of lists and clauses.                                               *)

parseReturnItem(s, i) ==
    Then(parseItem("expr", s, i), LAMBDA j, e : Then(After(s, j, "AS", "ident", ""), LAMBDA k, a :
        Ok(k, [expr |-> e, alias |-> a])))

parseOrderItem(s, i) ==
    Then(parseItem("expr", s, i), LAMBDA j, e :
        Ok(IF Is(s, j, "DESC") \/ Is(s, j, "ASC") THEN j + 1 ELSE j, [expr |-> e, desc |-> Is(s, j, "DESC")]))

parseSetItem(s, i) ==
    Then(Expect(s, i, "ident"), LAMBDA i1, v : Then(Expect(s, i1, "."), LAMBDA i2, d :
    Then(Expect(s, i2, "ident"), LAMBDA i3, p : Then(Expect(s, i3, "="), LAMBDA i4, q :
    Then(parseItem("expr", s, i4), LAMBDA i5, e : Ok(i5, [var |-> v, prop |-> p, value |-> e]))))))

parseEntry(s, i) ==
    Then(Expect(s, i, "ident"), LAMBDA j, k : Then(Expect(s, j, ":"), LAMBDA m, c :
    Then(parseItem("expr", s, m), LAMBDA n, e : Ok(n, <<k, e>>))))

\* MATCH and CREATE: patterns; MERGE: one.
parsePatterns(k, s, i) == Then(CommaList("pattern", s, i, <<>>), LAMBDA j, ps : Ok(j, [k |-> k, patterns |-> ps]))
parseMerge(s, i) == Then(parsePattern(s, i), LAMBDA j, p : Ok(j, [k |-> "MERGE", patterns |-> <<p>>]))

None == "none"
Number(s, i, word) == After(s, i, word, "int", None)

\* LIMIT comes before SKIP.
parseReturn(s, i) ==
    Then(CommaList("return", s, i, <<>>), LAMBDA i1, items :
    Then(IF ~Is(s, i1, "ORDER") THEN Ok(i1, <<>>)
         ELSE Then(Expect(s, i1 + 1, "BY"), LAMBDA j, b : CommaList("order", s, j, <<>>)), LAMBDA i2, order :
    Then(Number(s, i2, "LIMIT"), LAMBDA i3, limit : Then(Number(s, i3, "SKIP"), LAMBDA i4, skip :
        Ok(i4, [k |-> "RETURN", items |-> items, order |-> order, limit |-> limit, skip |-> skip])))))

DottedName(s, i, name) ==
    Then(Expect(s, i, "ident"), LAMBDA j, n :
        IF Is(s, j, ".") THEN DottedName(s, j + 1, Append(name, n)) ELSE Ok(j, Append(name, n)))

parseCall(s, i) ==
    Then(DottedName(s, i, <<>>), LAMBDA i1, name :
    Then(Expect(s, i1, "("), LAMBDA i2, o : Then(ListUpTo(")", s, i2), LAMBDA i3, args :
    Then(IF Is(s, i3, "YIELD") THEN CommaList("ident", s, i3 + 1, <<>>) ELSE Ok(i3, <<>>), LAMBDA i4, y :
        Ok(i4, [k |-> "CALL", proc |-> name, args |-> args, yield |-> y])))))

parseClause(s, i) ==
    LET k == Peek(s, i)[1]
    IN  CASE k \in {"MATCH", "CREATE"} -> parsePatterns(k, s, i + 1)
          [] k = "MERGE"  -> parseMerge(s, i + 1)
          [] k = "WHERE"  -> Then(parseItem("expr", s, i + 1), LAMBDA j, e : Ok(j, [k |-> k, expr |-> e]))
          [] k = "RETURN" -> parseReturn(s, i + 1)
          [] k = "SET"    -> Then(CommaList("set", s, i + 1, <<>>), LAMBDA j, x : Ok(j, [k |-> k, items |-> x]))
          [] k = "DELETE" -> Then(CommaList("ident", s, i + 1, <<>>), LAMBDA j, x : Ok(j, [k |-> k, vars |-> x]))
          [] k = "CALL"   -> parseCall(s, i + 1)
          [] OTHER -> Fail

parseItem(kind, s, i) ==
    CASE kind = "expr"    -> parseExpr(s, i)
      [] kind = "entry"   -> parseEntry(s, i)
      [] kind = "pattern" -> parsePattern(s, i)
      [] kind = "return"  -> parseReturnItem(s, i)
      [] kind = "order"   -> parseOrderItem(s, i)
      [] kind = "set"     -> parseSetItem(s, i)
      [] kind = "ident"   -> Expect(s, i, "ident")
      [] kind = "clause"  -> parseClause(s, i)

\* Faulty variant: what cannot begin a clause ends the statement.
ClausesUpTo(s, i, cs) ==
    IF ~parseItem("clause", s, i).ok THEN (IF cs = <<>> THEN Fail ELSE Ok(i, cs))
    ELSE Then(parseItem("clause", s, i), LAMBDA j, c : Clauses(s, j, Append(cs, c)))

Clauses(s, i, cs) ==
    IF Peek(s, i) = EOF THEN (IF cs = <<>> THEN Fail ELSE Ok(i, cs))
    ELSE Then(parseItem("clause", s, i), LAMBDA j, c : Clauses(s, j, Append(cs, c)))

ParseStatement(s) == Clauses(s, 1, <<>>)
-----------------------------------------------------------------------------
(* The reference: the tokens of a syntax tree.                               *)

T(word) == <<word, word>>
Word(name) == IF name = "count" THEN <<"COUNT", name>> ELSE <<"ident", name>>
Opt(b, toks) == IF b THEN toks ELSE <<>>
Joined(seqs) == FoldLeft(LAMBDA a, x : IF a = <<>> THEN x ELSE a \o <<T(",")>> \o x, <<>>, seqs)

Level(e) == CASE e.k = "binary" /\ e.op = "OR" -> 1 [] e.k = "binary" /\ e.op = "AND" -> 2
              [] e.k = "not" -> 3 [] e.k = "binary" /\ e.op \in Compare -> 4 [] OTHER -> 5

RECURSIVE RenderExpr(_, _)
RenderExpr(e, level) ==
    LET all(es) == Joined([i \in DOMAIN es |-> RenderExpr(es[i], 1)])
        text ==
          CASE e.k = "lit"    -> Opt(e.neg, <<T("-")>>) \o <<<<e.type, e.text>>>>
            [] e.k = "ident"  -> <<Word(e.name)>>
            [] e.k = "prop"   -> <<Word(e.var), T("."), Word(e.prop)>>
            [] e.k = "param"  -> <<<<"param", e.name>>>>
            [] e.k = "star"   -> <<T("*")>>
            [] e.k = "list"   -> <<T("[")>> \o all(e.elems) \o <<T("]")>>
            [] e.k = "func"   -> <<Word(e.name), T("(")>> \o all(e.args) \o <<T(")")>>
            [] e.k = "not"    -> <<T("NOT")>> \o RenderExpr(e.expr, 4)
            [] e.k = "binary" -> RenderExpr(e.left, IF Level(e) = 4 THEN 5 ELSE Level(e))
                                   \o <<T(e.op)>> \o RenderExpr(e.right, Level(e) + 1)
    IN  IF Level(e) < level THEN <<T("(")>> \o text \o <<T(")")>> ELSE text

RenderNode(n) ==
    <<T("(")>> \o Opt(n.var # "", <<Word(n.var)>>) \o Opt(n.label # "", <<T(":"), Word(n.label)>>)
    \o Opt(n.props # NoProps, <<T("{")>> \o
            Joined(LET ks == SetToSeq(DOMAIN n.props)
                   IN  [i \in DOMAIN ks |-> <<Word(ks[i]), T(":")>> \o RenderExpr(n.props[ks[i]], 1)])
            \o <<T("}")>>)
    \o <<T(")")>>

RenderHop(e) ==
    <<T(IF e.dir = "left" THEN "<-" ELSE "-")>>
    \o Opt(e.var # "" \/ e.label # "", <<T("[")>> \o Opt(e.var # "", <<Word(e.var)>>)
            \o Opt(e.label # "", <<T(":"), Word(e.label)>>) \o <<T("]")>>)
    \o <<T(IF e.dir = "left" THEN "-" ELSE "->")>>

RenderPattern(p) ==
    RenderNode(p.nodes[1]) \o
    FlattenSeq([i \in DOMAIN p.edges |-> RenderHop(p.edges[i]) \o RenderNode(p.nodes[i + 1])])

RenderClause(c) ==
    LET map(seq, F(_)) == Joined([i \in DOMAIN seq |-> F(seq[i])])
    IN  <<T(c.k)>> \o
        CASE c.k \in {"MATCH", "CREATE", "MERGE"} -> map(c.patterns, RenderPattern)
          [] c.k = "WHERE"  -> RenderExpr(c.expr, 1)
          [] c.k = "DELETE" -> map(c.vars, LAMBDA v : <<Word(v)>>)
          [] c.k = "SET"    -> map(c.items, LAMBDA x :
                <<Word(x.var), T("."), Word(x.prop), T("=")>> \o RenderExpr(x.value, 1))
          [] c.k = "CALL"   ->
                FoldLeft(LAMBDA a, n : IF a = <<>> THEN <<Word(n)>> ELSE a \o <<T("."), Word(n)>>, <<>>, c.proc)
                \o <<T("(")>> \o map(c.args, LAMBDA e : RenderExpr(e, 1)) \o <<T(")")>>
                \o Opt(c.yield # <<>>, <<T("YIELD")>> \o map(c.yield, LAMBDA v : <<Word(v)>>))
          [] c.k = "RETURN" ->
                map(c.items, LAMBDA x : RenderExpr(x.expr, 1) \o Opt(x.alias # "", <<T("AS"), Word(x.alias)>>))
                \o Opt(c.order # <<>>, <<T("ORDER"), T("BY")>> \o
                        map(c.order, LAMBDA x : RenderExpr(x.expr, 1) \o Opt(x.desc, <<T("DESC")>>)))
                \o Opt(c.limit # None, <<T("LIMIT"), <<"int", c.limit>>>>)
                \o Opt(c.skip # None, <<T("SKIP"), <<"int", c.skip>>>>)

Render(stmt) == FlattenSeq([i \in DOMAIN stmt |-> RenderClause(stmt[i])])
=============================================================================
