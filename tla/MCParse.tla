------------------------------ MODULE MCParse ------------------------------
(***************************************************************************)
(* A reference for the parser: a printer, which writes a syntax tree with  *)
(* no more parentheses than it needs.  The sources are printed trees and,  *)
(* from MCParseLayout, rows with any indentation.                          *)
(***************************************************************************)
EXTENDS MCParseLayout

-----------------------------------------------------------------------------
(* The printer *)

RECURSIVE Words(_, _), Join(_, _), Rows(_, _), BlockRows(_, _)

Join(nodes, dots) ==
    CASE nodes = <<>> -> IF dots THEN W(<<"...">>) ELSE <<>>
      [] Len(nodes) = 1 /\ ~dots -> Words(nodes[1], 0)
      [] OTHER -> Words(nodes[1], 0) \o W(<<",">>) \o Join(Tail(nodes), dots)
Enclosed(open, l, close) == W(<<open>>) \o Join(l.c, l.d = "...") \o W(<<close>>)
Angle(open, l) == IF l.c = <<>> THEN <<>> ELSE Enclosed(open, l, ">")
Ascribed(t) == IF t.k = "Unknown" THEN <<>> ELSE W(<<":">>) \o Words(t, 0)
Signature(args, ret) == Enclosed("(", args, ")") \o Ascribed(ret)
Optional(d, e) == IF e = None THEN <<>> ELSE W(<<d>>) \o Words(e, 0)

\* The operator an expression was written with, "" if it was not.
BinaryOf(n) == IF n.k = "Binary" THEN n.d
               ELSE IF n.k = "Call" /\ n.c[1].k = "Ident" /\ Len(n.c[2].c) = 2
                       /\ \E op \in DOMAIN parseBinaryOp : parseBinaryOp[op].opname = n.c[1].c[1].d
               THEN CHOOSE op \in DOMAIN parseBinaryOp : parseBinaryOp[op].opname = n.c[1].c[1].d
               ELSE ""
UnaryOf(n) == IF n.k = "Unary" THEN n.d
              ELSE IF n.k = "Call" /\ n.c[1].k = "Ident" /\ n.c[1].c[1].d = "operatorMinus" THEN "-" ELSE ""

\* How strongly an expression binds: an assignment reaches as far as it can,
\* unary operators bind more strongly than all binary ones.  A member that
\* is called with its expression as self is another thing than its call.
Level(n) == CASE BinaryOf(n) # "" -> parseBinaryOp[BinaryOf(n)].priority
              [] UnaryOf(n) # "" -> 8 [] n.k \in {"Assign", "Fn", "If"} -> 1 [] OTHER -> 9

Plain(n) ==
    CASE BinaryOf(n) # "" -> LET es == IF n.k = "Call" THEN n.c[2].c ELSE n.c
                             IN  Words(es[1], Level(n)) \o W(<<BinaryOf(n)>>) \o Words(es[2], Level(n) + 1)
      [] BinaryOf(n) = "" /\ UnaryOf(n) # "" ->
            W(<<UnaryOf(n)>>) \o Words(IF n.k = "Call" THEN n.c[2].c[1] ELSE n.c[1], 8)
      [] n.k = "Call" /\ BinaryOf(n) = "" /\ UnaryOf(n) = "" ->
            Words(n.c[1], IF n.c[1].k = "Member" THEN 10 ELSE 9) \o Enclosed("(", n.c[2], ")")
      [] n.k = "name" -> W(<<n.d>>)
      [] n.k \in {"Ident", "Instance"} -> W(<<n.c[1].d>>) \o Angle(".<", n.c[2])
      [] n.k = "Index" -> Words(n.c[1], 9) \o W(<<"[">>) \o Words(n.c[2], 0) \o W(<<"]">>)
      [] n.k = "Member" -> Words(n.c[1], 9) \o W(<<".", n.c[2].d>>)
      [] n.k = "Assign" -> Words(n.c[1], 9) \o W(<<"=">>) \o Words(n.c[2], 0)
      [] n.k = "LiteralInteger" -> <<Number("int")>>
      [] n.k = "LiteralFloat" -> <<Number("float")>>
      [] n.k = "LiteralString" -> <<Text(n.c[1].d)>>
      [] n.k = "LiteralBool" -> W(<<IF n.d = "True" THEN "true" ELSE "false">>)
      [] n.k = "LiteralVoid" -> W(<<"(", ")">>)
      [] n.k \in {"LiteralTuple", "Tuple"} -> Enclosed("(", Listed("", n.c), ")")
      [] n.k = "LiteralArray" -> Enclosed("[", n.c[1], "]")
      [] n.k = "LiteralStruct" -> IF Len(n.c) = 1 THEN Enclosed("{", n.c[1], "}")
                                  ELSE W(<<n.c[1].d>>) \o Enclosed("{", n.c[3], "}")
      [] n.k = "Field" -> W(<<n.c[1].d>>)
                          \o IF n.c[2] = IdentOf(n.c[1].d) THEN <<>> ELSE Optional("=", n.c[2])
      [] n.k = "Unknown" -> W(<<"_">>)
      [] n.k = "Integer" -> W(<<"int">>)
      [] n.k = "Array" -> W(<<"[">>) \o Words(n.c[1], 0) \o W(<<"]">>)
      [] n.k = "Pointer" -> W(<<"*">>) \o Words(n.c[1], 0)
      [] n.k = "Function" -> W(<<"fn">>) \o Enclosed("(", n.c[1], ")") \o W(<<":">>) \o Words(n.c[2], 0)
      [] n.k = "Argument" -> W(<<n.c[1].d>>) \o Ascribed(n.c[2])
      [] n.k = "StructField" -> W(<<n.c[1].d, ":">>) \o Words(n.c[2], 0) \o Optional("=", n.c[3])
      [] n.k = "Import" -> W(<<"import", n.c[1].d>>)
                           \o FlattenSeq([j \in 1 .. Len(n.c) - 1 |-> W(<<".", n.c[j + 1].d>>)])

Words(n, limit) == IF Level(n) < limit THEN W(<<"(">>) \o Plain(n) \o W(<<")">>) ELSE Plain(n)

\* What stands before the body of a statement that has one.
Opening(n) ==
    CASE n.k = "If" -> W(<<"if">>) \o Words(n.c[1], 0)
      [] n.k = "While" -> W(<<"while">>) \o Words(n.c[1], 0)
      [] n.k = "For" -> W(<<"for", n.c[1].d>>) \o Optional(",", n.c[2]) \o W(<<"in">>) \o Words(n.c[3], 0)
      [] n.k = "Fn" -> W(<<"fn">>) \o Signature(n.c[1], n.c[2])
      [] n.k = "FnDecl" -> FlattenSeq([j \in 1 .. 3 |-> IF n.c[j] = None THEN <<>> ELSE W(<<n.c[j].d>>)])
                           \o W(<<"fn", n.c[4].d>>) \o Angle("<", n.c[5]) \o Signature(n.c[6], n.c[7])
      [] n.k = "VarDecl" -> W(<<"var", n.c[1].d>>) \o Ascribed(n.c[2]) \o W(<<"=">>)

\* A statement that starts with the words and the body that follows them.
WithBody(indent, words, body) ==
    CASE body = None -> <<Row(indent, words)>>
      [] body.k = "LLVM" -> <<Row(indent, words), Row(indent + 1, W(<<"llvm">>) \o <<Text(body.d)>>)>>
      [] body.k = "Block" -> <<Row(indent, words)>> \o BlockRows(body.c, indent + 1)
      [] body.k \in {"If", "While", "For", "Fn"} ->
            LET rows == Rows(body, indent) IN <<Row(indent, words \o rows[1].words)>> \o Tail(rows)
      [] OTHER -> <<Row(indent, words \o Words(body, 0))>>

Rows(n, indent) ==
    CASE n.k = "If" -> WithBody(indent, Opening(n), n.c[2])
                       \o IF n.c[3] = None THEN <<>> ELSE WithBody(indent, W(<<"else">>), n.c[3])
      [] n.k \in {"While", "For", "Fn", "FnDecl", "VarDecl"} -> WithBody(indent, Opening(n), Last(n.c))
      [] n.k = "TyDecl" -> <<Row(indent, W(<<"struct", n.c[1].d>>) \o Angle("<", n.c[2]))>>
                           \o BlockRows(SubSeq(n.c, 3, Len(n.c)), indent + 1)
      [] OTHER -> <<Row(indent, Words(n, 0))>>
BlockRows(nodes, indent) == FlattenSeq([j \in DOMAIN nodes |-> Rows(nodes[j], indent)])
Printed(statements_) == Source(BlockRows(statements_, 0))

-----------------------------------------------------------------------------
(* Trees to print *)

L(nodes) == Listed("", nodes)
a == IdentOf("a")
Bin(op, l, r) == lowerBinaryOp(op, l, r)
Ops == {"*", "+", "-", "<", "==", "and", "or"}

\* All ways to combine n operators.
RECURSIVE Trees(_)
Trees(n) == IF n = 0 THEN {a}
            ELSE UNION {{Bin(op, l, r) : op \in Ops, l \in Trees(k), r \in Trees(n - 1 - k)} : k \in 0 .. n - 1}

Type0 == {Node("Integer", "", <<>>), Node("Instance", "", <<Leaf("T"), L(<<>>)>>)}
TypesOver(ts) ==
    ts \cup {Node("Array", "", <<t>>) : t \in ts} \cup {Node("Pointer", "", <<t>>) : t \in ts}
       \cup {Node("Tuple", "", <<t, u>>) : t, u \in ts}
       \cup {Node("Function", "", <<Listed(d, <<t>>), u>>) : d \in {"", "..."}, t, u \in ts}
       \cup {Node("Instance", "", <<Leaf("P"), L(<<t>>)>>) : t \in ts}
TypeTrees == TypesOver(TypesOver(Type0))
Unknown == Node("Unknown", "", <<>>)
Var(t, e) == Node("VarDecl", "", <<Leaf("v"), t, e>>)

\* Terms and postfix forms with the expressions in them.
FieldsOf(e) == L(<<Node("Field", "", <<Leaf("x"), e>>), Node("Field", "", <<Leaf("y"), IdentOf("y")>>)>>)
Forms(es) ==
    {lowerUnaryOp(op, e) : op \in {"-", "not", "*", "new"}, e \in es}
    \cup {Node("Call", "", <<e, L(<<f>>)>>) : e, f \in es} \cup {Node("Call", "", <<e, L(<<>>)>>) : e \in es}
    \cup {Node("Index", "", <<e, f>>) : e, f \in es} \cup {Node("Member", "", <<e, Leaf("m")>>) : e \in es}
    \cup {Node("Assign", "", <<e, f>>) : e \in es, f \in es}
    \cup {Node("LiteralTuple", "", <<e, f>>) : e, f \in es}
    \cup {Node("LiteralArray", "", <<L(<<e>>)>>) : e \in es}
    \cup {Node("LiteralStruct", "", <<FieldsOf(e)>>) : e \in es}
    \cup {Node("LiteralStruct", "", <<Leaf("P"), L(<<>>), FieldsOf(e)>>) : e \in es}
Literals == {Node(k, "", <<>>) : k \in {"LiteralInteger", "LiteralFloat", "LiteralVoid"}}
            \cup {Node("LiteralBool", "False", <<>>), Node("LiteralString", "", <<Leaf("t")>>),
                  Node("Ident", "", <<Leaf("g"), L(<<Node("Integer", "", <<>>)>>)>>)}
Form1 == Forms({a}) \cup Literals
Form2 == Forms({a} \cup Form1) \cup {Bin(op, e, f) : op \in {"*", "+", "or"}, e, f \in {a} \cup Form1}

\* An if without an else must not be the last thing before the else of
\* another: parseIf takes that else for the inner one.
RECURSIVE EndsWithIf(_)
EndsWithIf(n) == CASE n.k = "If" -> n.c[3] = None \/ EndsWithIf(n.c[3])
                   [] n.k \in {"Block", "While", "For", "Fn", "VarDecl"} -> n.c # <<>> /\ EndsWithIf(Last(n.c))
                   [] OTHER -> FALSE
Block(nodes) == Node("Block", "", nodes)
Args == {Listed(d, as) : d \in {"", "..."},
                         as \in {<<>>, <<Node("Argument", "", <<Leaf("x"), Unknown>>)>>}}
Bodies(ss) == ss \cup {Block(<<s>>) : s \in ss} \cup {Block(<<s, t>>) : s, t \in ss}
Blocks(ss) == {b \in Bodies(ss) : b.k = "Block"}
Statements(ss) ==
    {n \in {Node("If", "", <<a, b, e>>) : b \in Bodies(ss), e \in {None, a, Block(<<a>>)}} :
        n.c[3] = None \/ ~EndsWithIf(n.c[2])}
    \cup {Node("While", "", <<a, b>>) : b \in Bodies(ss)}
    \cup {Node("For", "", <<Leaf("i"), j, a, b>>) : j \in {None, Leaf("j")}, b \in Bodies(ss)}
    \cup {Var(Unknown, Node("Fn", "", <<as, Unknown, b>>)) : as \in Args, b \in Bodies(ss)}
    \cup {Node("FnDecl", "", <<i, None, None, Leaf("f"), L(<<>>), as, Unknown, b>>) :
            i \in {None, Leaf("inline")}, as \in Args, b \in Blocks(ss) \cup {Node("LLVM", "code", <<>>)}}
Declarations ==
    {Node("FnDecl", "", <<None, x, y, Leaf("f"), L(g), as, t, None>>) :
        x \in {None, Leaf("extern")}, y \in {Leaf("builtin")}, as \in Args, t \in Type0,
        g \in {<<>>, <<Leaf("T"), Leaf("U")>>}}
    \cup {Node("TyDecl", "", <<Leaf("P"), L(g)>> \o fs) :
        g \in {<<>>, <<Leaf("T")>>},
        fs \in {<<Node("StructField", "", <<Leaf("x"), t, e>>), Node("StructField", "", <<Leaf("y"), u, None>>)>> :
                    t, u \in Type0, e \in {None, a}}}
    \cup {Node("Import", "", <<Leaf("m")>>), Node("Import", "", <<Leaf("m"), Leaf("n")>>)}
Simple == {a, Node("If", "", <<a, a, None>>), Node("While", "", <<a, Block(<<a>>)>>),
           Node("If", "", <<a, Block(<<a>>), a>>), Node("If", "", <<a, Block(<<a>>), Block(<<a>>)>>)}

Modules == {<<e>> : e \in UNION {Trees(n) : n \in 0 .. 3} \cup Form2}
           \cup {<<Var(t, a)>> : t \in TypeTrees}
           \cup {<<s, t>> : s \in Statements(Simple) \cup Declarations, t \in {a, Node("Import", "", <<Leaf("m")>>)}}
PrintedSources == {Printed(m) : m \in Modules}
MCCorpora == {PrintedSources, LayoutSources}
\* No two trees are printed alike.
PrintsApart == Cardinality(PrintedSources) = Cardinality(Modules)

\* parse inverts the printer: operators are grouped by their priority and to
\* the left, arguments, types and blocks end where they should, and what is
\* printed with no need for parentheses is accepted.
RoundTrip ==
    ~IsLayout /\ parsed # <<>> =>
        /\ ~Failed(parsed[1])
        /\ LET src == Printed(parsed[1].nodes[1].c[1].c)
           IN  src.lines = indents /\ src.tokens = stream
=============================================================================
