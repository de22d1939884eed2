------------------------------- MODULE Parse -------------------------------
(***************************************************************************)
(* The recursive descent parser (compiler/parse.cpp).  It reads the tokens *)
(* and the indentation of every line, which tokenize.cpp produces, and     *)
(* builds the syntax tree or panics.                                       *)
(*                                                                         *)
(* The productions that read one token after another are written as data:  *)
(* a rule is a sequence of alternatives, an alternative a kind of node and *)
(* the items to read, and the first item tells whether an alternative      *)
(* applies.  Operators interpret them and add what the code decides in     *)
(* another way: indentation, lookahead and priorities.  Tokens have the    *)
(* line they are on; the locations in the tree are left out.               *)
(***************************************************************************)
EXTENDS Integers, Sequences, SequencesExt

CONSTANT Corpora    \* sets of sources: [lines |-> indents, tokens |-> tokens]

VARIABLES
    indents,    \* Tokens::lines, the indent of each
    stream,     \* Tokens::tokens: [type, data, line]
    parsed      \* <<>> until the parser has returned; its result

parseVars == <<indents, stream, parsed>>

Node(kind, data, children) == [k |-> kind, d |-> data, c |-> children]
Leaf(data)  == Node("name", data, <<>>)
None        == Node("none", "", <<>>)
Listed(data, nodes) == Node("list", data, nodes)
IdentOf(name) == Node("Ident", "", <<Leaf(name), Listed("", <<>>)>>)

\* What a parsing function returns: the new TokenStream::index (from 1) and
\* the nodes it built; 0 after a panic, -1 after an assertion failed.
Ret(i, nodes) == [at |-> i, nodes |-> nodes]
Panic  == Ret(0, <<>>)
Abort  == Ret(-1, <<>>)
Failed(r) == r.at <= 0

-----------------------------------------------------------------------------
(* TokenStream *)

Brackets == {"(", ")", "[", "]", "{", "}"}
Atoms    == {",", ":", ".", "=", "*", "+", "-", "*%", "/", "%", "+%", "-%", "<", "<=",
             ">", ">=", "==", "!=", ".<", "..."}

TypeOf(data) == CASE data \in Brackets -> "bracket" [] data \in Atoms -> "atom"
                  [] data = "newline" -> "line" [] OTHER -> "ident"

kEnd  == [type |-> "end", data |-> "", line |-> 0]
Tok(i) == IF i \in DOMAIN stream THEN stream[i] ELSE kEnd
is(i, data) == Tok(i).data = data /\ Tok(i).type = TypeOf(data)
isOneOf(i, datas) == \E d \in datas : is(i, d)
AtEnd(i) == Tok(i).type = "end"

\* Lines count from 0; the end of the file counts as part of the first line.
getLineIndent(i) == indents[Tok(i).line + 1]

-----------------------------------------------------------------------------
(* Items, and what they read *)

Eat(data)   == [k |-> "eat", d |-> data]                 \* this very token
Take(type)  == [k |-> "take", d |-> type]                \* any token of the type
Flag(data)  == [k |-> "flag", d |-> data]                \* the token or none
Sub(name)   == [k |-> "rule", d |-> name]
Opt(data, items, none) == [k |-> "opt", d |-> data, items |-> items, none |-> none]
Many(data, items, sameLine) == [k |-> "many", d |-> data, items |-> items, sameLine |-> sameLine]
\* Items separated by commas (one may trail) in brackets that may be missing
\* if the list is optional, or may end with three dots.
List(open, item, close) ==
    [k |-> "list", d |-> open, items |-> <<item>>, close |-> close, optional |-> FALSE, dots |-> FALSE]
OptList(open, item, close) == [List(open, item, close) EXCEPT !.optional = TRUE]
DotList(open, item, close) == [List(open, item, close) EXCEPT !.dots = TRUE]
Indented(name) == [k |-> "indented", d |-> name]
BlockExpr   == [k |-> "blockExpr"]
ElsePart    == [k |-> "else"]
Module      == [k |-> "module"]
Alt(kind, items) == [kind |-> kind, items |-> items]

-----------------------------------------------------------------------------
(* The productions *)

parseTypeSignature  == OptList("<", Take("ident"), ">")
parseTypeArguments  == OptList(".<", Sub("Type"), ">")
parseTypeAscription == Opt(":", <<Sub("Type")>>, <<Node("Unknown", "", <<>>)>>)

parseType ==
    <<Alt("Unknown", <<Eat("_")>>), Alt("Void", <<Eat("void")>>), Alt("Bool", <<Eat("bool")>>),
      Alt("Integer", <<Eat("int")>>), Alt("Float", <<Eat("float")>>), Alt("String", <<Eat("string")>>),
      Alt("Tuple", <<List("(", Sub("Type"), ")")>>),
      Alt("Array", <<Eat("["), Sub("Type"), Eat("]")>>),
      Alt("Pointer", <<Eat("*"), Sub("Type")>>),
      Alt("Function", <<Eat("fn"), DotList("(", Sub("Type"), ")"), Eat(":"), Sub("Type")>>),
      Alt("Instance", <<Take("ident"), parseTypeArguments>>)>>

Argument == <<Alt("Argument", <<Take("ident"), parseTypeAscription>>)>>
parseFnSignature == <<DotList("(", Sub("Argument"), ")"), parseTypeAscription>>

parseFn == <<Alt("Fn", <<Eat("fn")>> \o parseFnSignature \o <<BlockExpr>>)>>

FnHead == <<Flag("inline"), Flag("extern"), Flag("builtin"), Eat("fn"), Take("ident"),
            parseTypeSignature>> \o parseFnSignature

parseVarDecl == <<Alt("VarDecl", <<Eat("var"), Take("ident"), parseTypeAscription,
                                   Eat("="), Sub("Expr")>>)>>

StructField == <<Alt("StructField", <<Take("ident"), Many(",", <<Take("ident")>>, FALSE), Eat(":"),
                                      Sub("Type"), Opt("=", <<Sub("Expr")>>, <<None>>)>>)>>
parseStructDecl == <<Alt("TyDecl", <<Eat("struct"), Take("ident"), parseTypeSignature,
                                     Eat("newline"), Indented("StructField")>>)>>

\* The path of an import goes on only on its first line.
parseImport == <<Alt("Import", <<Eat("import"), Take("ident"), Many(".", <<Take("ident")>>, TRUE)>>)>>

parseIf    == <<Alt("If", <<Eat("if"), Sub("Expr"), BlockExpr, ElsePart>>)>>
parseFor   == <<Alt("For", <<Eat("for"), Take("ident"), Opt(",", <<Take("ident")>>, <<None>>),
                             Eat("in"), Sub("Expr"), BlockExpr>>)>>
parseWhile == <<Alt("While", <<Eat("while"), Sub("Expr"), BlockExpr>>)>>

parseLiteralArray == <<Alt("LiteralArray", <<List("[", Sub("Expr"), "]")>>)>>
Fields == List("{", Sub("Field"), "}")
Field  == <<Alt("Field", <<Take("ident"), Opt("=", <<Sub("Expr")>>, <<None>>)>>)>>
parseLiteralStruct == <<Alt("LiteralStruct", <<Fields>>),
                        Alt("LiteralStruct", <<Take("ident"), parseTypeArguments, Fields>>)>>

parseIdent == <<Alt("Ident", <<Take("ident"), parseTypeArguments>>)>>
parseCall  == <<Alt("Call", <<List("(", Sub("Expr"), ")")>>)>>
parseIndex == <<Alt("Index", <<Eat("["), Sub("Expr"), Eat("]")>>)>>

\* parseTerm, but for the lookahead that finds a structure literal.
Terms == <<Alt("True", <<Eat("true")>>), Alt("False", <<Eat("false")>>),
           Alt("Number", <<Take("number")>>), Alt("LiteralString", <<Take("string")>>)>>
         \o parseLiteralArray \o parseIdent
         \o <<Alt("LiteralTuple", <<List("(", Sub("Expr"), ")")>>)>>

Rules == [Type |-> parseType, Argument |-> Argument, Fn |-> parseFn, VarDecl |-> parseVarDecl,
          StructField |-> StructField, StructDecl |-> parseStructDecl, Import |-> parseImport,
          If |-> parseIf, For |-> parseFor, While |-> parseWhile, Field |-> Field,
          LiteralStruct |-> parseLiteralStruct, Ident |-> parseIdent, Call |-> parseCall,
          Index |-> parseIndex, Term |-> Terms]

-----------------------------------------------------------------------------
(* Operators *)

UnaryOps == ("+" :> "operatorPlus") @@ ("-" :> "operatorMinus")
            @@ [op \in {"not", "*", "new"} |-> ""]

parseBinaryOp ==
    ("*%" :> [priority |-> 7, opname |-> "operatorMultiplyWrap"]) @@
    ("*"  :> [priority |-> 7, opname |-> "operatorMultiply"]) @@
    ("/"  :> [priority |-> 7, opname |-> "operatorDivide"]) @@
    ("%"  :> [priority |-> 7, opname |-> "operatorModulo"]) @@
    ("+%" :> [priority |-> 6, opname |-> "operatorAddWrap"]) @@
    ("+"  :> [priority |-> 6, opname |-> "operatorAdd"]) @@
    ("-%" :> [priority |-> 6, opname |-> "operatorSubtractWrap"]) @@
    ("-"  :> [priority |-> 6, opname |-> "operatorSubtract"]) @@
    ("<"  :> [priority |-> 5, opname |-> "operatorLess"]) @@
    ("<=" :> [priority |-> 5, opname |-> "operatorLessEqual"]) @@
    (">"  :> [priority |-> 5, opname |-> "operatorGreater"]) @@
    (">=" :> [priority |-> 5, opname |-> "operatorGreaterEqual"]) @@
    ("==" :> [priority |-> 4, opname |-> "operatorEqual"]) @@
    ("!=" :> [priority |-> 4, opname |-> "operatorNotEqual"]) @@
    ("and" :> [priority |-> 3, opname |-> ""]) @@
    ("or"  :> [priority |-> 2, opname |-> ""])

OpPriority(i) == IF isOneOf(i, DOMAIN parseBinaryOp) THEN parseBinaryOp[Tok(i).data].priority ELSE 0

\* Operators with a name are calls of the function of that name.
lowerUnaryOp(op, expr) ==
    IF UnaryOps[op] # "" THEN Node("Call", "", <<IdentOf(UnaryOps[op]), Listed("", <<expr>>)>>)
    ELSE Node("Unary", op, <<expr>>)
lowerBinaryOp(op, left, right) ==
    IF parseBinaryOp[op].opname # ""
    THEN Node("Call", "", <<IdentOf(parseBinaryOp[op].opname), Listed("", <<left, right>>)>>)
    ELSE Node("Binary", op, <<left, right>>)

-----------------------------------------------------------------------------
(* The nodes of an alternative, from what its items read *)

\* No element is void, one is itself, more are a tuple.
Collapse(elements, void, tuple) ==
    CASE elements = <<>> -> <<Node(void, "", <<>>)>>
      [] Len(elements) = 1 -> elements
      [] OTHER -> <<Node(tuple, "", elements)>>

Build(kind, nodes) ==
    CASE kind = "Tuple" -> Collapse(nodes[1].c, "Void", "Tuple")
      [] kind = "LiteralTuple" -> Collapse(nodes[1].c, "LiteralVoid", "LiteralTuple")
      [] kind \in {"True", "False"} -> <<Node("LiteralBool", kind, <<>>)>>
      [] kind = "StructField" ->
            LET n == Len(nodes)
            IN  [j \in 1 .. n - 2 |-> Node("StructField", "", <<nodes[j], nodes[n - 1], nodes[n]>>)]
      [] kind = "Field" /\ nodes[2] = None -> <<Node(kind, "", <<nodes[1], IdentOf(nodes[1].d)>>)>>
      [] OTHER -> <<Node(kind, "", nodes)>>

\* strtoll and strtod: the data of a number says what they make of it.
parseNumber(i) ==
    CASE Tok(i).data = "int"   -> Ret(i + 1, <<Node("LiteralInteger", "", <<>>)>>)
      [] Tok(i).data = "float" -> Ret(i + 1, <<Node("LiteralFloat", "", <<>>)>>)
      [] OTHER -> Panic

-----------------------------------------------------------------------------
(* The interpreter.  s is the index of the first token of the production.  *)

RECURSIVE step(_, _, _), run(_, _, _), list(_, _, _, _), many(_, _, _, _),
          statements(_, _, _, _, _), postfix(_, _), climbRight(_, _), parseExprClimb(_, _, _)

\* What a production reads from a token on.
sub(name, i) == step(i, i, Sub(name))

Starts(i, item) == CASE item.k = "take" -> Tok(i).type = item.d
                     [] OTHER -> is(i, item.d)

run(i, s, items) ==
    IF items = <<>> THEN Ret(i, <<>>)
    ELSE LET h == step(i, s, Head(items))
         IN  IF Failed(h) THEN h
             ELSE LET t == run(h.at, s, Tail(items))
                  IN  IF Failed(t) THEN t ELSE Ret(t.at, h.nodes \o t.nodes)

list(i, s, item, nodes) ==
    IF is(i, item.close) THEN Ret(i + 1, <<Listed("", nodes)>>)
    ELSE IF item.dots /\ is(i, "...")
    THEN IF is(i + 1, item.close) THEN Ret(i + 2, <<Listed("...", nodes)>>) ELSE Panic
    ELSE LET e == run(i, s, item.items)
         IN  IF Failed(e) THEN e
             ELSE IF is(e.at, item.close) THEN list(e.at, s, item, nodes \o e.nodes)
             ELSE IF is(e.at, ",") THEN list(e.at + 1, s, item, nodes \o e.nodes)
             ELSE Panic

many(i, s, item, nodes) ==
    IF ~is(i, item.d) \/ (item.sameLine /\ Tok(i).line # Tok(s).line) THEN Ret(i, nodes)
    ELSE LET e == run(i + 1, s, item.items)
         IN  IF Failed(e) THEN e ELSE many(e.at, s, item, nodes \o e.nodes)

\* indent is the indent of the line that opens the block, or -1 at the top
\* level, where the lines may be indented in any way.
parseIndent(i, indent, name) ==
    IF indents = <<>> THEN Abort
    ELSE IF indent >= 0 /\ getLineIndent(i) <= indent THEN Panic
    ELSE statements(i, indent, getLineIndent(i), name, <<>>)

\* A nested block may have read the newline already.
statements(i, indent, firstIndent, name, nodes) ==
    IF AtEnd(i) THEN Ret(i, nodes)
    ELSE LET e == sub(name, i)
             all == nodes \o e.nodes
             next == IF is(e.at, "newline") THEN e.at + 1 ELSE e.at
         IN  IF Failed(e) THEN e
             ELSE IF AtEnd(e.at) THEN Ret(e.at, all)
             ELSE IF ~is(next - 1, "newline") THEN Panic
             ELSE IF indent >= 0 /\ getLineIndent(next) <= indent THEN Ret(next, all)
             ELSE IF indent >= 0 /\ getLineIndent(next) # firstIndent THEN Panic
             ELSE statements(next, indent, firstIndent, name, all)

parseBlock(i, indent) ==
    LET b == parseIndent(i, indent, "Expr")
    IN  IF Failed(b) THEN b ELSE Ret(b.at, <<Node("Block", "", b.nodes)>>)

\* Mutant: an expression in the place of a block leaves the newline.
parseBlockExprNoLine(i, indent) ==
    IF is(i, "newline") THEN parseBlock(i + 1, indent) ELSE sub("Expr", i)

parseBlockExpr(i, indent) ==
    IF is(i, "newline") THEN parseBlock(i + 1, indent)
    ELSE LET e == sub("Expr", i)
         IN  IF is(e.at, "newline") THEN Ret(e.at + 1, e.nodes) ELSE e

\* Mutant: an else may belong to an if of another indent.
parseElseAny(i, s) ==
    IF is(i, "else") THEN parseBlockExpr(i + 1, getLineIndent(s)) ELSE Ret(i, <<None>>)

parseElse(i, s) ==
    IF ~is(i, "else") THEN Ret(i, <<None>>)
    ELSE IF getLineIndent(i) # getLineIndent(s) THEN Panic
    ELSE parseBlockExpr(i + 1, getLineIndent(s))

parseFnBody(i, s) ==
    CASE ~is(i, "newline") -> Panic
      [] is(i, "newline") /\ is(i + 1, "llvm") ->
            IF Tok(i + 2).type = "string" THEN Ret(i + 3, <<Node("LLVM", Tok(i + 2).data, <<>>)>>) ELSE Panic
      [] OTHER -> parseBlock(i + 1, getLineIndent(s))

-----------------------------------------------------------------------------
(* Expressions *)

\* External and builtin functions have no body.
parseFnDecl(i) ==
    LET h == run(i, i, FnHead)
        b == IF h.nodes[2] # None \/ h.nodes[3] # None THEN Ret(h.at, <<None>>) ELSE parseFnBody(h.at, i)
    IN  IF Failed(h) THEN h ELSE IF Failed(b) THEN b
        ELSE Ret(b.at, <<Node("FnDecl", "", h.nodes \o b.nodes)>>)

parseTerm(i) ==
    sub(IF is(i, "{") \/ (Tok(i).type = "ident" /\ is(i + 1, "{")) THEN "LiteralStruct" ELSE "Term", i)

\* A member that is called gets the expression as its first argument.
parseMember(i, expr) ==
    IF Tok(i + 1).type # "ident" THEN Panic
    ELSE IF ~isOneOf(i + 2, {"(", ".<"})
    THEN Ret(i + 2, <<Node("Member", "", <<expr, Leaf(Tok(i + 1).data)>>)>>)
    ELSE LET r == run(i + 1, i, <<Sub("Ident"), Sub("Call")>>)
         IN  IF Failed(r) THEN r
             ELSE Ret(r.at, <<Node("Call", "", <<r.nodes[1], Listed("", <<expr>> \o r.nodes[2].c[1].c)>>)>>)

postfix(i, term) ==
    LET r == CASE is(i, "(") -> sub("Call", i) [] is(i, "[") -> sub("Index", i)
               [] is(i, ".") -> parseMember(i, term) [] OTHER -> run(i, i, <<Eat("="), Sub("Expr")>>)
        inner == r.nodes[1]
    IN  CASE ~isOneOf(i, {"(", "[", ".", "="}) -> Ret(i, <<term>>)
          [] Failed(r)  -> r
          [] is(i, ".") -> postfix(r.at, inner)
          [] is(i, "=") -> Ret(r.at, <<Node("Assign", "", <<term, inner>>)>>)
          [] OTHER      -> postfix(r.at, Node(inner.k, "", <<term>> \o inner.c))

Statement == [fn |-> "Fn", var |-> "VarDecl", struct |-> "StructDecl", import |-> "Import",
              if |-> "If", for |-> "For", while |-> "While"]

parsePrimary(i) ==
    CASE isOneOf(i, DOMAIN UnaryOps) ->
            LET r == sub("Primary", i + 1)
            IN  IF Failed(r) THEN r ELSE Ret(r.at, <<lowerUnaryOp(Tok(i).data, r.nodes[1])>>)
      [] isOneOf(i, {"extern", "builtin", "inline"}) \/ (is(i, "fn") /\ Tok(i + 1).type = "ident") ->
            parseFnDecl(i)
      [] isOneOf(i, DOMAIN Statement) /\ ~(is(i, "fn") /\ Tok(i + 1).type = "ident") ->
            sub(Statement[Tok(i).data], i)
      [] OTHER -> LET t == parseTerm(i) IN IF Failed(t) THEN t ELSE postfix(t.at, t.nodes[1])

\* Mutant: an operator of the same priority binds to the right.
BindsRightSame(next, priority) == next >= priority
BindsRight(next, priority) == next > priority

\* The operand on the right, with the operators that bind it more strongly.
climbRight(r, priority) ==
    IF Failed(r) \/ ~BindsRight(OpPriority(r.at), priority) THEN r
    ELSE climbRight(parseExprClimb(r.at, r.nodes[1], OpPriority(r.at)), priority)

parseExprClimb(i, left, limit) ==
    IF OpPriority(i) = 0 \/ OpPriority(i) < limit THEN Ret(i, <<left>>)
    ELSE LET right == climbRight(sub("Primary", i + 1), OpPriority(i))
         IN  IF Failed(right) THEN right
             ELSE parseExprClimb(right.at, lowerBinaryOp(Tok(i).data, left, right.nodes[1]), limit)

-----------------------------------------------------------------------------
(* Rules and items *)

\* The alternative that the next token starts.
parseRule(name, i) ==
    CASE name = "Expr" -> LET left == sub("Primary", i)
                          IN  IF Failed(left) THEN left ELSE parseExprClimb(left.at, left.nodes[1], 0)
      [] name = "Primary" -> parsePrimary(i)
      [] OTHER ->
            LET alts == SelectSeq(Rules[name], LAMBDA a : Starts(i, Head(a.items)))
            IN  IF alts = <<>> THEN Panic
                ELSE IF Head(alts).kind = "Number" THEN parseNumber(i)
                ELSE LET r == run(i, i, Head(alts).items)
                     IN  IF Failed(r) THEN r ELSE Ret(r.at, Build(Head(alts).kind, r.nodes))

step(i, s, item) ==
    CASE item.k = "eat"  -> IF is(i, item.d) THEN Ret(i + 1, <<>>) ELSE Panic
      [] item.k = "take" -> IF Tok(i).type = item.d THEN Ret(i + 1, <<Leaf(Tok(i).data)>>) ELSE Panic
      [] item.k = "flag" -> IF is(i, item.d) THEN Ret(i + 1, <<Leaf(item.d)>>) ELSE Ret(i, <<None>>)
      [] item.k = "opt"  -> IF is(i, item.d) THEN run(i + 1, s, item.items) ELSE Ret(i, item.none)
      [] item.k = "many" -> many(i, s, item, <<>>)
      [] item.k = "list" -> IF is(i, item.d) THEN list(i + 1, s, item, <<>>)
                            ELSE IF item.optional THEN Ret(i, <<Listed("", <<>>)>>) ELSE Panic
      [] item.k = "rule" -> parseRule(item.d, i)
      [] item.k = "indented"  -> parseIndent(i, getLineIndent(s), item.d)
      [] item.k = "blockExpr" -> parseBlockExpr(i, getLineIndent(s))
      [] item.k = "else"      -> parseElse(i, s)
      [] item.k = "module"    -> parseBlock(i, -1)

-----------------------------------------------------------------------------
(* The parser *)

ParseInit ==
    /\ \E corpus \in Corpora : \E s \in corpus : indents = s.lines /\ stream = s.tokens
    /\ parsed = <<>>

\* The module, unless there are no tokens.
parse ==
    /\ parsed = <<>>
    /\ LET b == step(1, 1, Module)
       IN  parsed' = IF Failed(b) THEN <<b>>
                     ELSE IF ~AtEnd(b.at) THEN <<Panic>>
                     ELSE IF stream = <<>> THEN <<b>>
                     ELSE <<Ret(b.at, <<Node("Module", "", b.nodes)>>)>>
    /\ UNCHANGED <<indents, stream>>

Done == parsed # <<>> /\ UNCHANGED parseVars

ParseNext == parse \/ Done
ParseSpec == ParseInit /\ [][ParseNext]_parseVars
=============================================================================
