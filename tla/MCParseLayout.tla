--------------------------- MODULE MCParseLayout ---------------------------
(***************************************************************************)
(* A reference for the blocks the parser builds: the tree of lines that    *)
(* indentation stands for.  The sources have any kinds of rows with any    *)
(* indentation.  The k-th row has a name of its own, which tells where it  *)
(* is in the tree.                                                         *)
(***************************************************************************)
EXTENDS SourceRows

MaxRows == 4
Name(k) == <<"r1", "r2", "r3", "r4">>[k]
Kinds == {"stmt", "join", "if", "ifExpr", "else", "elseExpr", "while", "fn"}
RowWords(kind, k) ==
    CASE kind = "stmt" -> W(<<Name(k)>>)
      [] kind = "join" -> W(<<Name(k), "+">>)
      [] kind = "if" -> W(<<"if", Name(k)>>)
      [] kind = "ifExpr" -> W(<<"if", Name(k), "x">>)
      [] kind = "else" -> W(<<"else">>)
      [] kind = "elseExpr" -> W(<<"else", "x">>)
      [] kind = "while" -> W(<<"while", Name(k)>>)
      [] kind = "fn" -> W(<<"var", Name(k), "=", "fn", "(", ")">>)

\* Sources of n rows.  The row behind a joined one is a simple statement, and
\* part of its line.
Layouts(n, kinds) ==
    {l \in [1 .. n -> [kind : kinds, indent : 0 .. 2]] :
        /\ l[n].kind # "join"
        /\ \A k \in 1 .. n - 1 : l[k].kind = "join" => l[k + 1].kind = "stmt"
        /\ l[1].kind \notin {"else", "elseExpr"}}
LaidOut(l) == Source([k \in DOMAIN l |-> Row(l[k].indent, RowWords(l[k].kind, k))])
LayoutSources ==
    {LaidOut(l) : l \in UNION {Layouts(n, Kinds) : n \in 1 .. MaxRows - 1}
                        \cup {m \in Layouts(MaxRows, Kinds \ {"join", "while", "fn"}) : m[1].indent = 0}}

IsLayout == \E j \in DOMAIN stream : stream[j].data = Name(1)

\* The source again as rows: the words of a row are its tokens.
RowTokens(r) == SelectSeq(stream, LAMBDA t : t.line = r - 1 /\ t.type # "line")
Data(r, j) == IF j <= Len(RowTokens(r)) THEN RowTokens(r)[j].data ELSE ""
Begins == {r \in DOMAIN indents : r = 1 \/ Last(RowTokens(r - 1)).type # "atom"}
IsIf(r) == Data(r, 1) = "if"
IsElse(r) == Data(r, 1) = "else"

\* All rows from the one to the other are indented more than the opening row.
Inside(open, from, to) == \A r \in Begins \cap (from .. to) : indents[r] > indents[open]

\* The if an else belongs to has its indent, and only the rows of its block
\* are between them.
OpensIf(r) == IsIf(r) /\ Data(r, 3) = ""
IfOf(e) == {h \in Begins : /\ h < e /\ IsIf(h) /\ indents[h] = indents[e] /\ Inside(h, h + 1, e - 1)
                           /\ OpensIf(h) \/ Begins \cap (h + 1 .. e - 1) = {}}
Paired(e) == IsElse(e) /\ IfOf(e) # {}
Opens(r) == \/ OpensIf(r)
            \/ Data(r, 1) \in {"while", "var"}
            \/ Paired(r) /\ Data(r, 2) = ""
RowName(r) == Data(r, IF Data(r, 1) \in {"if", "while", "var"} THEN 2 ELSE 1)

\* The row whose block a row is in: the last one that opens a block and
\* after which all rows are deeper; 0 at the top level.
ParentRow(r) == Max({0} \cup {h \in Begins : h < r /\ Opens(h) /\ Inside(h, h + 1, r)})
Place(r) == IF r = 0 THEN <<"", "">>
            ELSE IF IsElse(r) THEN <<RowName(CHOOSE h \in IfOf(r) : TRUE), "else">>
            ELSE <<RowName(r), "then">>
Indentation == {<<RowName(r), Place(ParentRow(r))>> : r \in {q \in Begins : ~Paired(q)}}

\* The same of a tree: the name of a statement and the block it is in.
RECURSIVE Nesting(_, _)
StatementName(n) == CASE n.k = "Ident" -> n.c[1].d [] n.k = "Call" -> n.c[2].c[1].c[1].d
                      [] n.k = "VarDecl" -> n.c[1].d [] OTHER -> n.c[1].c[1].d
Under(block, name, part) == IF block.k = "Block" THEN Nesting(block.c, <<name, part>>) ELSE {}
Nesting(nodes, place) ==
    UNION {LET n == nodes[j]
               name == StatementName(n)
           IN  {<<name, place>>} \cup
               CASE n.k = "If" -> Under(n.c[2], name, "then") \cup Under(n.c[3], name, "else")
                 [] n.k = "While" -> Under(n.c[2], name, "then")
                 [] n.k = "VarDecl" -> Under(Last(n.c[3].c), name, "then")
                 [] OTHER -> {} : j \in DOMAIN nodes}

\* parseIndent, parseBlockExpr and parseIf: in an accepted source every
\* statement is in the block that its indentation says, and every else
\* belongs to the if above it.
LayoutFaithful ==
    IsLayout /\ parsed # <<>> /\ ~Failed(parsed[1]) => Nesting(parsed[1].nodes[1].c[1].c, <<"", "">>) = Indentation

\* A source whose blocks are deeper than the rows that open them and aligned,
\* and whose else rows have an if that no other if hides, is accepted.
WellLaid ==
    /\ indents[1] = 0
    /\ \A r \in Begins : Opens(r) => r + 1 \in Begins /\ indents[r + 1] > indents[r]
    /\ \A r, q \in Begins : ParentRow(r) = ParentRow(q) /\ ParentRow(r) # 0 => indents[r] = indents[q]
    /\ \A r \in Begins : IsElse(r) => /\ Paired(r)
                                     /\ \A h \in Begins : IsIf(h) /\ h < r /\ Inside(h, h + 1, r - 1)
                                                           => indents[h] <= indents[r]
WellLaidAccepted == IsLayout /\ parsed # <<>> /\ WellLaid => ~Failed(parsed[1])
=============================================================================
