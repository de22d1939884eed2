----------------------------- MODULE MCTypeInfer -----------------------------
(***************************************************************************)
(* Small programs for TypeInfer.  A program is a module with one function  *)
(* whose body is any sequence of a few statements of a pool.               *)
(***************************************************************************)
EXTENDS TypeInfer

CONSTANT Length     \* how many statements a body has

Node(k, ch, vs, ns, ts) == [k |-> k, ch |-> ch, vars |-> vs, names |-> ns, tys |-> ts]
N(k, ch) == Node(k, ch, <<>>, <<>>, <<>>)
Id(v)  == Node("ident", <<>>, <<v>>, <<>>, <<>>)
Ids(vs) == Node("ident", <<>>, vs, <<>>, <<>>)
One    == Node("literal", <<>>, <<>>, <<>>, <<Integer>>)
Yes    == Node("literal", <<>>, <<>>, <<>>, <<Bool>>)
Var(v, e) == Node("vardecl", <<e>>, <<v>>, <<>>, <<>>)
Fun(vs, ch) == Node("fndecl", ch, vs, <<>>, <<>>)
Call(f, args) == N("call", <<f>> \o args)
Same(x, y) == N("array", <<x, y>>)

\* The nodes of a tree by path.
RECURSIVE Flat(_, _)
Flat(p, t) ==
    (p :> [k |-> t.k, n |-> Len(t.ch), vars |-> t.vars, names |-> t.names, tys |-> t.tys])
        @@ FoldLeft(LAMBDA f, i : f @@ Flat(Append(p, i), t.ch[i]), << >>, [i \in DOMAIN t.ch |-> i])

\* g and l are inferred; h returns nothing, p is overloaded, k is generic and
\* declared after its uses, w takes an S and r takes varargs.
S == Struct(1, <<>>)
P(t) == Struct(2, <<t>>)
MCVarType ==
    ("a" :> Unknown(2)) @@ ("b" :> Unknown(3)) @@ ("m" :> Unknown(8))
    @@ ("i" :> Unknown(6)) @@ ("e" :> Unknown(7)) @@ ("c" :> S) @@ ("n" :> Integer)
    @@ ("g" :> Function(<<Unknown(2), Unknown(3)>>, Unknown(4)))
    @@ ("l" :> Function(<<Unknown(8)>>, Unknown(9)))
    @@ ("h" :> Function(<<Unknown(2), Unknown(3)>>, Void))
    @@ ("p1" :> Function(<<Integer>>, Integer)) @@ ("p2" :> Function(<<Bool>>, Bool))
    @@ ("p3" :> Function(<<Integer, Integer>>, Bool))
    @@ ("t" :> Generic(1)) @@ ("k" :> Function(<<Generic(1)>>, Unknown(10)))
    @@ ("w" :> Function(<<S>>, Integer)) @@ ("r" :> VarargFunction(<<Integer>>, Bool))
    @@ ("x" :> Unknown(5)) @@ ("y" :> Unknown(11)) @@ ("z" :> Unknown(12))
MCVarKind == [v \in DOMAIN MCVarType |->
                 IF MCVarType[v].k = "function" THEN "function"
                 ELSE IF v \in {"x", "y", "z"} THEN "variable" ELSE "argument"]
MCVarGenerics == [v \in DOMAIN MCVarType |-> IF v = "k" THEN <<1>> ELSE <<>>]
\* S is {u : int, v : bool = true} and P<T> is {u : T}.
MCDefs == << [generics |-> <<>>, fields |-> <<[name |-> "u", type |-> Integer, init |-> FALSE],
                                              [name |-> "v", type |-> Bool, init |-> TRUE]>>],
             [generics |-> <<2>>, fields |-> <<[name |-> "u", type |-> Generic(2), init |-> FALSE]>>] >>

a == Id("a")
b == Id("b")
Pool == {
    Same(a, b),
    Same(a, One),
    Same(a, N("array", <<b>>)),
    Same(b, N("array", <<a>>)),
    Var("x", N("index", <<a, b>>)),
    N("and", <<a, N("not", <<b>>)>>),
    Same(b, N("new", <<a>>)),
    Var("x", N("deref", <<b>>)),
    N("if", <<Yes, N("index", <<a, One>>), b>>),
    N("if", <<Yes, N("tuple", <<a, b>>), N("tuple", <<b, a>>)>>),
    Call(Id("g"), <<b, a>>),
    Call(a, <<b>>),
    Node("for", <<a, N("block", <<N("block", <<>>)>>)>>, <<"i", "e">>, <<>>, <<>>),
    N("while", <<a, N("if", <<Yes, Call(Id("g"), <<a, b>>)>>)>>),
    b,
    Call(N("fn", <<Fun(<<"l", "m">>, <<Id("m")>>)>>), <<b>>)
}
Program(body) == Flat(<<>>, N("module", <<N("block", <<Fun(<<"g", "a", "b">>, <<N("block", body)>>)>>)>>))
Declares(s) == IF s.k \in {"vardecl", "for"} THEN Range(s.vars)
               ELSE IF s.k = "call" /\ s.ch[1].k = "fn" THEN {"l"} ELSE {}
\* A Variable is declared at one place.
Bodies == {s \in [1 .. Length -> Pool] :
              \A i, j \in 1 .. Length : i # j => Declares(s[i]) \cap Declares(s[j]) = {}}
Inferred == {Program(s) : s \in Bodies}

\* Overloads, generics, structs.

p == Ids(<<"p1", "p2", "p3">>)
Literal(ts, f, e) == Node("struct", e, <<>>, f, ts)
Member(e, f) == Node("member", <<e>>, <<>>, <<f>>, <<>>)
GPool == {
    Same(a, One),
    Same(a, b),
    Var("x", Call(p, <<a>>)),
    Var("y", Call(p, <<Call(p, <<b>>)>>)),
    Call(p, <<a, b>>),
    Var("z", Call(Id("k"), <<a>>)),
    Same(Call(Id("k"), <<Call(Id("k"), <<b>>)>>), Yes),
    Call(Node("ident", <<>>, <<"k">>, <<>>, <<Integer>>), <<b>>),
    Call(Node("ident", <<>>, <<"k">>, <<>>, <<Integer, Bool>>), <<b>>),
    Same(a, Literal(<<S>>, <<"u">>, <<One>>)),
    Same(a, Literal(<<P(Bool)>>, <<"u">>, <<b>>)),
    Call(Id("w"), <<Literal(<<>>, <<"u", "v">>, <<b, a>>)>>),
    Literal(<<S>>, <<"u", "u">>, <<One, One>>),
    Same(b, Member(a, "u")),
    Member(N("tuple", <<a, b>>), "_"),
    Call(Id("r"), <<a, b>>),
    N("assign", <<N("index", <<a, One>>), b>>)
}
Prelude == << Node("import", <<>>, <<>>, <<>>, <<>>), Fun(<<"p1", "n">>, <<>>),
              Fun(<<"w", "c">>, <<N("llvm", <<>>)>>),
              Node("tydecl", <<Yes>>, <<>>, <<>>, <<Bool>>) >>
GProgram(body) ==
    Flat(<<>>, N("module", <<N("block", Prelude \o <<Fun(<<"h", "a", "b">>, <<N("block", body)>>),
                                                     Fun(<<"k", "t">>, <<Id("t")>>)>>)>>))
MCPrograms == Inferred \cup
    {GProgram(s) : s \in {s \in [1 .. Length -> GPool] :
        \A i, j \in 1 .. Length : i # j => Declares(s[i]) \cap Declares(s[j]) = {}}}
=============================================================================
