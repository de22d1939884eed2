--------------------------- MODULE MCControlFlow ---------------------------
(***************************************************************************)
(* Programs for ControlFlow and what they mean: an evaluator of the syntax *)
(* tree that is given the results of the calls.                            *)
(***************************************************************************)
EXTENDS ControlFlow

-----------------------------------------------------------------------------
(* Programs.  Calls have numbers, so that the trace tells them apart.      *)

Literal(n) == [k |-> "int", value |-> n]
CallOf(e, as) == [k |-> "call", expr |-> e, max |-> 1, args |-> as, base |-> Len(as), varargs |-> FALSE]
Call(f) == CallOf(Literal(f), <<>>)
Array(f) == [Call(f) EXCEPT !.max = 2]
Use(f, e) == CallOf(Literal(f), <<e>>)
Varargs(f, base, as) == [CallOf(Literal(f), as) EXCEPT !.base = base, !.varargs = TRUE]
VoidCall(f, as) == [Varargs(f, 0, as) EXCEPT !.max = 0]
Binary(op, l, r) == [k |-> "binary", op |-> op, left |-> l, right |-> r]
Not(e) == [k |-> "not", expr |-> e]
Index(e, i) == [k |-> "index", expr |-> e, index |-> i]
If(c, t, e) == [k |-> "if", cond |-> c, then |-> t, els |-> e]
While(c, b) == [k |-> "while", expr |-> c, body |-> b]
For(e, b) == [k |-> "for", var |-> "x", index |-> "i", expr |-> e, body |-> b]
Block(es) == [k |-> "block", body |-> es]
Var(x, e) == [k |-> "var", var |-> x, expr |-> e]
Ident(x, kind) == [k |-> "ident", var |-> x, kind |-> kind]
Assign(l, e) == [k |-> "assign", left |-> l, right |-> e]

\* Expressions of the depth that may be conditions ("bool") or anything else; the
\* calls in them have numbers from t on.
RECURSIVE Exprs(_, _, _)
Exprs(type, d, t) ==
    IF d = 0 THEN {Call(t)}
    ELSE LET bools(n) == Exprs("bool", d - 1, 3 * t + n)
             others(n) == Exprs("other", d - 1, 3 * t + n)
             same(n) == Exprs(type, d - 1, 3 * t + n)
         IN  {Call(t)}
             \cup (IF type # "bool" THEN {}
                   ELSE {Binary(op, l, r) : op \in {"and", "or"}, l \in bools(0), r \in bools(1)}
                        \cup {Not(e) : e \in bools(0)})
             \cup {Index(Array(t), e) : e \in others(0)}
             \cup {If(c, e, f) : c \in bools(0), e \in same(1), f \in same(2)}
             \cup {CallOf(c, <<e>>) : c \in others(0), e \in bools(1)}
             \cup {Varargs(t, 1, <<e, f>>) : e \in bools(0), f \in others(1)}

varV == Ident("v", "variable")
loopX == Ident("x", "variable")
loopI == Ident("i", "value")

\* Bodies of loops and branches are void, but for those of an if with an else.
Bodies == {VoidCall(90, <<varV>>), Assign(varV, Call(91)), If(Call(93), Assign(varV, Literal(7)), None),
           Assign(Index(Array(94), Call(95)), Binary("or", Call(96), Call(97))), Var("w", Call(98))}
Valued == {Call(90), Use(92, varV), Literal(7)}
LoopBodies == Bodies \cup {VoidCall(80, <<loopI>>), VoidCall(85, <<loopI, loopX, Use(86, loopX)>>),
                           Block(<<Use(82, loopI), Assign(varV, loopX)>>),
                           If(Use(83, loopI), VoidCall(84, <<loopX>>), None)}
Conditions == {Call(1), Binary("and", Call(1), Call(2))}
Statements ==
    {While(c, b) : c \in Exprs("bool", 1, 1), b \in Bodies}
    \cup {For(Array(50), b) : b \in LoopBodies}
    \cup {For(Array(50), While(Call(51), b)) : b \in LoopBodies}
    \cup {While(Call(51), For(Array(50), b)) : b \in LoopBodies}
    \cup {If(c, b, None) : c \in Exprs("bool", 1, 1), b \in Bodies}
    \cup {If(c, b, d) : c \in Conditions, b, d \in Bodies}
    \cup {If(c, b, d) : c \in Conditions, b, d \in Valued}
Straight == Exprs("bool", 2, 1) \cup {Block(<<Var("v", Literal(0)), s, Use(99, varV)>>) : s \in Statements}

\* Loops over something that is computed in more than one block.
Branching == {For(Index(Array(50), Call(51)), VoidCall(80, <<loopX>>)), For(If(Call(50), Array(51), Array(52)), VoidCall(80, <<loopX>>))}
MCFunctions == Straight \cup Branching

-----------------------------------------------------------------------------
(* What a program means.  s.in: results of calls that are still to come;   *)
(* s.end: "" as long as it goes on, "trap", or "more" when in is used up.  *)

RECURSIVE Eval(_, _), EvalAll(_, _, _), Iterate(_, _, _, _), Repeat(_, _)

Then(s, n) == IF s.end # "" THEN s ELSE Eval(s, n)
EvalAll(s, nodes, values) ==
    IF nodes = <<>> \/ s.end # "" THEN [s |-> s, values |-> values]
    ELSE LET e == Eval(s, Head(nodes)) IN EvalAll(e, Tail(nodes), Append(values, e.v))
Set(s, y, value) == [s EXCEPT !.vars = Put(@, y, value)]
Nothing(s) == [s EXCEPT !.v = Undef]

Iterate(s, n, j, size) ==
    IF j >= size \/ s.end # "" THEN Nothing(s)
    ELSE Iterate(Eval(Set(Set(s, n.var, j), n.index, j), n.body), n, j + 1, size)
Repeat(s, n) == LET c == Then(s, n.expr)
                IN  IF c.end # "" \/ c.v = 0 THEN Nothing(c) ELSE Repeat(Eval(c, n.body), n)

EvalIndex(s, n) == LET e == Eval(s, n.expr)
                       j == Then(e, n.index)
                   IN  IF j.end # "" \/ j.v < e.v THEN j ELSE [j EXCEPT !.end = "trap"]

Eval(s, n) ==
    CASE n.k = "call" ->
            LET c == Eval(s, n.expr)
                e == EvalAll(c, n.args, <<>>)
            IN  IF e.s.end # "" THEN e.s
                ELSE IF e.s.in = <<>> THEN [e.s EXCEPT !.end = "more"]
                ELSE [e.s EXCEPT !.in = Tail(@), !.v = IF n.max = 0 THEN Undef ELSE Head(e.s.in),
                                 !.out = Append(@, [f |-> c.v, args |-> e.values, r |-> Head(e.s.in)])]
      [] n.k = "int" -> [s EXCEPT !.v = n.value]
      [] n.k = "ident" -> [s EXCEPT !.v = s.vars[n.var]]
      [] n.k = "not" -> LET e == Eval(s, n.expr) IN [e EXCEPT !.v = Bool(@ = 0)]
      [] n.k = "binary" -> LET l == Eval(s, n.left)
                           IN  IF (l.v # 0) = (n.op = "and") THEN Then(l, n.right) ELSE l
      [] n.k = "index" -> EvalIndex(s, n)
      [] n.k = "if" -> LET c == Eval(s, n.cond)
                       IN  IF c.end # "" THEN c
                           ELSE IF n.els = None THEN Nothing(IF c.v # 0 THEN Eval(c, n.then) ELSE c)
                           ELSE Eval(c, IF c.v # 0 THEN n.then ELSE n.els)
      [] n.k = "while" -> Repeat(s, n)
      [] n.k = "for" -> LET e == Eval(s, n.expr) IN Iterate(e, n, 0, e.v)
      [] n.k = "var" -> LET e == Eval(s, n.expr) IN Nothing(Set(e, n.var, e.v))
      [] n.k = "assign" ->
            LET l == IF n.left.k = "index" THEN EvalIndex(s, n.left) ELSE s
                e == Then(l, n.right)
            IN  Nothing(IF n.left.k = "index" \/ e.end # "" THEN e ELSE Set(e, n.left.var, e.v))
      [] n.k = "block" -> LET e == EvalAll(s, n.body, <<Undef>>) IN [e.s EXCEPT !.v = Last(e.values)]

Evaluated == Eval([in |-> [j \in DOMAIN trace |-> trace[j].r], out |-> <<>>, vars |-> <<>>,
                   v |-> Undef, end |-> ""], ast)

\* codegenExpr: the function makes the calls that the program asks for, in
\* that order and with those arguments, returns its value and traps when an
\* index is out of bounds.
RunsAsWritten ==
    stage \in {"done", "trap"} /\ ~BranchingLoop =>
        /\ Evaluated.out = trace /\ Evaluated.in = <<>>
        /\ Evaluated.end = IF stage = "trap" THEN "trap" ELSE ""
        /\ stage = "done" => Evaluated.v = ret
=============================================================================
