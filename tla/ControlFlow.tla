---------------------------- MODULE ControlFlow ----------------------------
(***************************************************************************)
(* How code generation (compiler/codegen.cpp) turns the expressions of a   *)
(* function into basic blocks: conditions, short circuits, loops, bounds   *)
(* checks, variables and calls.                                            *)
(*                                                                         *)
(* Generate runs the code generator on a program.  The function it makes   *)
(* is then executed block by block; a call of something outside of the     *)
(* function returns any value, and the trace records the calls, what they  *)
(* were given and what they returned.  Values are numbers: a condition     *)
(* holds if it is not 0, n also stands for an array with the elements      *)
(* 0, ..., n - 1, and the value of a function is its number.               *)
(***************************************************************************)
EXTENDS Integers, Sequences, FiniteSets, SequencesExt

CONSTANTS
    Functions,  \* syntax trees
    MaxCalls    \* bound: the calls in a run

VARIABLES
    ast,
    fun,        \* the Function: [blocks, list, at, vars, v, values]
    stage,      \* "generate", "run", "done", "trap" or "cut"
    block, prev, \* the block that runs and the one before it
    env, mem,   \* the values of instructions, and the slots of each allocation
    trace, ret

bodyVars == <<ast, fun, stage, block, prev, env, mem, trace, ret>>

\* Operands: instructions have positive numbers.
Void == 0
Const(k) == -(k + 1)

None == [k |-> "none"]

-----------------------------------------------------------------------------
(* IRBuilder.  at is the insert block, list the blocks the function has,   *)
(* values the number of instructions, v the value of the last expression.  *)
(* to has the targets of a branch, the incoming blocks of a phi, the slots *)
(* of an allocation, the slot a store writes, and for a call the largest   *)
(* value it returns and whether the last arguments are the extra ones.     *)

Instr(op, id, args, to) == [op |-> op, id |-> id, args |-> args, to |-> to]

Create(s, op, args, to) ==
    [s EXCEPT !.values = @ + 1, !.v = s.values + 1,
              !.blocks[s.at] = Append(@, Instr(op, s.values + 1, args, to))]
CreateBr(s, b) == Create(s, "br", <<>>, <<b>>)
CreateCondBr(s, cond, b, c) == Create(s, "condbr", <<cond>>, <<b, c>>)

\* New blocks are not part of the function before they are pushed.
NewBlock(s, n) == Len(s.blocks) + n
NewBlocks(s, n) == [s EXCEPT !.blocks = @ \o [i \in 1 .. n |-> <<>>]]
PushBlock(s, b) == [s EXCEPT !.list = Append(@, b), !.at = b]
SetVoid(s) == [s EXCEPT !.v = Void]

\* Allocations are put in front of the first block.
codegenAlloca(s, slots) ==
    [s EXCEPT !.values = @ + 1, !.v = s.values + 1,
              !.blocks[1] = <<Instr("alloca", s.values + 1, <<>>, <<slots>>)>> \o @]

codegenVariable(s, var, value) == [s EXCEPT !.vars = [x \in DOMAIN @ \cup {var} |->
                                                         IF x = var THEN value ELSE @[x]]]

codegenTrapIf(s, cond) ==
    LET trapbb  == NewBlock(s, 1)
        afterbb == NewBlock(s, 2)
        s1 == CreateCondBr(NewBlocks(s, 2), cond, trapbb, afterbb)
        s2 == Create(PushBlock(s1, trapbb), "unreachable", <<>>, <<>>)
    IN  PushBlock(s2, afterbb)

-----------------------------------------------------------------------------
(* Expressions *)

RECURSIVE codegenExpr(_, _), codegenEach(_, _, _), codegenExtra(_, _, _, _)

\* Expressions one after the other; their values.
codegenEach(s, nodes, values) ==
    IF nodes = <<>> THEN [s |-> s, values |-> values]
    ELSE LET s1 == codegenExpr(s, Head(nodes)) IN codegenEach(s1, Tail(nodes), Append(values, s1.v))

codegenBlock(s, n) == LET e == codegenEach(s, n.body, <<Void>>)
                      IN  [e.s EXCEPT !.v = Last(e.values)]

\* Extra arguments: each is stored in an allocation of its own, and where that is
\* in the next slot of the array.
codegenExtra(s, nodes, array, slot) ==
    IF nodes = <<>> THEN s
    ELSE LET s1 == codegenExpr(s, Head(nodes))
             s2 == codegenAlloca(s1, 1)
             s3 == Create(s2, "store", <<s1.v, s2.v>>, <<1>>)
             s4 == Create(s3, "store", <<s2.v, array>>, <<slot>>)
         IN  codegenExtra(s4, Tail(nodes), array, slot + 1)

\* What is called is evaluated before its arguments, of which a function with
\* varargs gets those beyond its own n.base in an array.  A function that can only
\* return 0 is a void one.
codegenCall(s, n) ==
    LET s1    == codegenExpr(s, n.expr)
        extra == SubSeq(n.args, n.base + 1, Len(n.args))
        sa    == codegenAlloca(s1, Len(extra))
        base  == codegenEach(sa, SubSeq(n.args, 1, n.base), <<s1.v>>)
        sx    == codegenExtra(base.s, extra, sa.v, 1)
        all   == codegenEach(s1, n.args, <<s1.v>>)
        sc == IF n.varargs
              THEN Create(sx, "call", base.values \o <<sa.v, Const(Len(extra))>>, <<n.max, 1>>)
              ELSE Create(all.s, "call", all.values, <<n.max, 0>>)
    IN  IF n.max = 0 THEN SetVoid(sc) ELSE sc

codegenIndex(s, n) ==
    LET s1 == codegenExpr(s, n.expr)
        s2 == codegenExpr(s1, n.index)
        s3 == Create(s2, "uge", <<s2.v, s1.v>>, <<>>)
        s4 == codegenTrapIf(s3, s3.v)
    IN  Create(s4, "element", <<s1.v, s2.v>>, <<>>)

\* Mutant: the value on the right is computed first.
codegenAssignRightFirst(s, n) ==
    LET s1 == codegenExpr(s, n.right)
        s2 == IF n.left.k = "ident" THEN [s1 EXCEPT !.v = s.vars[n.left.var]] ELSE codegenIndex(s1, n.left)
    IN  SetVoid(Create(s2, "store", <<s1.v, s2.v>>, <<1>>))

\* The place on the left is computed, and its bounds are checked, before the
\* value on the right.
codegenAssign(s, n) ==
    LET s1 == IF n.left.k = "ident" THEN [s EXCEPT !.v = s.vars[n.left.var]] ELSE codegenIndex(s, n.left)
        s2 == codegenExpr(s1, n.right)
    IN  SetVoid(Create(s2, "store", <<s2.v, s1.v>>, <<1>>))

codegenNot(s, n) == LET s1 == codegenExpr(s, n.expr) IN Create(s1, "not", <<s1.v>>, <<>>)

\* Mutant: the second operand is taken to end in the block it starts in.
codegenBinaryStale(s, n) ==
    LET s1 == codegenExpr(s, n.left)
        nextbb  == NewBlock(s1, 1)
        afterbb == NewBlock(s1, 2)
        s2 == IF n.op = "and" THEN CreateCondBr(NewBlocks(s1, 2), s1.v, nextbb, afterbb)
              ELSE CreateCondBr(NewBlocks(s1, 2), s1.v, afterbb, nextbb)
        s3 == codegenExpr(PushBlock(s2, nextbb), n.right)
        s4 == PushBlock(CreateBr(s3, afterbb), afterbb)
    IN  Create(s4, "phi", <<s3.v, s1.v>>, <<nextbb, s1.at>>)

codegenBinaryAndOr(s, n) ==
    LET s1 == codegenExpr(s, n.left)
        nextbb  == NewBlock(s1, 1)
        afterbb == NewBlock(s1, 2)
        s2 == IF n.op = "and" THEN CreateCondBr(NewBlocks(s1, 2), s1.v, nextbb, afterbb)
              ELSE CreateCondBr(NewBlocks(s1, 2), s1.v, afterbb, nextbb)
        s3 == codegenExpr(PushBlock(s2, nextbb), n.right)
        s4 == PushBlock(CreateBr(s3, afterbb), afterbb)
    IN  Create(s4, "phi", <<s3.v, s1.v>>, <<s3.at, s1.at>>)

codegenIf(s, n) ==
    LET s1 == codegenExpr(s, n.cond)
        thenbb == NewBlock(s1, 1)
        elsebb == NewBlock(s1, 2)
        endbb  == NewBlock(s1, 3)
        s2 == CreateCondBr(NewBlocks(s1, 3), s1.v, thenbb, elsebb)
        s3 == codegenExpr(PushBlock(s2, thenbb), n.then)
        s4 == PushBlock(CreateBr(s3, endbb), elsebb)
        s5 == codegenExpr(s4, n.els)
        s6 == PushBlock(CreateBr(s5, endbb), endbb)
        \* without an else
        t2 == CreateCondBr(NewBlocks(s1, 2), s1.v, thenbb, elsebb)
        t3 == codegenExpr(PushBlock(t2, thenbb), n.then)
    IN  IF n.els = None THEN SetVoid(PushBlock(CreateBr(t3, elsebb), elsebb))
        ELSE IF s3.v = Void THEN SetVoid(s6)
        ELSE Create(s6, "phi", <<s3.v, s5.v>>, <<s3.at, s5.at>>)

\* entrybb is the block in which the loop starts to be generated.
codegenFor(s, n) ==
    LET loopbb == NewBlock(s, 1)
        endbb  == NewBlock(s, 2)
        s1 == codegenExpr(NewBlocks(s, 2), n.expr)
        s2 == Create(s1, "sgt", <<s1.v, Const(0)>>, <<>>)
        s3 == PushBlock(CreateCondBr(s2, s2.v, loopbb, endbb), loopbb)
        s4 == Create(s3, "phi", <<Const(0)>>, <<s.at>>)
        index == s4.v
        s5 == Create(s4, "gep", <<s1.v, index>>, <<>>)
        s6 == codegenVariable(codegenVariable(s5, n.var, s5.v), n.index, index)
        s7 == codegenExpr(s6, n.body)
        s8 == Create(s7, "add", <<index, Const(1)>>, <<>>)
        s9 == Create(s8, "slt", <<s8.v, s1.v>>, <<>>)
        s10 == CreateCondBr(s9, s9.v, loopbb, endbb)
        s11 == [s10 EXCEPT !.blocks[loopbb][1] =
                  [@ EXCEPT !.args = Append(@, s8.v), !.to = Append(@, s7.at)]]
    IN  SetVoid(PushBlock(s11, endbb))

codegenWhile(s, n) ==
    LET loopbb == NewBlock(s, 1)
        bodybb == NewBlock(s, 2)
        endbb  == NewBlock(s, 3)
        s1 == PushBlock(CreateBr(NewBlocks(s, 3), loopbb), loopbb)
        s2 == codegenExpr(s1, n.expr)
        s3 == PushBlock(CreateCondBr(s2, s2.v, bodybb, endbb), bodybb)
        s4 == codegenExpr(s3, n.body)
    IN  SetVoid(PushBlock(CreateBr(s4, loopbb), endbb))

codegenVarDecl(s, n) ==
    LET s1 == codegenExpr(s, n.expr)
        s2 == codegenAlloca(s1, 1)
        s3 == Create(s2, "store", <<s1.v, s2.v>>, <<1>>)
    IN  SetVoid(codegenVariable(s3, n.var, s2.v))

\* Variables are read from memory, the index of a loop is a value.
codegenIdent(s, n) == IF n.kind = "variable" THEN Create(s, "load", <<s.vars[n.var]>>, <<>>)
                      ELSE [s EXCEPT !.v = s.vars[n.var]]

codegenExpr(s, n) ==
    CASE n.k = "call" -> codegenCall(s, n)     [] n.k = "index" -> codegenIndex(s, n)
      [] n.k = "assign" -> codegenAssign(s, n) [] n.k = "not" -> codegenNot(s, n)
      [] n.k = "binary" -> codegenBinaryAndOr(s, n) [] n.k = "if" -> codegenIf(s, n)
      [] n.k = "for" -> codegenFor(s, n)       [] n.k = "while" -> codegenWhile(s, n)
      [] n.k = "var" -> codegenVarDecl(s, n)   [] n.k = "ident" -> codegenIdent(s, n)
      [] n.k = "block" -> codegenBlock(s, n)   [] n.k = "int" -> [s EXCEPT !.v = Const(n.value)]

codegenFunctionBody(n) ==
    LET s == codegenExpr([blocks |-> <<<<>>>>, list |-> <<1>>, at |-> 1, vars |-> <<>>,
                          values |-> 0, v |-> Void], n)
    IN  Create(s, "ret", <<s.v>>, <<>>)

-----------------------------------------------------------------------------
(* What the function does *)

Terminators == {"br", "condbr", "ret", "unreachable"}
Undef == -1

BodyInit ==
    /\ ast \in Functions
    /\ fun = [blocks |-> <<>>] /\ stage = "generate"
    /\ block = 1 /\ prev = 0
    /\ env = <<>> /\ mem = <<>> /\ trace = <<>> /\ ret = Undef

Generate ==
    /\ stage = "generate" /\ stage' = "run"
    /\ fun' = codegenFunctionBody(ast)
    /\ UNCHANGED <<ast, block, prev, env, mem, trace, ret>>

Value(e, x) == CASE x < 0 -> -x - 1 [] x = Void -> Undef
                 [] OTHER -> IF x \in DOMAIN e THEN e[x] ELSE Undef
Bool(b) == IF b THEN 1 ELSE 0
Put(f, x, y) == [z \in DOMAIN f \cup {x} |-> IF z = x THEN y ELSE f[z]]

\* The value of an instruction: r is what the next call returns.  The address
\* of an element is the element, that of an allocation its name.
Result(i, m, r) ==
    LET a == [j \in DOMAIN i.args |-> Value(m.env, i.args[j])]
    IN  CASE i.op = "call" -> r
          [] i.op = "phi" -> LET j == {k \in DOMAIN i.to : i.to[k] = prev}
                             IN  IF j = {} THEN Undef ELSE a[CHOOSE k \in j : TRUE]
          [] i.op = "not" -> Bool(a[1] = 0)
          [] i.op = "uge" -> Bool(a[1] >= a[2])
          [] i.op = "sgt" -> Bool(a[1] > a[2])
          [] i.op = "slt" -> Bool(a[1] < a[2])
          [] i.op = "add" -> a[1] + a[2]
          [] i.op \in {"gep", "element"} -> a[2]
          [] i.op = "load" -> IF i.args[1] \in DOMAIN m.mem THEN m.mem[i.args[1]][1] ELSE a[1]
          [] i.op = "alloca" -> i.id
          [] OTHER -> Undef

\* What a call gives to its callee, which reads the extra arguments where the
\* array says they are.
Given(i, a, m) ==
    LET n == Len(a) IN
    IF i.to[2] = 0 THEN Tail(a)
    ELSE SubSeq(a, 2, n - 2) \o [j \in 1 .. a[n] |-> m.mem[m.mem[a[n - 1]][j]][1]]

\* One block, with the results of its calls.  What is stored in an element of an
\* array is not read again.
Execute(m, i) ==
    LET r == IF i.op = "call" THEN Head(m.results) ELSE Undef
        a == [j \in DOMAIN i.args |-> Value(m.env, i.args[j])]
    IN  [env |-> IF i.op \in Terminators \cup {"store"} THEN m.env ELSE Put(m.env, i.id, Result(i, m, r)),
         mem |-> CASE i.op = "store" /\ i.args[2] \in DOMAIN m.mem -> [m.mem EXCEPT ![i.args[2]][i.to[1]] = a[1]]
                   [] i.op = "alloca" -> Put(m.mem, i.id, [j \in 1 .. i.to[1] |-> Undef]) [] OTHER -> m.mem,
         trace |-> IF i.op = "call" THEN Append(m.trace, [f |-> a[1], args |-> Given(i, a, m), r |-> r]) ELSE m.trace,
         results |-> IF i.op = "call" THEN Tail(m.results) ELSE m.results]

Calls(b) == SelectSeq(fun.blocks[b], LAMBDA i : i.op = "call")

Run ==
    /\ stage = "run" /\ Len(trace) + Len(Calls(block)) <= MaxCalls
    /\ \E rs \in [DOMAIN Calls(block) -> 0 .. 2] :
        /\ \A c \in DOMAIN rs : rs[c] <= Calls(block)[c].to[1]
        /\ LET m == FoldLeft(Execute, [env |-> env, mem |-> mem, trace |-> trace, results |-> rs],
                             fun.blocks[block])
               t == Last(fun.blocks[block])
           IN  /\ env' = m.env /\ mem' = m.mem /\ trace' = m.trace
               /\ prev' = block
               /\ CASE t.op = "br" -> block' = t.to[1] /\ UNCHANGED <<stage, ret>>
                    [] t.op = "condbr" -> /\ block' = t.to[IF Value(m.env, t.args[1]) # 0 THEN 1 ELSE 2]
                                          /\ UNCHANGED <<stage, ret>>
                    [] t.op = "ret" -> ret' = Value(m.env, t.args[1]) /\ stage' = "done" /\ UNCHANGED block
                    [] OTHER -> stage' = "trap" /\ UNCHANGED <<block, ret>>
    /\ UNCHANGED <<ast, fun>>

Cut ==
    /\ stage = "run" /\ Len(trace) + Len(Calls(block)) > MaxCalls
    /\ stage' = "cut"
    /\ UNCHANGED <<ast, fun, block, prev, env, mem, trace, ret>>

BodyEnded == stage \in {"done", "trap", "cut"} /\ UNCHANGED bodyVars

BodyNext == Generate \/ Run \/ Cut \/ BodyEnded
BodySpec == BodyInit /\ [][BodyNext]_bodyVars

-----------------------------------------------------------------------------
(* Properties *)

Blocks == DOMAIN fun.blocks
Succ(b) == LET t == Last(fun.blocks[b]) IN IF t.op \in {"br", "condbr"} THEN ToSet(t.to) ELSE {}
Pred(b) == {p \in Blocks : b \in Succ(p)}

\* The blocks reached from the entry on paths that avoid a block.
RECURSIVE Avoiding(_, _)
Avoiding(d, bs) == LET more == (bs \cup UNION {Succ(b) : b \in bs}) \ {d}
                   IN  IF more = bs THEN bs ELSE Avoiding(d, more)
Dominates(d, b) == d = b \/ b \notin Avoiding(d, {1} \ {d})

Terminated(b) == LET code == fun.blocks[b]
                 IN  /\ code # <<>>
                     /\ \A j \in DOMAIN code : code[j].op \in Terminators <=> j = Len(code)
PhisRight(b) ==
    \A j \in DOMAIN fun.blocks[b] :
        LET i == fun.blocks[b][j]
        IN  i.op = "phi" => /\ j = 1
                            /\ ToSet(i.to) = Pred(b) /\ Len(i.to) = Cardinality(Pred(b))
DefinedBefore(b) ==
    \A j \in DOMAIN fun.blocks[b], d \in Blocks :
        \A k \in DOMAIN fun.blocks[d], u \in DOMAIN fun.blocks[b][j].args :
            LET i == fun.blocks[b][j]
            IN  fun.blocks[d][k].id = i.args[u] =>
                    IF i.op = "phi" THEN Dominates(d, i.to[u])
                    ELSE IF d = b THEN k < j ELSE Dominates(d, b)

\* The LLVM verifier's rules for a function: every block is part of it and
\* ends with its only terminator, a phi has one value for each predecessor of
\* its block, and a value is defined on every path to its use.
Verified ==
    /\ Len(fun.list) = Len(fun.blocks) /\ ToSet(fun.list) = Blocks
    /\ \A b \in Blocks : Terminated(b)
    /\ \A b \in Blocks : PhisRight(b) /\ DefinedBefore(b)

\* A loop over an expression whose code ends in another block than it starts
\* in: codegenFor names the block before it as the predecessor in its phi.
BranchingLoop == ast.k = "for" /\ ast.expr.k \in {"index", "if"}

\* main (compiler.cpp) asserts that the verifier accepts the module that was
\* generated.
ModuleVerifies == stage # "generate" => Verified

\* That assertion for every function but a BranchingLoop, for which it fails: the
\* blocks that short circuits, bounds checks, branches and loops end in are the
\* ones their phis name, however they are nested.
VerifierAccepts == ~BranchingLoop => ModuleVerifies
=============================================================================
