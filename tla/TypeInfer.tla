------------------------------ MODULE TypeInfer ------------------------------
(***************************************************************************)
(* Type inference (compiler/typecheck.cpp), the resolution of members      *)
(* (compiler/resolve.cpp) and the fixpoint loop that alternates them       *)
(* (compileModule in compiler/compiler.cpp).                               *)
(*                                                                         *)
(* A program is a function from the paths of its syntax tree to nodes; the *)
(* path of a node's i-th child is its own followed by i.  A node is        *)
(* [k, n, vars, names, tys]: its kind, how many children it has and the    *)
(* variables, field names and types it is written with.  What inference    *)
(* writes into the tree is kept in st:                                     *)
(*   ty    the type of a node (no entry: nullptr)                          *)
(*   var   the type of a Variable                                          *)
(*   tgt   the targets of an Ident              tya  its type arguments    *)
(*   res   the Idents that are resolved                                    *)
(*   fld   the indices of the FieldRefs of a Member or LiteralStruct       *)
(*   con   TypeConstraints::data                rew  rewrites is not 0     *)
(*   on    there are constraints (typeckPropagate, not typeckVerify)       *)
(*   err   Output::errors is not 0              fresh  next Unknown        *)
(*   bad   an assertion failed or rewrite does not return                  *)
(*                                                                         *)
(* The type arguments of a generic struct are always written out: filling  *)
(* omitted ones in place (instantiateType) is left out.                    *)
(***************************************************************************)
EXTENDS Types, SequencesExt, FiniteSetsExt

CONSTANTS
    Programs,       \* the programs to type, after name resolution
    VarKind,        \* Variable::kind: "variable", "function", "argument", "value"
    VarType,        \* the type a Variable is declared with
    VarGenerics,    \* the type parameters of a function
    Defs,           \* the structs: [generics, fields]
    FirstFresh,     \* Unknowns of declarations are below it
    MaxPass         \* bound: rounds of the fixpoint loop

VARIABLES prog, st, pc, pass
vars == <<prog, st, pc, pass>>

Root == <<>>
Paths == DOMAIN prog
OfKind(k) == {p \in Paths : prog[p].k = k}
Kids(p) == [i \in 1 .. prog[p].n |-> Append(p, i)]
Null == Ty("null", 0, <<>>)

Init ==
    /\ prog \in Programs
    /\ st = [ty |-> [p \in {q \in OfKind("struct") : prog[q].tys # <<>>} |-> prog[p].tys[1]],
             var |-> VarType, res |-> {}, con |-> << >>,
             tgt |-> [p \in OfKind("ident") |-> prog[p].vars],
             tya |-> [p \in OfKind("ident") |-> prog[p].tys],
             fld |-> [p \in OfKind("member") \cup OfKind("struct") |->
                         [i \in DOMAIN prog[p].names |-> NoMember]],
             rew |-> FALSE, on |-> TRUE, err |-> FALSE, bad |-> FALSE,
             fresh |-> FirstFresh]
    /\ pc = "propagate"
    /\ pass = 1

-----------------------------------------------------------------------------
(* Constraints and annotations *)

ErrorIf(s, bad) == [s EXCEPT !.err = @ \/ bad]

\* With constraints a type mismatch is only remembered; without, it is an error.
typeMustEqual(s, t, expected) ==
    IF s.on THEN [s EXCEPT !.con = typeUnify(@, t, expected).con]
    ELSE ErrorIf(s, ~typeEquals(t, expected) \/ ~typeKnown(t))

SetType(s, p, t) == [s EXCEPT !.ty = (p :> t) @@ @]
IfUntyped(s, p, t) == IF p \in DOMAIN s.ty THEN s ELSE SetType(s, p, t)
Fresh(s, i) == Unknown(s.fresh + i)
Taken(s, n) == [s EXCEPT !.fresh = @ + n]
FreshIfUntyped(s, p) == Taken(IfUntyped(s, p, Fresh(s, 0)), 1)

-----------------------------------------------------------------------------
(* Overloads *)

isArgumentCountValid(fnty, n) ==
    IF fnty.id = 1 THEN Len(Params(fnty)) <= n ELSE Len(Params(fnty)) = n

\* Mutant: an argument whose type is not known yet excludes a candidate.
isCandidateValidEager(s, target, args) ==
    LET ps == Params(s.var[target])
    IN  Len(args) = Len(ps) /\ \A i \in DOMAIN ps : typeEquals(ps[i], args[i])

isCandidateValid(s, target, args) ==
    LET fnty == s.var[target]
    IN  /\ isArgumentCountValid(fnty, Len(args))
        /\ UnifyFrom(<< >>, Params(fnty), args, 1).ok

reduceCandidates(s, p, args) ==
    LET valid == SelectSeq(s.tgt[p], LAMBDA v : isCandidateValid(s, v, args))
    IN  [s EXCEPT !.tgt[p] = valid, !.rew = @ \/ Len(valid) < Len(s.tgt[p])]

RECURSIVE isAssignable(_, _)
isAssignable(s, p) ==
    LET k == prog[p].k
    IN  \/ k = "ident" /\ Len(s.tgt[p]) = 1 /\ VarKind[s.tgt[p][1]] = "variable"
        \/ k = "member" /\ isAssignable(s, Append(p, 1))
        \/ k \in {"index", "deref"}

-----------------------------------------------------------------------------
(* One operator per handler of type() *)

RECURSIVE type(_, _)

\* What a handler makes of a typed child: its type must equal the expected one.
Expect(s, c, expected) ==
    IF expected = Null THEN s ELSE typeMustEqual(s, s.ty[c], expected)

\* Types the children in order; after the i-th, it must equal expected[i].
TypeEach(s0, p, expected) ==
    FoldLeft(LAMBDA s, i : IF s.bad THEN s
                           ELSE Expect(type(s, Append(p, i)), Append(p, i), expected[i]),
             s0, [i \in 1 .. prog[p].n |-> i])
TypeAll(s, p) == TypeEach(s, p, [i \in 1 .. prog[p].n |-> Null])

typeLiteral(s, p) == IfUntyped(s, p, prog[p].tys[1])

typeLiteralTuple(s, p) ==
    LET n == prog[p].n
        t == Taken(IfUntyped(s, p, Tuple([i \in 1 .. n |-> Fresh(s, i)])), n + 1)
    IN  TypeEach(t, p, t.ty[p].args)

typeLiteralArray(s, p) ==
    LET t == Taken(IfUntyped(s, p, Array(Fresh(s, 0))), 1)
    IN  TypeEach(t, p, [i \in 1 .. prog[p].n |-> t.ty[p].args[1]])

validateLiteralStruct(s, p) ==
    LET t == s.ty[p]
        f == s.fld[p]
    IN  ErrorIf(s, \/ t.k # "struct"
                   \/ ~IsInjective(f)
                   \/ \E i \in DOMAIN Defs[t.id].fields :
                         i - 1 \notin Range(f) /\ ~Defs[t.id].fields[i].init)

typeLiteralStruct(s, p) ==
    LET t == FreshIfUntyped(s, p)
        u == TypeEach(t, p, [i \in 1 .. prog[p].n |->
                                IF s.fld[p][i] = NoMember THEN Null
                                ELSE typeMember(Defs, t.ty[p], s.fld[p][i])])
    IN  IF s.on THEN u ELSE validateLiteralStruct(u, p)

typeIdent(s, p) ==
    LET t == FreshIfUntyped(s, p)
    IN  IF s.on THEN t
        ELSE ErrorIf(t, Len(t.tgt[p]) # 1 \/ \E a \in Range(t.tya[p]) : ~typeKnown(a))

typeMemberExpr(s, p) ==
    LET t == FreshIfUntyped(TypeAll(s, p), p)
    IN  IF t.fld[p][1] # NoMember
        THEN SetType(t, p, typeMember(Defs, t.ty[Append(p, 1)], t.fld[p][1]))
        ELSE ErrorIf(t, ~s.on)

\* typeBlock and typeModule
typeBlock(s, p) ==
    LET t == TypeAll(s, p)
    IN  SetType(t, p, IF prog[p].n = 0 THEN Void ELSE t.ty[Append(p, prog[p].n)])

typeCall(s, p) ==
    LET t    == TypeAll(s, p)
        f    == Append(p, 1)
        kids == Tail(Kids(p))
        args == [i \in DOMAIN kids |-> t.ty[kids[i]]]
        u    == IF t.on /\ prog[f].k = "ident" /\ Len(t.tgt[f]) > 1
                THEN reduceCandidates(t, f, args) ELSE t
        fnty == u.ty[f]
    IN  IF fnty.k = "function"
        THEN LET ps == Params(fnty)
             IN  SetType(IF isArgumentCountValid(fnty, Len(args))
                         THEN FoldLeft(LAMBDA a, i : typeMustEqual(a, args[i], ps[i]),
                                       u, [i \in DOMAIN ps |-> i])
                         ELSE ErrorIf(u, ~u.on),
                         p, Result(fnty))
        ELSE SetType(typeMustEqual(Taken(u, 1), fnty, Function(args, Fresh(u, 0))),
                     p, Fresh(u, 0))

typeUnary(s, p) ==
    LET c == Append(p, 1)
        t == TypeAll(s, p)
        e == t.ty[c]
    IN  CASE prog[p].k = "not" -> SetType(typeMustEqual(t, e, Bool), p, Bool)
          [] prog[p].k = "new" -> SetType(t, p, Pointer(e))
          [] prog[p].k = "deref" ->
                IF e.k = "pointer" THEN SetType(t, p, e.args[1])
                ELSE SetType(typeMustEqual(Taken(t, 1), e, Pointer(Fresh(t, 0))), p, Fresh(t, 0))

typeBinary(s, p) ==
    LET t == TypeAll(s, p)
        u == typeMustEqual(t, t.ty[Append(p, 1)], Bool)
    IN  SetType(typeMustEqual(u, u.ty[Append(p, 2)], Bool), p, Bool)

typeIndex(s, p) ==
    LET t == TypeEach(s, p, <<Null, Integer>>)
        e == t.ty[Append(p, 1)]
    IN  IF e.k = "array" THEN SetType(t, p, e.args[1])
        ELSE SetType(typeMustEqual(Taken(t, 1), e, Array(Fresh(t, 0))), p, Fresh(t, 0))

typeAssign(s, p) ==
    LET t == TypeAll(s, p)
        u == typeMustEqual(t, t.ty[Append(p, 2)], t.ty[Append(p, 1)])
    IN  IfUntyped(ErrorIf(u, ~u.on /\ ~isAssignable(u, Append(p, 1))), p, Void)

typeIf(s, p) ==
    LET then == Append(p, 2)
        else == Append(p, 3)
        t == type(s, Append(p, 1))
        u == type(typeMustEqual(t, t.ty[Append(p, 1)], Bool), then)
        v == IF prog[p].n = 3
             THEN LET w == type(u, else) IN typeMustEqual(w, w.ty[else], w.ty[then])
             ELSE typeMustEqual(u, u.ty[then], Void)
    IN  SetType(v, p, v.ty[then])

typeFor(s, p) ==
    LET t == TypeAll(s, p)
        x == prog[p].vars
        u == typeMustEqual(t, t.ty[Append(p, 1)], Array(t.var[x[1]]))
        v == typeMustEqual(u, u.ty[Append(p, 2)], Void)
    IN  IfUntyped(IF Len(x) = 2 THEN typeMustEqual(v, v.var[x[2]], Integer) ELSE v, p, Void)

typeWhile(s, p) ==
    LET t == TypeAll(s, p)
        u == typeMustEqual(t, t.ty[Append(p, 1)], Bool)
    IN  IfUntyped(typeMustEqual(u, u.ty[Append(p, 2)], Void), p, Void)

typeFn(s, p) ==
    LET t == TypeAll(s, p)
    IN  SetType(t, p, t.var[prog[Append(p, 1)].vars[1]])

\* The value of the body of a function that returns nothing is dropped.
typeFnDecl(s, p) ==
    LET fnty == s.var[prog[p].vars[1]]
        ret  == IF Result(fnty) = Void THEN Null ELSE Result(fnty)
    IN  IfUntyped(IF prog[p].n = 1 THEN TypeEach(s, p, <<ret>>)
                  ELSE ErrorIf(s, ~s.on /\ ~typeKnown(fnty)), p, Void)

typeVarDecl(s, p) == IfUntyped(TypeEach(s, p, <<s.var[prog[p].vars[1]]>>), p, Void)

typeTyDecl(s, p) == IfUntyped(TypeEach(s, p, prog[p].tys), p, Void)

typeImport(s, p) == IfUntyped(s, p, Void)

typeLLVM(s, p) == FreshIfUntyped(s, p)

type(s, p) ==
    CASE prog[p].k = "literal"  -> typeLiteral(s, p)
      [] prog[p].k = "tuple"    -> typeLiteralTuple(s, p)
      [] prog[p].k = "array"    -> typeLiteralArray(s, p)
      [] prog[p].k = "struct"   -> typeLiteralStruct(s, p)
      [] prog[p].k = "ident"    -> typeIdent(s, p)
      [] prog[p].k = "member"   -> typeMemberExpr(s, p)
      [] prog[p].k \in {"block", "module"}    -> typeBlock(s, p)
      [] prog[p].k = "call"     -> typeCall(s, p)
      [] prog[p].k \in {"not", "new", "deref"} -> typeUnary(s, p)
      [] prog[p].k \in {"and", "or"}          -> typeBinary(s, p)
      [] prog[p].k = "index"    -> typeIndex(s, p)
      [] prog[p].k = "assign"   -> typeAssign(s, p)
      [] prog[p].k = "if"       -> typeIf(s, p)
      [] prog[p].k = "for"      -> typeFor(s, p)
      [] prog[p].k = "while"    -> typeWhile(s, p)
      [] prog[p].k = "fn"       -> typeFn(s, p)
      [] prog[p].k = "llvm"     -> typeLLVM(s, p)
      [] prog[p].k = "fndecl"   -> typeFnDecl(s, p)
      [] prog[p].k = "vardecl"  -> typeVarDecl(s, p)
      [] prog[p].k = "tydecl"   -> typeTyDecl(s, p)
      [] prog[p].k = "import"   -> typeImport(s, p)

-----------------------------------------------------------------------------
(* typeckPropagate: type(), then instantiateNode and propagate on all nodes *)

\* visitAstTypes; the Variables are those whose types it visits.
VisitedVars(p) == CASE prog[p].k = "for" -> Range(prog[p].vars)
                    [] prog[p].k \in {"fndecl", "vardecl"} -> {prog[p].vars[1]}
                    [] OTHER -> {}
NodeTypes(s, p) ==
    {s.ty[p]} \cup {s.var[v] : v \in VisitedVars(p)}
              \cup (IF prog[p].k = "ident" THEN Range(s.tya[p]) ELSE {})
              \cup (IF prog[p].k = "tydecl" THEN Range(prog[p].tys) ELSE {})

\* instantiateType, on every type that visitAstTypes reaches.
instantiateType(s) ==
    ErrorIf(s, \E p \in Paths : \E t \in NodeTypes(s, p) :
                    t.k = "struct" /\ Len(t.args) # Len(Defs[t.id].generics))

Resolved(s, p, t) == [SetType(s, p, t) EXCEPT !.res = @ \cup {p}, !.rew = TRUE]

\* An omitted list of type arguments becomes Unknowns; a wrong one is an error.
TypeArguments(s, p, generics) ==
    IF s.tya[p] = <<>>
    THEN Taken([s EXCEPT !.tya[p] = [i \in DOMAIN generics |-> Fresh(s, i)]], Len(generics) + 1)
    ELSE ErrorIf(s, Len(s.tya[p]) # Len(generics))

\* n->tyargs[i] is read for the generics the function type mentions.
Instantiated(s, p, fnty, generics) ==
    LET missing == Len(s.tya[p]) + 1 .. Len(generics)
    IN  IF \E i \in missing : typeOccurs(fnty, Generic(generics[i]))
        THEN [s EXCEPT !.bad = TRUE]
        ELSE Resolved(s, p, typeInstantiate(fnty, generics, s.tya[p]))

\* Mutant: a generic function is instantiated while its type is still inferred.
InstantiateEarly(s, p) ==
    LET v == s.tgt[p][1]
        t == IF VarKind[v] = "function" THEN TypeArguments(s, p, VarGenerics[v]) ELSE s
    IN  IF VarKind[v] = "function" /\ t.tya[p] # <<>>
        THEN Instantiated(t, p, t.var[v], VarGenerics[v])
        ELSE Resolved(t, p, t.var[v])

\* The rest of instantiateNode, for an Ident with one target.
Instantiate(s, p) ==
    LET v == s.tgt[p][1]
        t == IF VarKind[v] = "function" THEN TypeArguments(s, p, VarGenerics[v]) ELSE s
    IN  IF VarKind[v] = "function" /\ t.tya[p] # <<>>
        THEN IF typeKnown(t.var[v]) THEN Instantiated(t, p, t.var[v], VarGenerics[v]) ELSE t
        ELSE Resolved(t, p, t.var[v])

\* Mutant: a resolved Ident is resolved again.
instantiateNodeAgain(s, p) ==
    IF s.bad \/ Len(s.tgt[p]) # 1 THEN s ELSE Instantiate(s, p)

\* instantiateNode, for an Ident; an assertion that fails ends the compiler.
instantiateNode(s, p) ==
    IF s.bad \/ p \in s.res \/ Len(s.tgt[p]) # 1 THEN s ELSE Instantiate(s, p)

\* The nodes and the Variables whose types are rewritten.
Rewritten == {p \in Paths : prog[p].k \in {"tuple", "array", "struct", "ident", "llvm"}}
\* Mutant: the Variables of For are forgotten.
RewrittenVarsNoFor == UNION {Range(prog[p].vars) : p \in OfKind("fndecl") \cup OfKind("vardecl")}

RewrittenVars == UNION {Range(prog[p].vars) : p \in OfKind("for") \cup OfKind("fndecl")
                                                    \cup OfKind("vardecl")}

\* instantiateType and instantiateNode on every node.
instantiate(s) == IF s.bad THEN s
                  ELSE FoldSet(LAMBDA p, r : instantiateNode(r, p), instantiateType(s), OfKind("ident"))

\* propagate on every node: each type is rewritten once.
propagate(s) ==
    LET old == {s.ty[p] : p \in Rewritten} \cup {s.var[v] : v \in RewrittenVars}
                   \cup UNION {Range(s.tya[p]) : p \in OfKind("ident")}
    IN  CASE s.bad -> s
          [] ~s.bad /\ (\E t \in old : Diverges(s.con, t, {})) -> [s EXCEPT !.bad = TRUE]
          [] OTHER ->
             [s EXCEPT
                !.ty  = [p \in DOMAIN @ |-> IF p \in Rewritten THEN rewrite(s.con, @[p]) ELSE @[p]],
                !.var = [v \in DOMAIN @ |-> IF v \in RewrittenVars THEN rewrite(s.con, @[v]) ELSE @[v]],
                !.tya = [p \in DOMAIN @ |-> [i \in DOMAIN @[p] |-> rewrite(s.con, @[p][i])]],
                !.rew = @ \/ \E t \in old : Rewrites(s.con, t)]

typeckPropagate ==
    /\ pc = "propagate"
    /\ st' = propagate(instantiate(type([st EXCEPT !.con = << >>, !.rew = FALSE], Root)))
    /\ pc' = IF st'.bad THEN "crash" ELSE IF st'.err THEN "done" ELSE "members"
    /\ UNCHANGED <<prog, pass>>

-----------------------------------------------------------------------------
(* resolveMembers and the loop *)

\* An index is looked up once, when the type is not Unknown.
resolveFieldRef(index, name, t) ==
    IF index = NoMember /\ ~IsUnknown(t) THEN findMember(Defs, t, name) ELSE index

resolveMembersNode(s, p) ==
    LET t == IF prog[p].k = "member" THEN s.ty[Append(p, 1)] ELSE s.ty[p]
    IN  [i \in DOMAIN s.fld[p] |-> resolveFieldRef(s.fld[p][i], prog[p].names[i], t)]

\* A FieldRef of a type that is known and has no such member is an error.
NoSuchMember(s, fld) ==
    \E p \in DOMAIN fld : /\ \E i \in DOMAIN fld[p] : fld[p][i] = NoMember
                          /\ ~IsUnknown(IF prog[p].k = "member" THEN s.ty[Append(p, 1)] ELSE s.ty[p])

resolveMembers ==
    /\ pc = "members"
    /\ LET fld == [p \in DOMAIN st.fld |-> resolveMembersNode(st, p)]
           fixpoint == ~st.rew /\ fld = st.fld
       IN  /\ st' = ErrorIf([st EXCEPT !.fld = fld], NoSuchMember(st, fld))
           /\ pc' = IF st'.err THEN "done" ELSE IF fixpoint THEN "verify"
                    ELSE IF pass < MaxPass THEN "propagate" ELSE "cut"
           /\ pass' = IF pc' = "propagate" THEN pass + 1 ELSE pass
    /\ UNCHANGED prog

\* No type that visitAstTypes reaches is left open.
verify(s) == ErrorIf(s, \E p \in Paths : \E t \in NodeTypes(s, p) : ~typeKnown(t))

typeckVerify ==
    /\ pc = "verify"
    /\ st' = verify(type([st EXCEPT !.on = FALSE], Root))
    /\ pc' = "done"
    /\ UNCHANGED <<prog, pass>>

Finished == pc \in {"done", "crash", "cut"} /\ UNCHANGED vars

Next == typeckPropagate \/ resolveMembers \/ typeckVerify \/ Finished
Spec == Init /\ [][Next]_vars

-----------------------------------------------------------------------------
(* The reference: what a program means is the set of equations its nodes   *)
(* state, each node with an unknown of its own, solved by unification with *)
(* full substitution and occurs check.                                     *)

NodeVar(p) == Unknown(FoldLeft(LAMBDA a, i : 10 * a + i, 100, p))

\* It is defined for programs without structs, overloads and generics.
Simple ==
    \A p \in Paths : /\ prog[p].k \notin {"struct", "member"}
                     /\ prog[p].k = "ident" => Len(prog[p].vars) = 1
                     /\ \A i \in DOMAIN prog[p].vars : VarGenerics[prog[p].vars[i]] = <<>>

Equations(p) ==
    LET n    == prog[p]
        T    == NodeVar(p)
        C(i) == NodeVar(Append(p, i))
        V(i) == VarType[n.vars[i]]
        all  == [i \in 1 .. n.n |-> C(i)]
    IN  CASE n.k = "literal" -> {<<T, n.tys[1]>>}
          [] n.k = "tuple"   -> {<<T, Tuple(all)>>}
          [] n.k = "array"   -> {<<T, Array(C(i))>> : i \in 1 .. n.n}
          [] n.k = "ident"   -> {<<T, V(1)>>}
          [] n.k = "call"    -> {<<C(1), Function(Tail(all), T)>>}
          [] n.k = "not"     -> {<<T, Bool>>, <<C(1), Bool>>}
          [] n.k = "new"     -> {<<T, Pointer(C(1))>>}
          [] n.k = "deref"   -> {<<C(1), Pointer(T)>>}
          [] n.k \in {"and", "or"} -> {<<T, Bool>>, <<C(1), Bool>>, <<C(2), Bool>>}
          [] n.k = "index"   -> {<<C(1), Array(T)>>, <<C(2), Integer>>}
          [] n.k = "if"      -> {<<C(1), Bool>>, <<T, C(2)>>, <<C(2), IF n.n = 3 THEN C(3) ELSE Void>>}
          [] n.k = "for"     -> {<<T, Void>>, <<C(1), Array(V(1))>>, <<C(2), Void>>}
                                    \cup (IF Len(n.vars) = 2 THEN {<<V(2), Integer>>} ELSE {})
          [] n.k = "while"   -> {<<T, Void>>, <<C(1), Bool>>, <<C(2), Void>>}
          [] n.k = "fn"      -> {<<T, VarType[prog[Append(p, 1)].vars[1]]>>}
          [] n.k = "fndecl"  -> {<<T, Void>>} \cup {<<C(i), Result(V(1))>> : i \in 1 .. n.n}
          [] n.k = "vardecl" -> {<<T, Void>>, <<C(1), V(1)>>}
          [] n.k = "assign"  -> {<<T, Void>>, <<C(2), C(1)>>}
          [] n.k \in {"block", "module"} -> {<<T, IF n.n = 0 THEN Void ELSE C(n.n)>>}
          [] OTHER -> {}

RECURSIVE Subst(_, _), Solve(_)
Subst(sub, t) ==
    IF IsUnknown(t) THEN IF t.id \in DOMAIN sub THEN sub[t.id] ELSE t
    ELSE [t EXCEPT !.args = [i \in DOMAIN t.args |-> Subst(sub, t.args[i])]]

\* The most general solution as a substitution; ok = FALSE when there is none.
Solve(eqs) ==
    IF eqs = {} THEN Outcome(TRUE, << >>)
    ELSE LET e == CHOOSE e \in eqs : TRUE
             rest == eqs \ {e}
             u == IF IsUnknown(e[1]) THEN e[1] ELSE e[2]
             t == IF IsUnknown(e[1]) THEN e[2] ELSE e[1]
         IN  CASE u = t -> Solve(rest)
               [] u # t /\ IsUnknown(u) ->
                    IF typeOccurs(t, u) THEN Outcome(FALSE, << >>)
                    ELSE LET one == u.id :> t
                             sol == Solve({<<Subst(one, q[1]), Subst(one, q[2])>> : q \in rest})
                         IN  Outcome(sol.ok, (u.id :> Subst(sol.con, t)) @@ sol.con)
               [] OTHER ->
                    IF u.k = t.k /\ u.id = t.id /\ Len(u.args) = Len(t.args)
                    THEN Solve(rest \cup {<<u.args[i], t.args[i]>> : i \in DOMAIN u.args})
                    ELSE Outcome(FALSE, << >>)

Solution == Solve(UNION {Equations(p) : p \in Paths})
Known(sol) == /\ \A p \in Paths : typeKnown(Subst(sol, NodeVar(p)))
              /\ \A v \in RewrittenVars : typeKnown(Subst(sol, VarType[v]))

-----------------------------------------------------------------------------
(* Properties *)

\* st has its shape: annotations are on nodes of the program.
TypeOK ==
    /\ pc \in {"propagate", "members", "verify", "done", "crash", "cut"}
    /\ pass \in 1 .. MaxPass
    /\ DOMAIN st.ty \subseteq Paths
    /\ st.res \subseteq OfKind("ident")
    /\ DOMAIN st.var = DOMAIN VarType

\* A function whose result its callers make void: whether its body has to be
\* void too depends on the order in which typeFnDecl sees this.
BodyValueDropped ==
    LET sol == Solve(UNION {Equations(p) : p \in Paths \ OfKind("fndecl")})
    IN  \E p \in OfKind("fndecl") : Subst(sol.con, Result(VarType[prog[p].vars[1]])) = Void

\* compileModule: although constraints are dropped when an Unknown is bound
\* already and a round makes fresh Unknowns, what the loop arrives at is the
\* most general solution: a program is accepted exactly when its equations
\* have a solution that leaves no type open, and then has those types.
InfersTheSolution ==
    /\ TypeOK
    /\ Simple /\ pc = "done" /\ ~BodyValueDropped =>
          LET sol == Solution
          IN  /\ ~st.err <=> (sol.ok /\ Known(sol.con))
              /\ ~st.err => /\ \A p \in Paths : st.ty[p] = Subst(sol.con, NodeVar(p))
                            /\ \A v \in RewrittenVars : st.var[v] = Subst(sol.con, VarType[v])

\* A round that is not the last should resolve an Ident or a FieldRef, drop a
\* candidate or settle an Unknown that a declaration holds.
RoundBound ==
    1 + Cardinality(OfKind("ident")) + Cardinality(DOMAIN st.fld) + Cardinality(RewrittenVars)

\* compileModule: for every program that has a typing rewrite returns (only an
\* infinite type defeats it) and the fixpoint loop ends, within a number of
\* rounds that the size of the program bounds, although every round makes
\* fresh Unknowns.  On an ill-typed one it can go on for ever: where a value is
\* indexed, called or dereferenced that has another type, each round makes a
\* fresh Unknown for the result, and a Variable of unknown type that has to
\* equal it is rewritten in every round.
SolvableEnds == Simple /\ (pc = "crash" \/ pass > RoundBound) => ~Solution.ok

\* instantiateNode and typeMember: at no moment a type parameter of a function
\* occurs outside of the function, although callers are typed while its own type is
\* still being inferred, or one of a struct anywhere, although the types of its
\* fields are taken from the declaration.
Inside(p, q) == Len(q) <= Len(p) /\ SubSeq(p, 1, Len(q)) = q
GenericsStayInside ==
    /\ \A q \in OfKind("fndecl") : \A g \in Range(VarGenerics[prog[q].vars[1]]) :
          /\ \A p \in DOMAIN st.ty : ~Inside(p, q) => ~typeOccurs(st.ty[p], Generic(g))
          /\ \A v \in DOMAIN st.var \ Range(prog[q].vars) : ~typeOccurs(st.var[v], Generic(g))
    /\ \A g \in UNION {Range(Defs[d].generics) : d \in DOMAIN Defs} :
          /\ \A p \in DOMAIN st.ty : ~typeOccurs(st.ty[p], Generic(g))
          /\ \A v \in DOMAIN st.var : ~typeOccurs(st.var[v], Generic(g))

\* reduceCandidates: candidates are dropped while argument types are only
\* partly known, and still, when the loop has ended, every candidate that the
\* argument types then known fit is left, and another one only if it is the
\* last (what its argument types then contradict is reported as a mismatch).
Fits(v, args) == LET ps == Params(st.var[v])
                 IN  Len(ps) = Len(args) /\ \A i \in DOMAIN ps : typeEquals(ps[i], args[i])
OverloadsExact ==
    pc = "verify" =>
        \A p \in OfKind("call") :
            LET f    == Append(p, 1)
                args == [i \in 1 .. prog[p].n - 1 |-> st.ty[Append(p, i + 1)]]
            IN  prog[f].k = "ident" /\ Len(prog[f].vars) > 1 /\ (\A i \in DOMAIN args : typeKnown(args[i]))
                => LET fit == {v \in Range(prog[f].vars) : Fits(v, args)}
                   IN  /\ fit \subseteq Range(st.tgt[f])
                       /\ Len(st.tgt[f]) > 1 => fit = Range(st.tgt[f])
=============================================================================
