----------------------------- MODULE Instances -----------------------------
(***************************************************************************)
(* What a reference to a function asks for (compiler/codegen.cpp): the     *)
(* instance of a declaration for types and for the instances around it,    *)
(* under its mangled name.  WorkList.tla is the loop that asks.            *)
(***************************************************************************)
EXTENDS WorkList, Mangle, FiniteSets, FiniteSetsExt

CONSTANT MaxDepth   \* bound: the depth of the types of an instance

-----------------------------------------------------------------------------
(* FunctionInstance *)

\* What the generics of an instance, and of those around it, stand for.
RECURSIVE getGenericInstance(_)
getGenericInstance(fn) ==
    IF fn = NoFunction THEN <<>> ELSE fn.generics @@ getGenericInstance(fn.parent)

\* The instance of a declaration that the current function is in.
RECURSIVE getFunctionInstance(_, _)
getFunctionInstance(fn, decl) ==
    IF fn = NoFunction \/ fn.decl = decl THEN fn ELSE getFunctionInstance(fn.parent, decl)

\* Mutant: an array is not built again around its element.
RECURSIVE finalTypeElement(_, _)
finalTypeElement(type, inst) ==
    CASE type.k = "Generic" -> inst[type.n]
      [] type.k = "Array" -> finalTypeElement(type.c[1], inst)
      [] OTHER -> Type(type.k, type.n, FoldLeft(LAMBDA types, t : Append(types, finalTypeElement(t, inst)), <<>>, type.c))

RECURSIVE finalType(_, _)
finalType(type, inst) ==
    IF type.k = "Generic" THEN inst[type.n]
    ELSE Type(type.k, type.n, FoldLeft(LAMBDA types, t : Append(types, finalType(t, inst)), <<>>, type.c))

Final(types, inst) == FoldLeft(LAMBDA fs, t : Append(fs, finalType(t, inst)), <<>>, types)

RECURSIVE Generics(_)
Generics(type) == IF type.k = "Generic" THEN {type.n} ELSE UNION {Generics(t) : t \in ToSet(type.c)}

RECURSIVE Depth(_)
Depth(type) == 1 + Max({0} \cup {Depth(t) : t \in ToSet(type.c)})

\* The generics of a declaration with their types.
Bind(d, types) == FoldLeft(LAMBDA f, j : (d.tyargs[j] :> types[j]) @@ f, <<>>, [j \in DOMAIN types |-> j])

\* The type of a reference: that of the declaration for its type arguments.
TypeOf(d, ref) ==
    LET free == UNION {Generics(t) : t \in ToSet(d.args)}
        all == Bind(d, ref.tyargs) @@ [g \in free |-> Type("Generic", g, <<>>)]
    IN  finalType(FnType(d.args, Prim("Integer"), FALSE), all)

-----------------------------------------------------------------------------
(* The constants of WorkList, for a program p *)

\* Mutant: the functions of the module are not told from those in a function.
NameFlat(d, ref, parent, inst) ==
    mangleFn(d.name, d.id, TypeOf(d, ref), ref.tyargs, inst, mangleModule(d.module))

Name(d, ref, parent, inst) ==
    mangleFn(d.name, d.id, TypeOf(d, ref), ref.tyargs, inst,
             IF parent # NoFunction THEN parent.value ELSE mangleModule(d.module))

\* codegenFunctionDecl: the instance that a reference in the function fn asks for.
InstanceFor(p, fn, ref) ==
    LET d      == p.decls[ref.decl]
        inst   == getGenericInstance(fn)
        parent == getFunctionInstance(fn, d.parent)
    IN  [value |-> Name(d, ref, parent, inst), decl |-> ref.decl, parent |-> parent,
         generics |-> Bind(d, Final(ref.tyargs, inst))]

\* What a reference means: the declaration, and types for all the generics it
\* can see.
MeaningFor(p, fn, ref) ==
    LET inst == getGenericInstance(fn)
    IN  [decl |-> ref.decl, tyargs |-> Final(ref.tyargs, inst),
         outer |-> [g \in DOMAIN inst \cap p.decls[ref.decl].visible |-> inst[g]]]

\* getGenericInstance finds what the types of a reference need.
Instantiated(d, ref, inst) ==
    UNION {Generics(t) : t \in ToSet(ref.tyargs) \cup ToSet(TypeOf(d, ref).c)} \subseteq DOMAIN inst

\* The compiler ends when a generic has no instance, the model at its bound.
OutcomeFor(p, fn, ref) ==
    LET inst == getGenericInstance(fn)
    IN  IF ~Instantiated(p.decls[ref.decl], ref, inst) THEN "ICE"
        ELSE IF \E t \in ToSet(Final(ref.tyargs, inst)) : Depth(t) > MaxDepth THEN "cut"
        ELSE "codegen"

-----------------------------------------------------------------------------
(* Properties *)

\* getGenericInstance finds every generic through the instances around a
\* function, and codegenFunctionDecl finds functions by name alone: references
\* get the same function exactly when they mean the same declaration for the
\* same types, those of the functions around it included, whichever module
\* they are in, and never the entry of a module.
OneFunctionPerMeaning ==
    /\ pc # "ICE" /\ NamesFree
    /\ \A a, b \in asked : a.name = b.name <=> a.meaning = b.meaning

\* The declarations that can be generated.
RECURSIVE Reached(_)
Reached(ds) == LET more == ds \cup {r.decl : r \in UNION {ToSet(Decl(d).refs) : d \in ds}}
               IN  IF more = ds THEN ds ELSE Reached(more)
ReachedRefs == UNION {ToSet(Decl(d).refs) : d \in Reached(ToSet(program.roots))}

\* A type argument passes the generics in it on to a generic; it grows if it
\* is not one of them itself.
Flows == UNION {UNION {{<<g, Decl(r.decl).tyargs[j], r.tyargs[j].k # "Generic">> :
                            g \in Generics(r.tyargs[j])} : j \in DOMAIN r.tyargs} : r \in ReachedRefs}
RECURSIVE FlowsTo(_)
FlowsTo(gs) == LET more == gs \cup {f[2] : f \in {e \in Flows : e[1] \in gs}}
               IN  IF more = gs THEN gs ELSE FlowsTo(more)
Expansive == \E f \in Flows : f[3] /\ f[1] \in FlowsTo({f[2]})

\* The loop over pendingFunctions has no bound of its own.  It runs for ever
\* exactly when a generic of code that is generated flows back into itself
\* inside a larger type (polymorphic recursion).
EndsUnlessExpansive == (pc = "done" => ~Expansive) /\ (pc = "cut" => Expansive)
=============================================================================
