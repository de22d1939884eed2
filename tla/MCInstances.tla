---------------------------- MODULE MCInstances ----------------------------
(***************************************************************************)
(* Programs of two modules.  The first has a generic function f<T>, a      *)
(* function g that may be generic and may be nested in f, and a function   *)
(* expression in g; the second module imports the first and uses f again.  *)
(* And pools of types and functions, for their names.                      *)
(***************************************************************************)
EXTENDS Instances

Integer == Prim("Integer")
Gen(g) == Type("Generic", g, <<>>)
ArrayOf(t) == Type("Array", "", <<t>>)
Ref(d, tyargs) == [decl |-> d, tyargs |-> tyargs]

\* Type arguments where some generics are visible.
Args(gs) == {Integer} \cup {Gen(g) : g \in gs} \cup {ArrayOf(Gen(g)) : g \in gs}
FRefs(gs) == {Ref("f", <<t>>) : t \in Args(gs)}
GRefs(generic, gs) == IF generic THEN {Ref("g", <<t>>) : t \in Args(gs)} ELSE {Ref("g", <<>>)}

Declaration(name, id, parent, module, tyargs, args, refs, visible) ==
    [name |-> name, id |-> id, parent |-> parent, module |-> module, tyargs |-> tyargs,
     args |-> args, refs |-> refs, visible |-> visible]

Program(nested, generic, fr, gr, hr, r1, r2) ==
    LET outer == IF nested THEN {"T"} ELSE {}
        own   == IF generic THEN {"U"} ELSE {}
    IN  [roots |-> <<"root1", "root2">>,
         decls |->
           [d \in {"f", "g", "h", "root1", "root2"} |->
              CASE d = "f" -> Declaration("1f", "0", "", "1m", <<"T">>, <<Gen("T")>>, fr, {})
                [] d = "g" -> Declaration("1g", "0", IF nested THEN "f" ELSE "", "1m",
                                          IF generic THEN <<"U">> ELSE <<>>,
                                          IF generic THEN <<Gen("U")>> ELSE <<Integer>>, gr, outer)
                [] d = "h" -> Declaration("", "7", "g", "1m", <<>>, <<>>, hr, outer \cup own)
                [] d = "root1" -> Declaration("", "0", "", "1m", <<>>, <<>>, r1, {})
                [] d = "root2" -> Declaration("", "0", "", "1n", <<>>, <<>>, r2, {})]]

ProgramsOf(nested, generic) ==
    LET outer == IF nested THEN {"T"} ELSE {}
        own   == IF generic THEN {"U"} ELSE {}
    IN  {Program(nested, generic, <<a, b>>, <<Ref("h", <<>>), c>>, <<d>>, <<e>>, <<i>>) :
            a \in FRefs({"T"}), b \in GRefs(generic, {"T"}),
            c \in FRefs(outer \cup own) \cup GRefs(generic, outer \cup own),
            d \in FRefs(outer \cup own) \cup GRefs(generic, outer \cup own),
            e \in {Ref("f", <<Integer>>)} \cup (IF nested THEN {} ELSE GRefs(generic, {})),
            i \in {Ref("f", <<Integer>>), Ref("f", <<ArrayOf(Integer)>>)}}

AllPrograms == UNION {ProgramsOf(n, g) : n, g \in BOOLEAN}

-----------------------------------------------------------------------------
(* Small types and functions, and the names they get. *)

NoGenerics == <<>>
Base == {Integer, Prim("String"), Type("Instance", "1P", <<>>)}
Over(ts) ==
    ts \cup {Type(k, "", <<t>>) : k \in {"Array", "Pointer"}, t \in ts}
       \cup {Type("Tuple", "", <<t, u>>) : t, u \in ts}
       \cup {Type("Instance", "1P", <<t>>) : t \in ts}
       \cup {Type("Instance", "1P", <<t, u>>) : t, u \in ts}
       \cup {FnType(as, t, va) : as \in {<<>>} \cup {<<u>> : u \in ts}, t \in ts, va \in BOOLEAN}
Pairs(ts) == {<<t, u>> : t, u \in ts}
TypePool == Over(Base) \cup Over(Over({Integer}) \ {Type("Instance", "1P", <<Integer>>)})

\* Functions: the name, the parent, the type arguments and the type.
Small == {Integer, Type("Instance", "1P", <<>>)}
FnPool(parents) ==
    [name : {"1f", ""}, parent : parents, varargs : BOOLEAN,
     tyargs : {<<>>, <<Integer>>, <<ArrayOf(Integer)>>,
               <<Type("Instance", "1P", <<Integer>>)>>},
     args : {<<>>} \cup {<<t>> : t \in Small} \cup Pairs(Small)]
FnName(f) == mangleFn(f.name, "1", FnType(f.args, Integer, f.varargs), f.tyargs, NoGenerics, f.parent)
Outer(args) == mangleFn("1f", "", FnType(args, Integer, FALSE), <<>>, NoGenerics, mangleModule("1m"))
Fns == FnPool({mangleModule("1m"), mangleModule("1n"), Outer(<<>>), Outer(<<Integer>>)})

\* Names depend on no state; they are compared when code generation starts.
AtStart == unit = 0 /\ pc = "codegen"

\* mangle: codegenType and codegenTypeInfo find what they have made for a type
\* by its name, codegenFunctionDecl a function: different types have different
\* names, and so have functions that differ in name, parent, type arguments or
\* arguments.
NamesApart ==
    AtStart =>
        /\ Cardinality({mangleTypeInfo(t, NoGenerics) : t \in TypePool}) = Cardinality(TypePool)
        /\ Cardinality({FnName(f) : f \in Fns}) = Cardinality(Fns)
=============================================================================
