------------------------------- MODULE Resolve -------------------------------
(***************************************************************************)
(* Name resolution (compiler/resolve.cpp): three name maps with shadowing  *)
(* chains and the visitor that opens scopes, binds declarations, looks     *)
(* names up and restores the maps.                                         *)
(*                                                                         *)
(* The syntax tree is arbitrary: visiting any tree is a well-nested        *)
(* sequence of the steps below, so they are taken in any order that        *)
(* nesting allows.  Only Block, For, FnDecl and TyDecl open a scope; an If *)
(* or While does not, and a VarDecl that is the whole body of one binds in *)
(* the scope around it.  Loops that bind a list of declarations take one   *)
(* step per declaration (pending); nothing else happens meanwhile.         *)
(*                                                                         *)
(* Bindings are never freed before they leave the stack and a live one is  *)
(* at one place of its stack, so that place is its address; 0 is null.     *)
(***************************************************************************)
EXTENDS Naturals, Sequences, FiniteSets

CONSTANTS
    Names,
    Variables, Functions,   \* struct Variable; those of KindFunction
    TyDefs, Generics,       \* what the typedef and generic maps hold
    None,                   \* no value
    MaxDepth,               \* bound: open scopes
    MaxStack,               \* bound: bindings of the three maps together
    MaxDecls                \* bound: declarations of a block, module or function

Maps == {"variables", "typedefs", "generics"}
Values == Variables \cup TyDefs \cup Generics

ASSUME ResolveAssumption ==
    /\ Functions \subseteq Variables
    /\ None \notin Values
    /\ MaxDepth \in Nat /\ MaxStack \in Nat /\ MaxDecls \in Nat

VARIABLES
    pc,         \* "imports", "module", "body", "done"
    data,       \* NameMap::data: the innermost binding of a name
    stack,      \* NameMap::stack: [name, value, shadow]
    scopes,     \* the locals `scope` of the active visitor calls
    functions,  \* ResolveNames::functions
    pending,    \* declarations that the current loop has still to bind
    errors      \* something was unresolved

vars == <<pc, data, stack, scopes, functions, pending, errors>>

ValuesOf == [m \in Maps |-> CASE m = "variables" -> Variables
                              [] m = "typedefs"  -> TyDefs
                              [] m = "generics"  -> Generics]
Binding == [name : Names, value : Values, shadow : Nat]
Decl    == {d \in [map : Maps, name : Names, value : Values] : d.value \in ValuesOf[d.map]}
Scope   == [kind : {"block", "forExpr", "for", "fn", "type"},
            top : [Maps -> Nat]]

TypeOK ==
    /\ pc \in {"imports", "module", "body", "done"}
    /\ data \in [Maps -> [Names -> Nat]]
    /\ stack \in [Maps -> Seq(Binding)]
    /\ scopes \in Seq(Scope)
    /\ functions \in Seq(Functions)
    /\ pending \in Seq(Decl)
    /\ errors \in BOOLEAN

Init ==
    /\ pc = "imports"
    /\ data = [m \in Maps |-> [n \in Names |-> 0]]
    /\ stack = [m \in Maps |-> <<>>]
    /\ scopes = <<>>
    /\ functions = <<>>
    /\ pending = <<>>
    /\ errors = FALSE

-----------------------------------------------------------------------------
(* NameMap *)

find(m, n) == IF data[m][n] = 0 THEN None ELSE stack[m][data[m][n]].value

\* All values of a name, innermost first, along the shadow chain.
findAll(m, n) ==
    LET walk[i \in 0 .. Len(stack[m])] ==
            IF i = 0 THEN <<>>
            ELSE <<stack[m][i].value>> \o walk[stack[m][i].shadow]
    IN  walk[data[m][n]]

\* Mutant: a new binding does not remember what it shadows.
pushForgets(d) ==
    LET s == stack[d.map]
    IN  /\ stack' = [stack EXCEPT ![d.map] =
                        Append(s, [name |-> d.name, value |-> d.value, shadow |-> 0])]
        /\ data' = [data EXCEPT ![d.map][d.name] = Len(s) + 1]

push(d) ==
    LET s == stack[d.map]
    IN  /\ stack' = [stack EXCEPT ![d.map] =
                        Append(s, [name |-> d.name, value |-> d.value,
                                   shadow |-> data[d.map][d.name]])]
        /\ data' = [data EXCEPT ![d.map][d.name] = Len(s) + 1]

\* Mutant: unwinding removes names instead of restoring what they shadowed.
popDataErases(m, offset) ==
    [n \in Names |->
        IF \E i \in offset + 1 .. Len(stack[m]) : stack[m][i].name = n THEN 0 ELSE data[m][n]]

\* Unwinding to an offset leaves, for every name bound above it, the shadow
\* of the lowest such binding.
popData(m, offset) ==
    [n \in Names |->
        LET above == {i \in offset + 1 .. Len(stack[m]) : stack[m][i].name = n}
        IN  IF above = {} THEN data[m][n]
            ELSE stack[m][CHOOSE i \in above : \A j \in above : i <= j].shadow]

top == [m \in Maps |-> Len(stack[m])]

\* ResolveNames::pop
pop(offset) ==
    /\ data' = [m \in Maps |-> popData(m, offset[m])]
    /\ stack' = [m \in Maps |-> SubSeq(stack[m], 1, offset[m])]

-----------------------------------------------------------------------------
(* Looking names up *)

\* Mutant: a function name denotes only the innermost function.
resolveBindingsFirst(targets) == IF targets = <<>> THEN <<>> ELSE <<targets[1]>>

\* resolveBindings: the innermost binding, or every function of the name when
\* the innermost is one.
resolveBindings(targets) ==
    LET functionsOf[k \in 0 .. Len(targets)] ==
            IF k = 0 THEN <<>>
            ELSE IF targets[k] \in Functions THEN Append(functionsOf[k - 1], targets[k])
            ELSE functionsOf[k - 1]
    IN  IF targets = <<>> THEN <<>>
        ELSE IF targets[1] \notin Functions THEN <<targets[1]>>
        ELSE functionsOf[Len(targets)]

Targets(n) == resolveBindings(findAll("variables", n))

\* resolveTypeInstance: a type definition, wherever it is, before a generic.
TypeTarget(n) == IF find("typedefs", n) # None THEN find("typedefs", n)
                 ELSE find("generics", n)

-----------------------------------------------------------------------------
(* The visitor *)

Visiting == pc = "body" /\ pending = <<>>
Bound == Len(stack["variables"]) + Len(stack["typedefs"]) + Len(stack["generics"])
Decls(m) == {d \in Decl : d.map = m}
Locals == {d \in Decls("variables") : d.value \notin Functions}
\* What resolveDecl binds: FnDecl and TyDecl.
Declarations == {d \in Decls("variables") : d.value \in Functions} \cup Decls("typedefs")
DeclLists(S) == UNION {[1 .. k -> S] : k \in {j \in 0 .. MaxDecls : Bound + j <= MaxStack}}

Open(kind) ==
    /\ Len(scopes) < MaxDepth
    /\ scopes' = Append(scopes, [kind |-> kind, top |-> top])

\* One iteration of a loop over declarations (resolveDecl).
Bind ==
    /\ pending # <<>>
    /\ push(Head(pending))
    /\ pending' = Tail(pending)
    /\ UNCHANGED <<pc, scopes, functions, errors>>

\* Module: the declarations of the modules imported automatically, bound
\* outside every scope, and then the body, which is a block.
AutoImports ==
    /\ pc = "imports"
    /\ \E ds \in DeclLists(Declarations) : pending' = ds
    /\ pc' = "module"
    /\ UNCHANGED <<data, stack, scopes, functions, errors>>

\* Block: all functions and types it declares are bound first.
EnterBlock ==
    /\ pending = <<>>
    /\ \/ pc = "module"
       \/ pc = "body"
    /\ pc' = "body"
    /\ Open("block")
    /\ \E ds \in DeclLists(Declarations) : pending' = ds
    /\ UNCHANGED <<data, stack, functions, errors>>

\* Import: the top-level declarations of another module, in the scope that
\* the import stands in.
Import ==
    /\ Visiting
    /\ \E ds \in DeclLists(Declarations) : ds # <<>> /\ pending' = ds
    /\ UNCHANGED <<pc, data, stack, scopes, functions, errors>>

\* For: the range expression is visited before the variables are bound.
EnterFor ==
    /\ Visiting
    /\ Open("forExpr")
    /\ UNCHANGED <<pc, data, stack, functions, pending, errors>>

BindFor ==
    /\ Visiting
    /\ scopes # <<>> /\ scopes[Len(scopes)].kind = "forExpr"
    /\ scopes' = [scopes EXCEPT ![Len(scopes)].kind = "for"]
    /\ \E ds \in DeclLists(Locals) :
          Len(ds) \in 1 .. 2 /\ pending' = ds
    /\ UNCHANGED <<pc, data, stack, functions, errors>>

\* FnDecl: generics, then the signature's types, then arguments and the body.
\* A declaration without body only resolves its signature and changes nothing.
EnterFn(f) ==
    /\ Visiting
    /\ Open("fn")
    /\ \E gs \in DeclLists(Decls("generics")),
          as \in DeclLists(Locals) :
          Bound + Len(gs \o as) <= MaxStack /\ pending' = gs \o as
    /\ functions' = Append(functions, f)
    /\ UNCHANGED <<pc, data, stack, errors>>

\* TyDecl: the generics of a struct, then its field types and initializers.
EnterType ==
    /\ Visiting
    /\ Open("type")
    /\ \E gs \in DeclLists(Decls("generics")) : pending' = gs
    /\ UNCHANGED <<pc, data, stack, functions, errors>>

\* The end of each of them: rs.pop(scope), and functions.pop_back.
Leave ==
    /\ Visiting
    /\ scopes # <<>>
    /\ LET s == scopes[Len(scopes)]
       IN  /\ s.kind # "forExpr"
           /\ pop(s.top)
           /\ functions' = IF s.kind = "fn" THEN SubSeq(functions, 1, Len(functions) - 1)
                           ELSE functions
    /\ scopes' = SubSeq(scopes, 1, Len(scopes) - 1)
    /\ pc' = IF Len(scopes) = 1 THEN "done" ELSE "body"
    /\ UNCHANGED <<pending, errors>>

\* VarDecl, after its initializer was visited.
VarDecl ==
    /\ Visiting
    /\ \E d \in Locals :
          /\ Bound < MaxStack
          /\ push(d)
    /\ UNCHANGED <<pc, scopes, functions, pending, errors>>

\* Ident and the type names of a node; an unresolved one is an error.
Ident(n) ==
    /\ Visiting
    /\ Targets(n) = <<>>
    /\ errors' = TRUE
    /\ UNCHANGED <<pc, data, stack, scopes, functions, pending>>

TypeInstance(n) ==
    /\ Visiting
    /\ TypeTarget(n) = None
    /\ errors' = TRUE
    /\ UNCHANGED <<pc, data, stack, scopes, functions, pending>>

Next ==
    \/ Bind \/ AutoImports \/ EnterBlock \/ Import \/ EnterFor \/ BindFor
    \/ EnterType \/ Leave \/ VarDecl
    \/ \E f \in Functions : EnterFn(f)
    \/ \E n \in Names : Ident(n) \/ TypeInstance(n)

Spec == Init /\ [][Next]_vars

-----------------------------------------------------------------------------
(* Properties *)

\* d is the last place up to k where s binds n, or 0 if there is none.
IsLast(s, k, n, d) ==
    /\ d \in 0 .. k
    /\ d # 0 => s[d].name = n
    /\ \A j \in d + 1 .. k : s[j].name # n

\* The functions being visited are the function scopes that are open, so that
\* the lexical parent of a declaration is the function around it; between
\* declarations nothing of a scope that was left remains.
FnScopes == {k \in 1 .. Len(scopes) : scopes[k].kind = "fn"}
NestingOK ==
    /\ Cardinality(FnScopes) = Len(functions)
    /\ \A k \in 1 .. Len(scopes) : \A m \in Maps :
          scopes[k].top[m] <= (IF k = Len(scopes) THEN Len(stack[m]) ELSE scopes[k + 1].top[m])
    /\ \A i \in 1 .. Len(stack["generics"]) : \E k \in 1 .. Len(scopes) :
          scopes[k].kind \in {"fn", "type"} /\ scopes[k].top["generics"] < i

\* After any sequence of pushes and unwindings the maps lead to the latest
\* live binding of each name, and from each binding to the one it shadows:
\* no lookup meets a binding that was popped or skips one that was not.
NameMapOK ==
    /\ TypeOK /\ NestingOK
    /\ \A m \in Maps :
          /\ \A n \in Names : IsLast(stack[m], Len(stack[m]), n, data[m][n])
          /\ \A i \in 1 .. Len(stack[m]) :
                IsLast(stack[m], i - 1, stack[m][i].name, stack[m][i].shadow)

\* A function name denotes all functions of that name in scope, also those
\* behind a variable that shadows them in between; any other name only its
\* innermost binding; and nothing exactly when nothing of that name is in scope.
VisibleAt(n) == {i \in 1 .. Len(stack["variables"]) : stack["variables"][i].name = n}
TargetsExact ==
    \A n \in Names :
        LET at == VisibleAt(n)
            value(i) == stack["variables"][i].value
            ts == {Targets(n)[k] : k \in 1 .. Len(Targets(n))}
            innermost == CHOOSE i \in at : \A j \in at : j <= i
        IN  IF at = {} THEN ts = {}
            ELSE IF value(innermost) \in Functions
            THEN ts = {value(i) : i \in at} \cap Functions
            ELSE ts = {value(innermost)}

\* The maps implement nested lexical scopes.
Frames ==
    [i \in 1 .. Len(scopes) + 1 |-> [m \in Maps |->
        LET lo == IF i = 1 THEN 0 ELSE scopes[i - 1].top[m]
            hi == IF i > Len(scopes) THEN Len(stack[m]) ELSE scopes[i].top[m]
        IN  [j \in 1 .. hi - lo |-> [name |-> stack[m][lo + j].name,
                                     value |-> stack[m][lo + j].value]]]]
Lexical == INSTANCE LexicalScope WITH
               frames <- Frames,
               bound <- [m \in Maps |-> [n \in Names |-> find(m, n)]]
ImplementsLexicalScope == Lexical!Spec
=============================================================================
