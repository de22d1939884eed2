------------------------------ MODULE WorkList ------------------------------
(***************************************************************************)
(* The work list of code generation (compiler/codegen.cpp).  A reference   *)
(* to a function asks for an instance of its declaration, with types for   *)
(* its generics; an instance that does not exist under its mangled name is *)
(* created and put on the list, and generating its body asks for others.   *)
(* All modules are generated, one after the other, into one LLVM module.   *)
(*                                                                         *)
(* A declaration is what its references need: its name, its lexical        *)
(* parent, its module, its generics, the types of its arguments, and the   *)
(* references in its body.  The root of a module is a function without a   *)
(* name that no other function mentions.                                   *)
(*                                                                         *)
(* The loop does not look into types and names: what a reference asks for  *)
(* is a constant here, which Instances.tla computes.                       *)
(***************************************************************************)
EXTENDS Integers, Sequences, SequencesExt

CONSTANTS
    Programs,           \* [decls |-> [names -> declarations], roots |-> sequence]
    Requested(_, _, _), \* program, current function and reference: the instance asked for,
    Meaning(_, _, _),   \*   what the reference means,
    Outcome(_, _, _)    \*   and "codegen", or how it ends code generation

ASSUME RootsAssumption ==
    \A p \in Programs : /\ p.roots \in Seq(DOMAIN p.decls)
                        /\ \A u, v \in DOMAIN p.roots : p.roots[u] = p.roots[v] => u = v

VARIABLES
    program,
    functions,  \* the functions of the LLVM module: name -> instance
    bodies,     \* the names of those that have a body
    pending,    \* pendingFunctions, a sequence of instances
    currentFunction,
    todo,       \* the references in its body that are still to be generated
    unit,       \* the module that is generated
    entries,    \* what aikeMain calls
    asked,      \* history: what the references mean, and what they got
    pc          \* "codegen", "done", "assert", "ICE" or "cut"

vars == <<program, functions, bodies, pending, currentFunction, todo, unit, entries, asked, pc>>

NoFunction == [decl |-> "none"]
Decl(d) == program.decls[d]

\* An instance; value is the name of its LLVM function.
Entry(p, u) == [value |-> <<p.roots[u], "entry">>, decl |-> p.roots[u],
                parent |-> NoFunction, generics |-> <<>>]

Init ==
    /\ program \in Programs
    /\ functions = <<>> /\ bodies = {} /\ asked = {}
    /\ pending = <<>> /\ currentFunction = NoFunction /\ todo = <<>>
    /\ unit = 0 /\ entries = <<>>
    /\ pc = "codegen"

-----------------------------------------------------------------------------
(* Actions *)

Idle == pc = "codegen" /\ todo = <<>>

\* The LLVM module with one function more.
WithFunction(inst) ==
    [n \in DOMAIN functions \cup {inst.value} |-> IF n = inst.value THEN inst ELSE functions[n]]

\* codegen begins with the entry function of the module.
Begin ==
    /\ Idle /\ pending = <<>> /\ unit < Len(program.roots)
    /\ LET inst == Entry(program, unit + 1)
       IN  /\ functions' = WithFunction(inst)
           /\ pending' = <<inst>>
           /\ entries' = Append(entries, inst.value)
    /\ unit' = unit + 1 /\ currentFunction' = NoFunction
    /\ UNCHANGED <<program, bodies, todo, asked, pc>>

\* The last pending function is taken, and its body is begun.
codegenFunction ==
    /\ Idle /\ pending # <<>>
    /\ LET inst == Last(pending)
       IN  /\ pending' = Front(pending) /\ currentFunction' = inst
           /\ bodies' = bodies \cup {inst.value}
           /\ IF inst.value \in bodies THEN pc' = "assert" /\ UNCHANGED todo
              ELSE todo' = Decl(inst.decl).refs /\ UNCHANGED pc
    /\ UNCHANGED <<program, functions, unit, entries, asked>>

\* Mutant: a function of another module is taken to be pending there.
GetOrCreateLocal(inst) ==
    IF inst.value \in DOMAIN functions THEN UNCHANGED <<functions, pending>>
    ELSE /\ functions' = WithFunction(inst)
         /\ pending' = IF Decl(inst.decl).module = Decl(program.roots[unit]).module
                       THEN Append(pending, inst) ELSE pending

\* The function under a name, created and made pending if there is none.
GetOrCreate(inst) ==
    IF inst.value \in DOMAIN functions THEN UNCHANGED <<functions, pending>>
    ELSE functions' = WithFunction(inst) /\ pending' = Append(pending, inst)

\* codegenIdent and codegenFn, for the next function that the body mentions.
codegenFunctionDecl ==
    /\ pc = "codegen" /\ todo # <<>>
    /\ LET ref  == Head(todo)
           inst == Requested(program, currentFunction, ref)
       IN  /\ Outcome(program, currentFunction, ref) = "codegen"
           /\ GetOrCreate(inst)
           /\ asked' = asked \cup {[meaning |-> Meaning(program, currentFunction, ref), name |-> inst.value]}
    /\ todo' = Tail(todo)
    /\ UNCHANGED <<program, bodies, currentFunction, unit, entries, pc>>

\* The compiler ends when a generic has no instance, the model at its bound.
Stop ==
    /\ pc = "codegen" /\ todo # <<>>
    /\ LET outcome == Outcome(program, currentFunction, Head(todo))
       IN  outcome # "codegen" /\ pc' = outcome
    /\ UNCHANGED <<program, functions, bodies, pending, currentFunction, todo, unit, entries, asked>>

codegenMain ==
    /\ Idle /\ pending = <<>> /\ unit = Len(program.roots)
    /\ pc' = "done"
    /\ UNCHANGED <<program, functions, bodies, pending, currentFunction, todo, unit, entries, asked>>

Ended == pc # "codegen" /\ UNCHANGED vars

Next == Begin \/ codegenFunction \/ codegenFunctionDecl \/ Stop \/ codegenMain \/ Ended
Spec == Init /\ [][Next]_vars

-----------------------------------------------------------------------------
(* Properties *)

TypeOK ==
    /\ bodies \subseteq DOMAIN functions
    /\ ToSet(entries) \subseteq DOMAIN functions
    /\ \A j \in DOMAIN pending : pending[j].value \in DOMAIN functions
    /\ unit \in 0 .. Len(program.roots)
    /\ pc \in {"codegen", "done", "assert", "ICE", "cut"}

\* The mangled name that a reference asks for is not that of an entry function.
NamesFree ==
    todo # <<>> =>
        LET ref == Head(todo)
        IN  \/ Outcome(program, currentFunction, ref) \in {"ICE", "cut"}
            \/ /\ Outcome(program, currentFunction, ref) = "codegen"
               /\ \A u \in DOMAIN program.roots :
                     Requested(program, currentFunction, ref).value # Entry(program, u).value

\* codegenFunction asserts that a function has no body yet.  When code
\* generation ends, every function that is referred to from any module, and
\* every entry that main calls, has a body: what GetOrCreate finds by name was
\* made pending when it was created, by whichever module.
EverythingGenerated ==
    /\ TypeOK
    /\ pc # "assert"
    /\ pc = "done" => {a.name : a \in asked} \cup ToSet(entries) \cup DOMAIN functions = bodies
=============================================================================
