----------------------------- MODULE MCCodegen -----------------------------
(***************************************************************************)
(* Code generation: the work list of function instances, and the body of   *)
(* one function.  The list does not look into bodies, nor a body into the  *)
(* list, so a behaviour has one of the two: the list with no body, or a    *)
(* body in a compilation that has no modules.                              *)
(***************************************************************************)
EXTENDS MCInstances, MCControlFlow

NoBody ==
    /\ ast = None
    /\ fun = [blocks |-> <<>>] /\ stage = "generate"
    /\ block = 1 /\ prev = 0
    /\ env = <<>> /\ mem = <<>> /\ trace = <<>> /\ ret = Undef

NoModules ==
    /\ program = [decls |-> <<>>, roots |-> <<>>]
    /\ functions = <<>> /\ bodies = {} /\ asked = {}
    /\ pending = <<>> /\ currentFunction = NoFunction /\ todo = <<>>
    /\ unit = 0 /\ entries = <<>>
    /\ pc = "done"

CodegenInit == (Init /\ NoBody) \/ (NoModules /\ BodyInit)

CodegenNext ==
    \/ Begin               /\ UNCHANGED bodyVars
    \/ codegenFunction     /\ UNCHANGED bodyVars
    \/ codegenFunctionDecl /\ UNCHANGED bodyVars
    \/ Stop                /\ UNCHANGED bodyVars
    \/ codegenMain         /\ UNCHANGED bodyVars
    \/ Ended               /\ UNCHANGED bodyVars
    \/ ast # None /\ Generate /\ UNCHANGED vars
    \/ Run                 /\ UNCHANGED vars
    \/ Cut                 /\ UNCHANGED vars
    \/ BodyEnded           /\ UNCHANGED vars

CodegenSpec == CodegenInit /\ [][CodegenNext]_<<vars, bodyVars>>
=============================================================================
