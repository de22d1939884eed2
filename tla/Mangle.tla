------------------------------- MODULE Mangle -------------------------------
(***************************************************************************)
(* Name mangling (compiler/mangle.cpp).  Code generation identifies a      *)
(* function instance, a structure or a type description by its mangled     *)
(* name alone, so two of them that differ must not have the same name.     *)
(*                                                                         *)
(* A mangled name is a sequence of pieces.  A declared name is one piece:  *)
(* its length stands before it, which keeps it apart from what follows.    *)
(***************************************************************************)
EXTENDS Integers, Sequences, SequencesExt

\* A type: its kind, its name and the types in it.  The children of a function
\* type are its result and its arguments; named "..." it has variable arguments.
Type(kind, name, types) == [k |-> kind, n |-> name, c |-> types]
Prim(kind) == Type(kind, "", <<>>)
FnType(args, ret, varargs) == Type("Function", IF varargs THEN "..." ELSE "", <<ret>> \o args)

mangleName(name) == <<name>>

RECURSIVE mangle(_, _)
mangleAll(types, inst) == FlattenSeq([j \in DOMAIN types |-> mangle(types[j], inst)])

\* A name and its type arguments.
WithArguments(name, types, inst) ==
    IF types = <<>> THEN name ELSE name \o <<"I">> \o mangleAll(types, inst) \o <<"E">>

\* Mutant: a function type is not closed.
FunctionOpen(type, inst) == <<"F">> \o mangleAll(type.c, inst) \o IF type.n = "..." THEN <<"z">> ELSE <<>>

Function(type, inst) == <<"F">> \o mangleAll(type.c, inst)
                        \o (IF type.n = "..." THEN <<"z">> ELSE <<>>) \o <<"E">>

\* inst gives the type that a generic of the current function stands for.
mangle(type, inst) ==
    CASE type.k = "Void" -> <<"v">> [] type.k = "Bool" -> <<"b">>
      [] type.k = "Integer" -> <<"i">> [] type.k = "Float" -> <<"f">>
      [] type.k = "String" -> <<"N", "6string", "E">>
      [] type.k = "Tuple" -> <<"N", "5tuple", "I">> \o mangleAll(type.c, inst) \o <<"E", "E">>
      [] type.k = "Array" -> <<"U", "5array">> \o mangle(type.c[1], inst)
      [] type.k = "Pointer" -> <<"U", "3ptr">> \o mangle(type.c[1], inst)
      [] type.k = "Function" -> Function(type, inst)
      [] type.k = "Generic" -> mangle(inst[type.n], inst)
      [] type.k = "Instance" -> <<"N">> \o WithArguments(mangleName(type.n), type.c, inst) \o <<"E">>

\* A function without a name is numbered.
mangleFnName(name, unnamed, tyargs, inst) ==
    WithArguments(IF name # "" THEN mangleName(name) ELSE <<"Ut", unnamed, "_">>, tyargs, inst)

mangleModule(name) == mangleName(name)

\* The parent is the mangled name of a function, of a module, or empty.
mangleFn(name, unnamed, type, tyargs, inst, parent) ==
    LET fn   == mangleFnName(name, unnamed, tyargs, inst)
        args == Tail(type.c)
    IN  <<"_Z">>
        \o (CASE parent = <<>> -> fn
              [] parent # <<>> /\ parent[1] = "_Z" -> <<"Z">> \o Tail(parent) \o <<"E">> \o fn
              [] OTHER -> <<"N">> \o parent \o fn \o <<"E">>)
        \o (IF tyargs # <<>> THEN mangle(type.c[1], inst) ELSE <<>>)
        \o (IF args = <<>> /\ type.n # "..." THEN <<"v">>
            ELSE mangleAll(args, inst) \o IF type.n = "..." THEN <<"z">> ELSE <<>>)

mangleTypeInfo(type, inst) == <<"_Z", "TI">> \o mangle(type, inst)
=============================================================================
