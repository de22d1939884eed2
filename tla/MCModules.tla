----------------------------- MODULE MCModules -----------------------------
(* Model-checking instances of Modules.                                    *)
EXTENDS Modules

CONSTANTS MaxImports, Kinds, Inputs

\* Module n is imported from file 10 + n.
TwoInputs       == <<11, 13>>
MCPath          == {10 + n : n \in Name} \cup Range(Inputs)
MCModuleName    == [p \in MCPath |-> p % 10]
MCModulePath    == [n \in Name |-> 10 + n]

\* Every file system in which no file has more than MaxImports imports.
ImportLists == UNION {[1 .. m -> Name] : m \in 0 .. MaxImports}
MCFiles == {[kind |-> k, imports |-> <<>>] : k \in Kinds \ {"parsed"}}
           \cup {[kind |-> "parsed", imports |-> s] : s \in ImportLists}
MCDisks == [MCPath -> MCFiles]
MCCommandLines == {SubSeq(Inputs, 1, k) : k \in 0 .. Len(Inputs)}
=============================================================================
