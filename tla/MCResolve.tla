----------------------------- MODULE MCResolve -----------------------------
(* Model-checking instance of Resolve.                                     *)
EXTENDS Resolve, TLC

\* Names, and the functions bound to them, are compared only for equality.
NameSymmetry == Permutations(Names) \cup Permutations(Functions)
=============================================================================
