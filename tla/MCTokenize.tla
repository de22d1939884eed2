----------------------------- MODULE MCTokenize -----------------------------
(* A model-checking instance of Tokenize.                                  *)
EXTENDS Tokenize

CONSTANTS
    MaxLen,         \* bound: the length of a source of text
    MaxBrackets     \* bound: the length of a source of brackets

Texts    == {"e", "1", "+", ">", "quote", "apostrophe", "#", " ", "nl", "tab", "?"}
Nestings == {"e"} \cup Bracket

MCChars   == Texts \cup Nestings
MCSources == UNION {[1 .. n -> Texts] : n \in 0 .. MaxLen} \cup
             UNION {[1 .. n -> Nestings] : n \in 0 .. MaxBrackets}
=============================================================================
