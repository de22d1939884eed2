----------------------------- MODULE SourceRows -----------------------------
(***************************************************************************)
(* Sources for the parser as rows of words, with the newline tokens that   *)
(* insertNewline of tokenize.cpp puts between them.                        *)
(***************************************************************************)
EXTENDS Parse

Word(d) == [type |-> TypeOf(d), data |-> d]
Number(d) == [type |-> "number", data |-> d]
Text(d) == [type |-> "string", data |-> d]
W(ds) == [j \in DOMAIN ds |-> Word(ds[j])]
Row(indent, words) == [indent |-> indent, words |-> words]

Continues(w) == \/ w.type = "atom" /\ w.data # ">"
                \/ w.type = "bracket" /\ w.data \in {"(", "[", "{"}
Source(rows) ==
    [lines  |-> [r \in DOMAIN rows |-> rows[r].indent],
     tokens |-> FlattenSeq([r \in DOMAIN rows |->
                    LET ws == rows[r].words
                    IN  [j \in 1 .. Len(ws) |-> [type |-> ws[j].type, data |-> ws[j].data, line |-> r - 1]]
                        \o IF r < Len(rows) /\ Continues(Last(ws)) THEN <<>>
                           ELSE <<[type |-> "line", data |-> "newline", line |-> r - 1]>>])]
=============================================================================
