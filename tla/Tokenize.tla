------------------------------ MODULE Tokenize ------------------------------
(***************************************************************************)
(* The tokenizer (compiler/tokenize.cpp).  A source is a sequence of       *)
(* characters; of each class of characters that the code tells apart there *)
(* are one or two.  Offsets count from 0, as in the code.                  *)
(*                                                                         *)
(* Each pass is a loop, one turn of which is a step: parseLines builds the *)
(* line table, parseTokens cuts tokens, which tokenize locates,            *)
(* matchBrackets checks the nesting with a stack and insertNewline adds    *)
(* the tokens that end statements.  A panic ends the compilation.          *)
(***************************************************************************)
EXTENDS Integers, Sequences, FiniteSets, SequencesExt

CONSTANTS
    Chars,      \* the characters sources are made of
    Sources     \* the sources to tokenize: sequences of Chars

ASSUME SourcesAssumption == Sources \subseteq Seq(Chars)

Digit       == {"1"}
IdentStart  == {"a", "e", "_"}
Ident       == IdentStart \cup Digit
NumberChar  == Digit \cup {"_", ".", "e", "+"}
Quotes      == {"quote", "apostrophe"}
Space       == {" ", "nl"}
Open        == {"(", "[", "{"}
Bracket     == Open \cup {")", "]", "}"}
Atom        == {"+", ".", "<", ">"}
Known       == Space \cup {"#"} \cup IdentStart \cup Digit \cup Quotes \cup Bracket \cup Atom

VARIABLES
    src, pc,
    lines,      \* Arr<Line>: [indent, offset]
    tokens,     \* Arr<Token>: [type, data, offset, line, column]
    offset,     \* the cursor of parseLines, then of parseTokens
    next,       \* the loop variable of matchBrackets, then of insertNewline
    brackets,   \* the stack of matchBrackets: indices of open brackets
    result      \* what insertNewline has put together

vars == <<src, pc, lines, tokens, offset, next, brackets, result>>

Size == Len(src)
At(o) == src[o + 1]
Slice(a, b) == SubSeq(src, a + 1, b)        \* the characters a, ..., b - 1

Init ==
    /\ src \in Sources
    /\ pc = "lines"
    /\ lines = <<>> /\ tokens = <<>> /\ brackets = <<>> /\ result = <<>>
    /\ offset = 0 /\ next = 1

-----------------------------------------------------------------------------
(* Lines and locations *)

\* Where a run of characters of the class that begins at o ends.
scan(o, class) ==
    CHOOSE e \in o .. Size : /\ \A q \in o .. e - 1 : At(q) \in class
                             /\ e < Size => At(e) \notin class

LineEnd == scan(offset, Chars \ {"nl"})
Indent == scan(offset, {" "}) - offset

\* A line, up to its end; a tab in it is not allowed.
parseLines ==
    /\ pc = "lines" /\ offset < Size
    /\ IF \E o \in offset .. LineEnd - 1 : At(o) = "tab"
       THEN pc' = "panic" /\ UNCHANGED <<lines, offset>>
       ELSE /\ lines' = Append(lines, [indent |-> Indent, offset |-> offset])
            /\ offset' = IF LineEnd < Size THEN LineEnd + 1 ELSE LineEnd
            /\ UNCHANGED pc
    /\ UNCHANGED <<src, tokens, next, brackets, result>>

LinesEnd ==
    /\ pc = "lines" /\ offset >= Size
    /\ pc' = "tokens" /\ offset' = 0
    /\ UNCHANGED <<src, lines, tokens, next, brackets, result>>

\* The last line that does not begin after the offset; lines count from 0.
getLocation(o) ==
    LET line == Cardinality({l \in DOMAIN lines : lines[l].offset <= o})
    IN  [line |-> line - 1, column |-> o - lines[line].offset]

-----------------------------------------------------------------------------
(* Tokens *)

\* tokenize locates a token by its offset.
Token(type, start, from, to) ==
    [type |-> type, data |-> Slice(from, to), offset |-> start,
     line |-> getLocation(start).line, column |-> getLocation(start).column]

Push(type, class) ==
    LET e == scan(offset, class)
    IN  tokens' = Append(tokens, Token(type, offset, offset, e)) /\ offset' = e

Contents == scan(offset + 1, Chars \ {At(offset)})
Quoted == Token(IF At(offset) = "quote" THEN "string" ELSE "character", offset, offset + 1, Contents)

\* Mutant: the cursor stays at the closing quote.
PushStringShort == tokens' = Append(tokens, Quoted) /\ offset' = Contents

\* A string goes on to the next quote of its kind, over line ends, or to the
\* end of the source; the cursor moves behind the quote even if there is none.
PushString == tokens' = Append(tokens, Quoted) /\ offset' = Contents + 1

parseTokens ==
    /\ pc = "tokens" /\ offset < Size
    /\ LET c == At(offset)
       IN  \/ c \in Space /\ offset' = offset + 1 /\ UNCHANGED <<tokens, pc>>
           \/ c = "#" /\ offset' = scan(offset, Chars \ {"nl"}) /\ UNCHANGED <<tokens, pc>>
           \/ c \in IdentStart /\ Push("ident", Ident) /\ UNCHANGED pc
           \/ c \in Digit /\ Push("number", NumberChar) /\ UNCHANGED pc
           \/ c \in Quotes /\ PushString /\ UNCHANGED pc
           \/ c \in Bracket /\ UNCHANGED pc
                /\ tokens' = Append(tokens, Token("bracket", offset, offset, offset + 1))
                /\ offset' = offset + 1
           \/ c \in Atom /\ Push("atom", Atom) /\ UNCHANGED pc
           \/ c \notin Known /\ pc' = "panic" /\ UNCHANGED <<tokens, offset>>
    /\ UNCHANGED <<src, lines, next, brackets, result>>

TokensEnd ==
    /\ pc = "tokens" /\ offset >= Size
    /\ pc' = "brackets"
    /\ UNCHANGED <<src, lines, tokens, offset, next, brackets, result>>

-----------------------------------------------------------------------------
(* Brackets and newlines *)

getClosingBracket(open) == CASE open = "{" -> "}" [] open = "(" -> ")" [] open = "[" -> "]"

\* Mutant: any closing bracket closes.
ClosesAny(o, t) == TRUE

Closes(o, t) == t.data[1] = getClosingBracket(tokens[o].data[1])

matchBrackets ==
    /\ pc = "brackets" /\ next <= Len(tokens)
    /\ LET t == tokens[next]
       IN  IF t.type # "bracket" THEN UNCHANGED <<brackets, pc>>
           ELSE IF t.data[1] \in Open THEN brackets' = Append(brackets, next) /\ UNCHANGED pc
           ELSE IF brackets = <<>> \/ ~Closes(Last(brackets), t)
           THEN pc' = "panic" /\ UNCHANGED brackets
           ELSE brackets' = Front(brackets) /\ UNCHANGED pc
    /\ next' = next + 1
    /\ UNCHANGED <<src, lines, tokens, offset, result>>

MatchEnd ==
    /\ pc = "brackets" /\ next > Len(tokens)
    /\ IF brackets = <<>> THEN pc' = "newlines" /\ next' = 1 ELSE pc' = "panic" /\ UNCHANGED next
    /\ UNCHANGED <<src, lines, tokens, offset, brackets, result>>

\* After an atom other than > and after an opening bracket a line goes on.
continueLine(t) == \/ t.type = "atom" /\ t.data # <<">">>
                   \/ t.type = "bracket" /\ t.data[1] \in Open

getLineToken(t) == [type |-> "line", data |-> <<>>, offset |-> t.offset + Len(t.data),
                    line |-> t.line, column |-> t.column + Len(t.data)]

\* Mutant: a statement ends at every line end.
EndsAtLineEnd(i) == i > 1 /\ tokens[i - 1].line < tokens[i].line

\* Whether a statement ends in front of a token.
EndsStatement(i) == i > 1 /\ tokens[i - 1].line < tokens[i].line /\ ~continueLine(tokens[i - 1])

insertNewline ==
    /\ pc = "newlines" /\ next <= Len(tokens)
    /\ result' = Append(IF EndsStatement(next) THEN Append(result, getLineToken(tokens[next - 1])) ELSE result,
                        tokens[next])
    /\ next' = next + 1
    /\ UNCHANGED <<src, pc, lines, tokens, offset, brackets>>

NewlinesEnd ==
    /\ pc = "newlines" /\ next > Len(tokens)
    /\ tokens' = IF tokens = <<>> THEN result ELSE Append(result, getLineToken(Last(tokens)))
    /\ pc' = "done"
    /\ UNCHANGED <<src, lines, offset, next, brackets, result>>

Finished == pc \in {"done", "panic"} /\ UNCHANGED vars

Next == \/ parseLines \/ LinesEnd \/ parseTokens \/ TokensEnd
        \/ matchBrackets \/ MatchEnd \/ insertNewline \/ NewlinesEnd \/ Finished
Spec == Init /\ [][Next]_vars

-----------------------------------------------------------------------------
(* Properties *)

TypeOK ==
    /\ pc \in {"lines", "tokens", "brackets", "newlines", "done", "panic"}
    /\ offset \in 0 .. Size + 1
    /\ \A i \in DOMAIN brackets : brackets[i] \in DOMAIN tokens

EndOf(t) == IF t.type \notin {"string", "character"} THEN t.offset + Len(t.data)
            ELSE IF t.offset + Len(t.data) + 1 < Size THEN t.offset + Len(t.data) + 2 ELSE Size

\* Characters between tokens: space, or a comment that starts with # and
\* reaches at most to the end of its line.
Skipped(a, b) ==
    \A o \in a .. b - 1 :
        \/ At(o) \in Space
        \/ \E c \in a .. o : At(c) = "#" /\ \A q \in c .. o : At(q) # "nl"

\* The line of a token is the number of line ends before it, and its column the
\* distance from the last of them.
Located(t) ==
    LET ends == {o \in 0 .. t.offset - 1 : At(o) = "nl"}
    IN  /\ t.line = Cardinality(ends)
        /\ t.column = IF ends = {} THEN t.offset ELSE t.offset - Max(ends) - 1

\* A name, a number or an operator is not split in two.
Class(t) == CASE t.type = "ident" -> Ident [] t.type = "number" -> NumberChar
              [] t.type = "atom" -> Atom [] OTHER -> {}
Longest(t) == Class(t) # {} /\ EndOf(t) < Size => At(EndOf(t)) \notin Class(t)

\* parseTokens and tokenize: the tokens are in order and do not overlap (the
\* code asserts start < end and start >= last), and together with space and
\* comments they are the whole source: nothing is lost, split or read twice,
\* and each is located where it is, also behind a string that spans lines.
TokensCoverSource ==
    /\ TypeOK
    /\ pc = "brackets" =>
          LET n == Len(tokens)
          IN  /\ \A i \in 1 .. n - 1 : EndOf(tokens[i]) <= tokens[i + 1].offset
              /\ \A i \in 1 .. n : /\ tokens[i].offset < EndOf(tokens[i])
                                   /\ Longest(tokens[i]) /\ Located(tokens[i])
              /\ \A i \in 0 .. n : Skipped(IF i = 0 THEN 0 ELSE EndOf(tokens[i]),
                                           IF i = n THEN Size ELSE tokens[i + 1].offset)

\* How many more brackets are opened than closed up to a token.
Depth(i) ==
    LET upto == {j \in 1 .. i : tokens[j].type = "bracket"}
    IN  Cardinality({j \in upto : tokens[j].data[1] \in Open})
            - Cardinality({j \in upto : tokens[j].data[1] \notin Open})

\* An open bracket is closed where the depth is first below its own, by a
\* bracket of its kind, and nothing else is closed.
Nested ==
    /\ \A i \in DOMAIN tokens : Depth(i) >= 0
    /\ Depth(Len(tokens)) = 0
    /\ \A i \in DOMAIN tokens :
          tokens[i].type = "bracket" /\ tokens[i].data[1] \in Open =>
              \E j \in i + 1 .. Len(tokens) :
                  /\ Depth(j) < Depth(i) /\ \A k \in i .. j - 1 : Depth(k) >= Depth(i)
                  /\ tokens[j].data[1] = getClosingBracket(tokens[i].data[1])

\* matchBrackets accepts exactly the nested bracket sequences.
BracketsNest ==
    /\ pc = "newlines" => Nested
    /\ pc = "panic" /\ next > 1 => ~Nested

\* insertNewline: a token that ends a statement stands exactly where the next
\* token is on a later line and the one before it does not go on, and at the
\* end.
StatementsEnd ==
    pc = "done" =>
        /\ tokens # <<>> => Last(tokens).type = "line"
        /\ \A i \in 1 .. Len(tokens) - 1 :
              LET t == tokens[i]
                  u == tokens[i + 1]
              IN  /\ t.type = "line" => u.type # "line" /\ u.line > t.line /\ ~continueLine(tokens[i - 1])
                  /\ t.type # "line" /\ u.type # "line" /\ u.line > t.line => continueLine(t)
=============================================================================
