--------------------------- MODULE TokenizeProofs ---------------------------
(***************************************************************************)
(* Proofs about the tokenizer, for every alphabet and any sources: tokens  *)
(* and what is skipped make up the source, each token is located where it  *)
(* stands, exactly the nested bracket sequences are accepted, and          *)
(* statements end where lines do.                                          *)
(*                                                                         *)
(* The invariant has a part for each pass, which says what the pass has    *)
(* done so far, and what is known of the next pass when it is through.     *)
(***************************************************************************)
EXTENDS Tokenize, IntervalFacts, SequenceTheorems

Types == {"ident", "number", "string", "character", "bracket", "atom"}
Tokens == [type : Types \cup {"line"}, data : Seq(Chars), offset : Nat, line : Int, column : Int]

Typed ==
    /\ src \in Seq(Chars)
    /\ pc \in {"lines", "tokens", "brackets", "newlines", "done", "panic"}
    /\ lines \in Seq([indent : Int, offset : Nat])
    /\ tokens \in Seq(Tokens) /\ result \in Seq(Tokens)
    /\ offset \in 0 .. Size + 1
    /\ next \in Nat \ {0}
    /\ brackets \in Seq(1 .. Len(tokens))

-----------------------------------------------------------------------------
(* Sequences and counts *)

LEMMA SeqFacts ==
    ASSUME NEW S, NEW s \in Seq(S)
    PROVE  Len(s) \in Nat /\ DOMAIN s = 1 .. Len(s) /\ \A i \in 1 .. Len(s) : s[i] \in S
OBVIOUS

LEMMA AppendFacts ==
    ASSUME NEW S, NEW s \in Seq(S), NEW e \in S
    PROVE  /\ Append(s, e) \in Seq(S) /\ Len(s) \in Nat /\ Len(Append(s, e)) = Len(s) + 1
           /\ DOMAIN s = 1 .. Len(s) /\ DOMAIN Append(s, e) = 1 .. Len(s) + 1
           /\ \A i \in 1 .. Len(s) : Append(s, e)[i] = s[i]
           /\ Append(s, e)[Len(s) + 1] = e
OBVIOUS

LEMMA Prefix ==
    ASSUME NEW S, NEW s \in Seq(S), NEW k \in Nat, k <= Len(s)
    PROVE  /\ SubSeq(s, 1, k) \in Seq(S) /\ Len(SubSeq(s, 1, k)) = k
           /\ \A i \in 1 .. k : SubSeq(s, 1, k)[i] = s[i]
OBVIOUS

LEMMA FrontFacts ==
    ASSUME NEW S, NEW s \in Seq(S), s # <<>>
    PROVE  /\ Front(s) \in Seq(S) /\ Len(s) \in Nat \ {0} /\ Len(Front(s)) = Len(s) - 1
           /\ \A i \in 1 .. Len(s) - 1 : Front(s)[i] = s[i]
           /\ Last(s) = s[Len(s)] /\ Last(s) \in S
<1>1. Len(s) \in Nat \ {0}
  OBVIOUS
<1>2. /\ SubSeq(s, 1, Len(s) - 1) \in Seq(S) /\ Len(SubSeq(s, 1, Len(s) - 1)) = Len(s) - 1
      /\ \A i \in 1 .. Len(s) - 1 : SubSeq(s, 1, Len(s) - 1)[i] = s[i]
  <2>1. Len(s) - 1 \in Nat /\ Len(s) - 1 <= Len(s)
    BY <1>1
  <2> QED BY <2>1, Prefix
<1>3. s[Len(s)] \in S
  BY <1>1
<1> QED BY <1>1, <1>2, <1>3 DEF Front, Last

\* Counting a set of numbers up to a bound, and up to the next one.
LEMMA CountStep ==
    ASSUME NEW A, NEW n \in Nat
    PROVE  /\ Cardinality(A \cap (1 .. n)) \in Nat
           /\ Cardinality(A \cap (1 .. n + 1)) =
                 Cardinality(A \cap (1 .. n)) + IF n + 1 \in A THEN 1 ELSE 0
<1>1. IsFiniteSet(A \cap (1 .. n))
  <2>1. IsFiniteSet(1 .. n)
    BY 1 \in Int, n \in Int, FS_Interval
  <2>2. A \cap (1 .. n) \in SUBSET (1 .. n)
    OBVIOUS
  <2> QED BY <2>1, <2>2, FS_Subset
<1>2. Cardinality(A \cap (1 .. n)) \in Nat
  BY <1>1, FS_CardinalityType
<1>3. \A x : x \in 1 .. n + 1 <=> x \in 1 .. n \/ x = n + 1
  OBVIOUS
<1>4. n + 1 \notin 1 .. n
  OBVIOUS
<1>5. CASE n + 1 \in A
  <2>1. A \cap (1 .. n + 1) = (A \cap (1 .. n)) \cup {n + 1}
    BY <1>3, <1>5, Zenon
  <2>2. n + 1 \notin A \cap (1 .. n)
    BY <1>4
  <2>3. Cardinality((A \cap (1 .. n)) \cup {n + 1}) = Cardinality(A \cap (1 .. n)) + 1
    BY <1>1, <2>2, FS_AddElement
  <2> QED BY <1>2, <1>5, <2>1, <2>3
<1>6. CASE n + 1 \notin A
  <2>1. A \cap (1 .. n + 1) = A \cap (1 .. n)
    BY <1>3, <1>6, Zenon
  <2> QED BY <1>2, <1>6, <2>1
<1> QED BY <1>5, <1>6

\* scan returns the end of a run.
LEMMA ScanFacts ==
    ASSUME src \in Seq(Chars), NEW o \in 0 .. Size, NEW class
    PROVE  /\ Size \in Nat /\ scan(o, class) \in o .. Size
           /\ \A q \in o .. scan(o, class) - 1 : At(q) \in class
           /\ scan(o, class) < Size => At(scan(o, class)) \notin class
<1>1. Size \in Nat
  BY DEF Size
<1> DEFINE S == {e \in o .. Size : e < Size => At(e) \notin class}
<1>2. S \in SUBSET Nat /\ Size \in S
  BY <1>1
<1>3. PICK e \in S : \A y \in S : e <= y
  <2> HIDE DEF S
  <2> QED BY <1>2, Least
<1>4. \A q \in o .. e - 1 : At(q) \in class
  <2> TAKE q \in o .. e - 1
  <2>1. q \notin S /\ q \in o .. Size /\ q < Size
    <3>1. e \in o .. Size
      BY <1>3
    <3>2. q \in o .. Size /\ q < Size /\ ~ (e <= q)
      BY <1>1, <3>1
    <3> QED BY <1>3, <3>2
  <2> QED BY <2>1
<1> DEFINE P(x) == /\ \A q \in o .. x - 1 : At(q) \in class
                   /\ x < Size => At(x) \notin class
<1>5. \E x \in o .. Size : P(x)
  BY <1>3, <1>4
<1>6. scan(o, class) = CHOOSE x \in o .. Size : P(x)
  BY DEF scan
<1> HIDE DEF S
<1>7. scan(o, class) \in o .. Size /\ P(scan(o, class))
  <2> HIDE DEF P
  <2> QED BY <1>5, <1>6
<1> QED BY <1>1, <1>7

-----------------------------------------------------------------------------
(* The line table *)

Starts(s) == s = 0 \/ At(s - 1) = "nl"

\* The line table has the lines that start before an offset, in order.
LinesUpTo(o) ==
    /\ \A l \in DOMAIN lines : lines[l].offset \in 0 .. o - 1 /\ Starts(lines[l].offset)
    /\ \A s \in 0 .. o - 1 : Starts(s) => \E l \in DOMAIN lines : lines[l].offset = s
    /\ \A l, m \in DOMAIN lines : l < m => lines[l].offset < lines[m].offset

Lined ==
    /\ pc = "lines" => /\ offset <= Size /\ LinesUpTo(offset)
                       /\ offset < Size => Starts(offset)
    /\ pc = "tokens" => LinesUpTo(Size)

\* A set of numbers that has, with each, all those below it.
LEMMA Downward ==
    ASSUME NEW n \in Nat, NEW S \in SUBSET (1 .. n),
           \A x \in S : \A y \in 1 .. n : y < x => y \in S
    PROVE  /\ Cardinality(S) \in 0 .. n /\ S = 1 .. Cardinality(S)
<1> DEFINE k == IF S = {} THEN 0 ELSE Max(S)
<1>1. k \in 0 .. n /\ S = 1 .. k
  <2>1. CASE S = {}
    BY <2>1
  <2>2. CASE S # {}
    <3>1. S \in SUBSET (0 .. n)
      OBVIOUS
    <3>2. Max(S) \in S /\ \A y \in S : y <= Max(S)
      BY <2>2, <3>1, Greatest
    <3> DEFINE m == Max(S)
    <3> HIDE DEF m
    <3>3. m \in S /\ \A y \in S : y <= m
      BY <3>2 DEF m
    <3>4. S = 1 .. m
      <4>1. m \in 1 .. n /\ \A y \in S : y \in 1 .. m
        BY <3>3
      <4>2. ASSUME NEW y \in 1 .. m PROVE y \in S
        <5>1. y \in 1 .. n /\ (y < m \/ y = m)
          BY <4>1
        <5> QED BY <3>3, <5>1
      <4> QED BY <4>1, <4>2
    <3>5. k = m
      BY <2>2 DEF m
    <3> QED BY <3>3, <3>4, <3>5
  <2> QED BY <2>1, <2>2
<1> HIDE DEF k
<1>2. Cardinality(1 .. k) = k
  BY <1>1, 1 \in Int, k \in Int, FS_Interval
<1> QED BY <1>1, <1>2

\* getLocation finds the line and the column of every offset.
LEMMA Location ==
    ASSUME Typed, LinesUpTo(Size), NEW o \in 0 .. Size - 1
    PROVE  LET ends == {p \in 0 .. o - 1 : At(p) = "nl"}
           IN  /\ getLocation(o).line \in Nat /\ getLocation(o).column \in Nat
               /\ getLocation(o).line = Cardinality(ends)
               /\ getLocation(o).column = IF ends = {} THEN o ELSE o - Max(ends) - 1
<1> DEFINE n == Len(lines)
           ends == {p \in 0 .. o - 1 : At(p) = "nl"}
           S == {l \in 1 .. n : lines[l].offset <= o}
           k == Cardinality(S)
           start == lines[k].offset
<1>1. /\ n \in Nat /\ DOMAIN lines = 1 .. n /\ Size \in Nat
      /\ \A l \in 1 .. n : lines[l].offset \in Nat
  <2>1. lines \in Seq([indent : Int, offset : Nat]) /\ src \in Seq(Chars)
    BY DEF Typed
  <2>2. Size \in Nat
    BY <2>1 DEF Size
  <2>3. n \in Nat /\ DOMAIN lines = 1 .. n
        /\ \A l \in 1 .. n : lines[l] \in [indent : Int, offset : Nat]
    BY <2>1, SeqFacts
  <2> HIDE DEF n
  <2> QED BY <2>2, <2>3
<1>2. /\ \A l \in 1 .. n : lines[l].offset \in 0 .. Size - 1 /\ Starts(lines[l].offset)
      /\ \A s \in 0 .. Size - 1 : Starts(s) => \E l \in 1 .. n : lines[l].offset = s
      /\ \A l, m \in 1 .. n : l < m => lines[l].offset < lines[m].offset
  BY <1>1 DEF LinesUpTo
<1>3. k \in 0 .. n /\ S = 1 .. k
  <2>1. S \in SUBSET (1 .. n)
    OBVIOUS
  <2>2. \A x \in S : \A y \in 1 .. n : y < x => y \in S
    BY <1>1, <1>2
  <2> HIDE DEF S, n
  <2> QED BY <1>1, <2>1, <2>2, Downward
<1>4. k \in 1 .. n
  <2>1. PICK l \in 1 .. n : lines[l].offset = 0
    BY <1>1, <1>2 DEF Starts
  <2>2. l \in S
    BY <2>1
  <2> HIDE DEF S, n
  <2> QED BY <1>1, <1>3, <2>2
<1>5. getLocation(o) = [line |-> k - 1, column |-> o - start]
  BY <1>1 DEF getLocation
<1> HIDE DEF k
<1>6. start \in 0 .. o /\ Starts(start) /\ \A s \in start + 1 .. o : ~ Starts(s)
  <2>1. k \in S
    BY <1>3, <1>4
  <2>2. start \in 0 .. o /\ Starts(start)
    BY <1>1, <1>2, <1>4, <2>1
  <2>3. ASSUME NEW s \in start + 1 .. o, Starts(s) PROVE FALSE
    <3> HIDE DEF start, S, n
    <3>0. s \in 0 .. Size - 1
      BY <1>1, <2>2, <2>3
    <3>1. PICK l \in 1 .. n : lines[l].offset = s
      BY <1>2, <2>3, <3>0
    <3>2. l \in S
      BY <2>2, <3>1 DEF S
    <3>3. l \in 1 .. k
      BY <1>3, <3>2
    <3>4. l = k \/ l < k
      BY <1>4, <3>3
    <3>5. lines[l].offset <= lines[k].offset
      BY <1>1, <1>2, <1>4, <3>4
    <3>6. s <= start
      BY <3>1, <3>5 DEF start
    <3> QED BY <2>2, <3>6
  <2> QED BY <2>2, <2>3
<1>7. o - start = IF ends = {} THEN o ELSE o - Max(ends) - 1
  <2> HIDE DEF start
  <2>1. \A p \in ends : p + 1 \in 0 .. o /\ Starts(p + 1) /\ p \in Nat
    BY DEF Starts
  <2>2. \A p \in ends : p + 1 <= start
    BY <1>6, <2>1
  <2>3. CASE start = 0
    <3>1. ends = {}
      BY <2>1, <2>2, <2>3
    <3> QED BY <2>3, <3>1
  <2>4. CASE start # 0
    <3>1. start - 1 \in ends
      BY <1>6, <2>4 DEF Starts
    <3>2. Max(ends) \in ends /\ \A y \in ends : y <= Max(ends)
      <4>1. ends \in SUBSET (0 .. o) /\ ends # {}
        BY <3>1
      <4> HIDE DEF ends
      <4> QED BY <4>1, Greatest
    <3> DEFINE m == Max(ends)
    <3>3. m \in ends /\ \A y \in ends : y <= m
      BY <3>2
    <3> HIDE DEF m
    <3>4. m = start - 1
      <4>1. m \in Nat /\ m + 1 <= start /\ start - 1 <= m
        BY <2>1, <2>2, <3>1, <3>3
      <4> QED BY <1>6, <4>1
    <3>5. ends # {}
      BY <3>1
    <3> HIDE DEF ends
    <3> QED BY <1>6, <3>4, <3>5 DEF m
  <2> QED BY <2>3, <2>4
<1>8. k - 1 = Cardinality(ends)
  <2> DEFINE f == [l \in 1 .. k - 1 |-> lines[l + 1].offset - 1]
  <2>1. ASSUME NEW l \in 1 .. k - 1
        PROVE  f[l] \in ends /\ \A m \in 1 .. k - 1 : f[l] = f[m] => l = m
    <3>1. l + 1 \in 1 .. n /\ l + 1 \in S /\ 1 \in 1 .. n /\ 1 < l + 1
      BY <1>3, <1>4
    <3>2. lines[l + 1].offset <= o /\ lines[1].offset < lines[l + 1].offset
      BY <1>2, <3>1
    <3>3. lines[l + 1].offset \in 1 .. o /\ Starts(lines[l + 1].offset)
      BY <1>1, <1>2, <3>1, <3>2
    <3>4. f[l] \in ends
      BY <3>3 DEF Starts
    <3>5. ASSUME NEW m \in 1 .. k - 1, f[l] = f[m] PROVE l = m
      <4>1. m + 1 \in 1 .. n
        BY <1>3, <1>4
      <4>2. lines[l + 1].offset = lines[m + 1].offset
        BY <1>1, <3>1, <3>5, <4>1
      <4>3. ~ (l + 1 < m + 1) /\ ~ (m + 1 < l + 1)
        BY <1>1, <1>2, <3>1, <4>1, <4>2
      <4> QED BY <4>3
    <3> QED BY <3>4, <3>5
  <2>2. ASSUME NEW p \in ends
        PROVE  \E l \in 1 .. k - 1 : f[l] = p
    <3>1. p + 1 \in 1 .. o /\ Starts(p + 1)
      BY DEF Starts
    <3>2. PICK l \in 1 .. n : lines[l].offset = p + 1
      BY <1>1, <1>2, <3>1
    <3>3. l \in S
      BY <3>1, <3>2
    <3>4. l \in 1 .. k
      BY <1>3, <3>3
    <3>5. l # 1
      <4>1. PICK z \in 1 .. n : lines[z].offset = 0
        BY <1>1, <1>2 DEF Starts
      <4>2. ASSUME 1 < z PROVE FALSE
        <5>1. 1 \in 1 .. n /\ lines[1].offset \in Nat
          BY <1>1, <1>4
        <5>2. lines[1].offset < lines[z].offset
          BY <1>2, <4>1, <4>2, <5>1
        <5> QED BY <4>1, <5>1, <5>2
      <4> QED BY <3>2, <4>1, <4>2
    <3>6. l - 1 \in 1 .. k - 1 /\ (l - 1) + 1 = l
      BY <1>4, <3>4, <3>5
    <3>7. f[l - 1] = p
      BY <3>2, <3>6
    <3> QED BY <3>6, <3>7
  <2> HIDE DEF ends
  <2>3. f \in Bijection(1 .. k - 1, ends)
    <3>1. f \in [1 .. k - 1 -> ends]
      BY <2>1
    <3> HIDE DEF f
    <3>2. f \in Injection(1 .. k - 1, ends)
      BY <2>1, <3>1 DEF Injection, IsInjective
    <3>3. f \in Surjection(1 .. k - 1, ends)
      BY <2>2, <3>1 DEF Surjection
    <3> QED BY <3>2, <3>3 DEF Bijection
  <2>4. IsFiniteSet(1 .. k - 1) /\ Cardinality(1 .. k - 1) = k - 1
    <3>1. k - 1 \in Nat
      BY <1>4
    <3> QED BY <3>1, 1 \in Int, k - 1 \in Int, FS_Interval
  <2> HIDE DEF f
  <2> QED BY <2>3, <2>4, FS_Bijection DEF ExistsBijection
<1>9. k - 1 \in Nat /\ o - start \in Nat
  <2> HIDE DEF start
  <2> QED BY <1>4, <1>6
<1> QED BY <1>5, <1>7, <1>8, <1>9

-----------------------------------------------------------------------------
(* The tokens *)

\* How far parseTokens has come in the source; its cursor may be one further.
Upto == IF pc = "tokens" /\ offset < Size THEN offset ELSE Size

\* What holds of a token that parseTokens has cut.
Good(t) == /\ t.type \in Types
           /\ t.offset < EndOf(t) /\ EndOf(t) <= Size
           /\ Longest(t) /\ Located(t)

\* The tokens are in order, and what they leave out before an offset is skipped.
Covered(ts, o) ==
    /\ \A i \in 1 .. Len(ts) : Good(ts[i])
    /\ \A i \in 1 .. Len(ts) - 1 : EndOf(ts[i]) <= ts[i + 1].offset
    /\ ts # <<>> => EndOf(ts[Len(ts)]) <= o
    /\ \A i \in 0 .. Len(ts) : Skipped(IF i = 0 THEN 0 ELSE EndOf(ts[i]),
                                       IF i = Len(ts) THEN o ELSE ts[i + 1].offset)

Cut ==
    /\ pc = "lines" => tokens = <<>>
    /\ pc \in {"tokens", "brackets"} => Covered(tokens, Upto)
    /\ pc = "newlines" => \A i \in 1 .. Len(tokens) : tokens[i].type \in Types

-----------------------------------------------------------------------------
(* The brackets *)

IsOpen(i) == tokens[i].type = "bracket" /\ tokens[i].data[1] \in Open
IsClose(i) == tokens[i].type = "bracket" /\ tokens[i].data[1] \notin Open

\* Where the open bracket i is closed.
ClosedAt(i, j) ==
    /\ Depth(j) < Depth(i) /\ \A k \in i .. j - 1 : Depth(k) >= Depth(i)
    /\ tokens[j].data[1] = getClosingBracket(tokens[i].data[1])

\* The stack has the open brackets before a token that are still to be closed,
\* the k-th of them at depth k.
Stacked(n) ==
    /\ n \in 1 .. Len(tokens) + 1
    /\ Depth(n - 1) = Len(brackets)
    /\ \A i \in 1 .. n - 1 : Depth(i) >= 0
    /\ \A k \in 1 .. Len(brackets) :
          /\ brackets[k] \in 1 .. n - 1 /\ IsOpen(brackets[k])
          /\ Depth(brackets[k]) = k
          /\ \A j \in brackets[k] .. n - 1 : Depth(j) >= k
    /\ \A i \in 1 .. n - 1 : IsOpen(i) =>
          \/ \E k \in 1 .. Len(brackets) : brackets[k] = i
          \/ \E j \in i + 1 .. n - 1 : ClosedAt(i, j)

Matched ==
    /\ pc \in {"lines", "tokens"} => next = 1
    /\ pc \in {"lines", "tokens", "newlines", "done"} => brackets = <<>>
    /\ pc = "brackets" => Stacked(next)
    /\ BracketsNest

-----------------------------------------------------------------------------
(* The statements *)

\* What insertNewline makes of the tokens.
Split(r) ==
    \A i \in 1 .. Len(r) - 1 :
        LET t == r[i]
            u == r[i + 1]
        IN  /\ t.type = "line" => i > 1 /\ u.type # "line" /\ u.line > t.line /\ ~continueLine(r[i - 1])
            /\ t.type # "line" /\ u.type # "line" /\ u.line > t.line => continueLine(t)

Ended ==
    /\ pc \in {"lines", "tokens", "brackets"} => result = <<>>
    /\ pc = "newlines" =>
          /\ next \in 1 .. Len(tokens) + 1
          /\ next = 1 <=> result = <<>>
          /\ next > 1 => result[Len(result)] = tokens[next - 1]
          /\ Split(result)
    /\ pc = "done" => StatementsEnd

IInv == Typed /\ Lined /\ Cut /\ Matched /\ Ended

-----------------------------------------------------------------------------
(* Steps that leave the source alone *)

LEMMA SameSource ==
    ASSUME src' = src
    PROVE  /\ Size' = Size
           /\ \A o : At(o)' = At(o)
           /\ \A s : Starts(s)' <=> Starts(s)
           /\ \A t : EndOf(t)' = EndOf(t)
           /\ \A t : Good(t)' <=> Good(t)
           /\ \A a, b : Skipped(a, b)' <=> Skipped(a, b)
<1>1. Size' = Size /\ \A o : At(o)' = At(o)
  BY DEF Size, At
<1>2. \A s : Starts(s)' <=> Starts(s)
  BY DEF Starts, At
<1>3. \A t : EndOf(t)' = EndOf(t)
  BY DEF EndOf, Size
<1>4. \A t : Good(t)' <=> Good(t)
  <2> TAKE t
  <2>1. Located(t)' <=> Located(t)
    BY DEF Located, At
  <2>2. Longest(t)' <=> Longest(t)
    BY DEF Longest, Class, EndOf, Size, At
  <2> QED BY <1>1, <1>3, <2>1, <2>2 DEF Good
<1>5. \A a, b : Skipped(a, b)' <=> Skipped(a, b)
  BY DEF Skipped, At
<1> QED BY <1>1, <1>2, <1>3, <1>4, <1>5

LEMMA SourceStays ==
    ASSUME Next
    PROVE  src' = src
BY DEF Next, parseLines, LinesEnd, parseTokens, TokensEnd, matchBrackets, MatchEnd,
       insertNewline, NewlinesEnd, Finished, vars

-----------------------------------------------------------------------------
(* parseLines *)

LEMMA Between ==
    ASSUME NEW a \in Nat, NEW b \in Int, NEW c \in Int, NEW x \in 0 .. b - 1, b <= c + 1, x > a
    PROVE  x - 1 \in a .. c - 1 /\ x # 0
OBVIOUS

LEMMA LineStep ==
    ASSUME Typed, Lined, parseLines
    PROVE  /\ pc' \in {"lines", "panic"}
           /\ lines' \in Seq([indent : Int, offset : Nat])
           /\ offset' \in 0 .. Size
           /\ pc' = "lines" => LinesUpTo(offset)' /\ (offset' < Size => Starts(offset'))
<1>s. src \in Seq(Chars) /\ lines \in Seq([indent : Int, offset : Nat])
  BY DEF Typed
<1>0. Size \in Nat /\ offset \in 0 .. Size - 1
  <2>1. Size \in Nat
    BY <1>s DEF Size
  <2> QED BY <2>1 DEF Typed, parseLines
<1>1. Starts(offset) /\ LinesUpTo(offset)
  BY DEF Lined, parseLines
<1> DEFINE e == LineEnd
           new == [indent |-> Indent, offset |-> offset]
<1>2. /\ e \in offset .. Size /\ \A q \in offset .. e - 1 : At(q) # "nl"
      /\ e < Size => At(e) = "nl"
  <2>1. /\ e \in offset .. Size /\ \A q \in offset .. e - 1 : At(q) \in Chars \ {"nl"}
        /\ e < Size => At(e) \notin Chars \ {"nl"}
    BY <1>s, <1>0, ScanFacts DEF LineEnd
  <2>2. e < Size => At(e) \in Chars
    BY <1>s, <1>0, <2>1 DEF At, Size
  <2> HIDE DEF e
  <2> QED BY <2>1, <2>2
<1>3. new \in [indent : Int, offset : Nat]
  <2>1. offset \in 0 .. Size /\ offset \in Nat
    BY <1>0
  <2>2. scan(offset, {" "}) \in offset .. Size
    BY <1>s, <2>1, ScanFacts
  <2>3. scan(offset, {" "}) - offset \in Int
    <3> DEFINE x == scan(offset, {" "})
    <3>1. x \in offset .. Size
      BY <2>2
    <3> HIDE DEF x
    <3>2. x - offset \in Int
      BY <1>0, <3>1
    <3> QED BY <3>2 DEF x
  <2> QED BY <2>1, <2>3 DEF Indent
<1>4. CASE pc' = "panic" /\ UNCHANGED <<lines, offset>>
  BY <1>s, <1>0, <1>4
<1>5. CASE /\ lines' = Append(lines, new) /\ offset' = (IF e < Size THEN e + 1 ELSE e)
           /\ pc' = pc
  <2> DEFINE n == Len(lines)
  <2>1. /\ n \in Nat /\ DOMAIN lines = 1 .. n /\ DOMAIN lines' = 1 .. n + 1
        /\ lines' \in Seq([indent : Int, offset : Nat])
        /\ \A l \in 1 .. n : lines'[l] = lines[l]
        /\ lines'[n + 1].offset = offset
    <3> HIDE DEF new
    <3>1. new.offset = offset
      BY DEF new
    <3> QED BY <1>s, <1>3, <1>5, <3>1, AppendFacts
  <2> HIDE DEF n, e, new
  <2>2. pc' = "lines" /\ offset' \in offset + 1 .. Size /\ (e < Size => offset' = e + 1)
        /\ offset' <= e + 1
    BY <1>0, <1>2, <1>5 DEF parseLines
  <2>3. \A l \in 1 .. n : lines[l].offset \in 0 .. offset - 1 /\ Starts(lines[l].offset)
    BY <1>1, <2>1 DEF LinesUpTo
  <2>4. \A l \in 1 .. n + 1 : lines'[l].offset \in 0 .. offset' - 1 /\ Starts(lines'[l].offset)
    <3> TAKE l \in 1 .. n + 1
    <3>1. CASE l \in 1 .. n
      <4>1. lines[l].offset \in 0 .. offset - 1 /\ Starts(lines[l].offset) /\ lines'[l] = lines[l]
        BY <2>1, <2>3, <3>1
      <4>2. lines[l].offset \in 0 .. offset' - 1
        BY <1>0, <2>2, <4>1
      <4> QED BY <4>1, <4>2
    <3>2. CASE l = n + 1
      BY <1>0, <1>1, <2>1, <2>2, <3>2
    <3> QED BY <2>1, <3>1, <3>2
  <2>5. ASSUME NEW s \in 0 .. offset' - 1, Starts(s)
        PROVE  \E l \in 1 .. n + 1 : lines'[l].offset = s
    <3>1. CASE s < offset
      <4>1. s \in 0 .. offset - 1
        BY <1>0, <2>2, <3>1
      <4>2. PICK l \in 1 .. n : lines[l].offset = s
        BY <1>1, <2>1, <2>5, <4>1 DEF LinesUpTo
      <4>3. l \in 1 .. n + 1 /\ lines'[l] = lines[l]
        BY <2>1
      <4> QED BY <4>2, <4>3
    <3>2. CASE s = offset
      <4>1. n + 1 \in 1 .. n + 1
        BY <2>1
      <4> QED BY <2>1, <3>2, <4>1
    <3>3. CASE s > offset
      <4>1. s - 1 \in offset .. e - 1 /\ s # 0
        <5>1. offset \in Nat /\ offset' \in Int /\ e \in Int /\ offset' <= e + 1
          BY <1>0, <1>2, <2>2
        <5> QED BY <3>3, <5>1, Between
      <4> QED BY <1>2, <2>5, <4>1 DEF Starts
    <3> QED BY <1>0, <2>2, <3>1, <3>2, <3>3
  <2>6. ASSUME NEW l \in 1 .. n + 1, NEW m \in 1 .. n + 1, l < m
        PROVE  lines'[l].offset < lines'[m].offset
    <3>1. l \in 1 .. n /\ lines'[l] = lines[l]
      BY <2>1, <2>6
    <3>2. CASE m \in 1 .. n
      BY <1>1, <2>1, <2>6, <3>1, <3>2 DEF LinesUpTo
    <3>3. CASE m = n + 1
      <4>1. lines[l].offset \in 0 .. offset - 1 /\ lines'[m].offset = offset
        BY <2>1, <2>3, <3>1, <3>3
      <4>2. lines[l].offset < offset
        BY <1>0, <4>1
      <4> QED BY <3>1, <4>1, <4>2
    <3> QED BY <2>1, <3>2, <3>3
  <2>7. src' = src
    BY DEF parseLines
  <2>8. LinesUpTo(offset)'
    BY <2>1, <2>4, <2>5, <2>6, <2>7, SameSource DEF LinesUpTo
  <2>9. offset' < Size => Starts(offset')
    <3>1. e < Size => Starts(e + 1)
      <4>1. (e + 1) - 1 = e
        BY <1>0, <1>2
      <4> QED BY <1>2, <4>1 DEF Starts
    <3>2. e < Size \/ e = Size
      BY <1>0, <1>2
    <3>3. CASE e < Size
      BY <2>2, <3>1, <3>3
    <3>4. CASE e = Size
      BY <1>0, <1>5, <3>4
    <3> QED BY <3>2, <3>3, <3>4
  <2> QED BY <1>0, <2>1, <2>2, <2>8, <2>9
<1> QED BY <1>4, <1>5 DEF parseLines

-----------------------------------------------------------------------------
(* parseTokens *)

\* The characters of a slice.
LEMMA Slices ==
    ASSUME src \in Seq(Chars), NEW a \in 0 .. Size, NEW b \in a .. Size
    PROVE  Slice(a, b) \in Seq(Chars) /\ Len(Slice(a, b)) = b - a
<1>1. Size \in Nat /\ Size = Len(src)
  BY DEF Size
<1>2. \A j \in a + 1 .. b : src[j] \in Chars
  BY <1>1
<1>3. SubSeq(src, a + 1, b) \in Seq(Chars) /\ Len(SubSeq(src, a + 1, b)) = b - a
  BY <1>1, <1>2
<1> QED BY <1>3 DEF Slice

\* A located token, and where it ends.
LEMMA TokenFacts ==
    ASSUME Typed, LinesUpTo(Size), NEW type \in Types, NEW start \in 0 .. Size - 1,
           NEW from \in 0 .. Size, NEW to \in from .. Size
    PROVE  LET t == Token(type, start, from, to)
           IN  /\ t \in Tokens /\ t.type = type /\ t.offset = start /\ Len(t.data) = to - from
               /\ Located(t)
<1> DEFINE t == Token(type, start, from, to)
           ends == {p \in 0 .. start - 1 : At(p) = "nl"}
<1>1. Slice(from, to) \in Seq(Chars) /\ Len(Slice(from, to)) = to - from
  BY Slices DEF Typed
<1>2. /\ getLocation(start).line \in Nat /\ getLocation(start).column \in Nat
      /\ getLocation(start).line = Cardinality(ends)
      /\ getLocation(start).column = IF ends = {} THEN start ELSE start - Max(ends) - 1
  BY Location
<1>3. start \in Nat
  BY DEF Typed
<1>4. t = [type |-> type, data |-> Slice(from, to), offset |-> start,
           line |-> getLocation(start).line, column |-> getLocation(start).column]
  BY DEF Token
<1>5. t \in Tokens
  BY <1>1, <1>2, <1>3, <1>4 DEF Tokens, Types
<1>6. t.type = type /\ t.offset = start /\ Len(t.data) = to - from
  BY <1>1, <1>4
<1>7. Located(t)
  <2>1. t.line = Cardinality(ends) /\ t.column = (IF ends = {} THEN start ELSE start - Max(ends) - 1)
    BY <1>2, <1>4
  <2> HIDE DEF t
  <2> QED BY <1>6, <2>1 DEF Located
<1> QED BY <1>5, <1>6, <1>7

\* A run of the characters of its class is a good token.
LEMMA PushGood ==
    ASSUME Typed, LinesUpTo(Size), offset \in 0 .. Size - 1,
           NEW type \in {"ident", "number", "atom"}, NEW class, Push(type, class), At(offset) \in class,
           \A t : t.type = type => Class(t) = class
    PROVE  /\ offset' \in offset + 1 .. Size
           /\ \E t \in Tokens : /\ tokens' = Append(tokens, t) /\ t.offset = offset
                                /\ Good(t) /\ EndOf(t) = offset'
<1> DEFINE e == scan(offset, class)
           t == Token(type, offset, offset, e)
<1>1. offset \in 0 .. Size /\ offset \in Nat /\ Size \in Nat /\ src \in Seq(Chars)
  BY DEF Typed, Size
<1>2. e \in offset .. Size /\ (e < Size => At(e) \notin class)
  BY <1>1, ScanFacts
<1>3. e \in offset + 1 .. Size
  <2>1. e # offset
    <3>1. offset < Size
      BY <1>1
    <3> QED BY <1>2, <3>1
  <2> HIDE DEF e
  <2> QED BY <1>1, <1>2, <2>1
<1>4. tokens' = Append(tokens, t) /\ offset' = e
  BY DEF Push
<1>5. type \in Types
  BY DEF Types
<1> HIDE DEF e
<1>6. t \in Tokens /\ t.type = type /\ t.offset = offset /\ Len(t.data) = e - offset /\ Located(t)
  BY <1>1, <1>2, <1>5, TokenFacts
<1> HIDE DEF t
<1>7. EndOf(t) = e
  <2>1. t.type \notin {"string", "character"}
    BY <1>6
  <2>2. offset + (e - offset) = e
    BY <1>1, <1>2
  <2> QED BY <1>6, <2>1, <2>2 DEF EndOf
<1>8. Longest(t)
  <2>1. Class(t) = class
    BY <1>6
  <2> QED BY <1>2, <1>7, <2>1 DEF Longest
<1>9. offset < e /\ e <= Size
  BY <1>1, <1>3
<1>10. Good(t)
  BY <1>5, <1>6, <1>7, <1>8, <1>9 DEF Good
<1> QED BY <1>3, <1>4, <1>6, <1>7, <1>10

\* What a turn of parseTokens does: it fails, skips, or cuts a good token.
LEMMA TokenStep ==
    ASSUME Typed, Lined, parseTokens
    PROVE  /\ offset \in 0 .. Size - 1 /\ Size \in Nat
           /\ \/ pc' = "panic" /\ UNCHANGED <<tokens, offset>>
              \/ /\ pc' = "tokens" /\ tokens' = tokens
                 /\ offset' \in offset + 1 .. Size /\ Skipped(offset, offset')
              \/ /\ pc' = "tokens" /\ offset' \in offset + 1 .. Size + 1
                 /\ \E t \in Tokens : /\ tokens' = Append(tokens, t) /\ t.offset = offset
                                      /\ Good(t) /\ EndOf(t) = IF offset' < Size THEN offset' ELSE Size
<1> DEFINE c == At(offset)
<1>1. src \in Seq(Chars) /\ Size \in Nat /\ pc = "tokens" /\ LinesUpTo(Size)
  BY DEF Typed, Size, parseTokens, Lined
<1>2. offset \in 0 .. Size - 1 /\ offset \in 0 .. Size /\ offset \in Nat
  BY <1>1 DEF Typed, parseTokens
<1>3. c \in Chars
  BY <1>1, <1>2 DEF At, Size
<1>4. CASE c \in Space /\ offset' = offset + 1 /\ UNCHANGED <<tokens, pc>>
  <2>1. \A o \in offset .. offset' - 1 : o = offset
    BY <1>2, <1>4
  <2>2. Skipped(offset, offset')
    BY <1>4, <2>1 DEF Skipped
  <2>3. offset' \in offset + 1 .. Size
    BY <1>1, <1>2, <1>4
  <2> QED BY <1>1, <1>2, <1>4, <2>2, <2>3
<1>5. CASE c = "#" /\ offset' = scan(offset, Chars \ {"nl"}) /\ UNCHANGED <<tokens, pc>>
  <2> DEFINE e == scan(offset, Chars \ {"nl"})
  <2>1. /\ e \in offset .. Size /\ \A q \in offset .. e - 1 : At(q) \in Chars \ {"nl"}
        /\ e < Size => At(e) \notin Chars \ {"nl"}
    BY <1>1, <1>2, ScanFacts
  <2>2. e # offset
    <3>1. c \in Chars \ {"nl"}
      BY <1>3, <1>5
    <3>2. offset < Size
      BY <1>1, <1>2
    <3> HIDE DEF e
    <3> QED BY <2>1, <3>1, <3>2
  <2>3. offset' = e
    BY <1>5
  <2> HIDE DEF e
  <2>4. e \in offset + 1 .. Size
    BY <1>2, <2>1, <2>2
  <2>5. Skipped(offset, e)
    <3>1. ASSUME NEW o \in offset .. e - 1
          PROVE  offset \in offset .. o /\ \A q \in offset .. o : At(q) # "nl"
      <4>1. offset \in offset .. o /\ \A q \in offset .. o : q \in offset .. e - 1
        BY <1>2, <2>4
      <4> QED BY <2>1, <4>1
    <3> QED BY <1>5, <3>1 DEF Skipped
  <2> QED BY <1>1, <1>2, <1>5, <2>3, <2>4, <2>5
<1>6. ASSUME NEW type \in {"ident", "number", "atom"}, NEW class, Push(type, class), c \in class, UNCHANGED pc,
             \A t : t.type = type => Class(t) = class
      PROVE  /\ pc' = "tokens" /\ offset' \in offset + 1 .. Size + 1
             /\ \E t \in Tokens : /\ tokens' = Append(tokens, t) /\ t.offset = offset
                                  /\ Good(t) /\ EndOf(t) = IF offset' < Size THEN offset' ELSE Size
  <2>1. /\ offset' \in offset + 1 .. Size
        /\ \E t \in Tokens : /\ tokens' = Append(tokens, t) /\ t.offset = offset
                             /\ Good(t) /\ EndOf(t) = offset'
    BY <1>1, <1>2, <1>6, PushGood
  <2>2. offset' \in offset + 1 .. Size + 1 /\ offset' = IF offset' < Size THEN offset' ELSE Size
    BY <1>1, <1>2, <2>1
  <2> QED BY <1>1, <1>6, <2>1, <2>2
<1>7. CASE c \in IdentStart /\ Push("ident", Ident) /\ UNCHANGED pc
  <2>1. c \in Ident /\ \A t : t.type = "ident" => Class(t) = Ident
    BY <1>7 DEF Ident, Class
  <2> QED BY <1>1, <1>2, <1>6, <1>7, <2>1
<1>8. CASE c \in Digit /\ Push("number", NumberChar) /\ UNCHANGED pc
  <2>1. c \in NumberChar /\ \A t : t.type = "number" => Class(t) = NumberChar
    BY <1>8 DEF NumberChar, Class
  <2> QED BY <1>1, <1>2, <1>6, <1>8, <2>1
<1>9. CASE c \in Atom /\ Push("atom", Atom) /\ UNCHANGED pc
  <2>1. \A t : t.type = "atom" => Class(t) = Atom
    BY DEF Class
  <2> QED BY <1>1, <1>2, <1>6, <1>9, <2>1
<1>10. CASE /\ c \in Bracket /\ UNCHANGED pc
            /\ tokens' = Append(tokens, Token("bracket", offset, offset, offset + 1))
            /\ offset' = offset + 1
  <2> DEFINE t == Token("bracket", offset, offset, offset + 1)
  <2>1. /\ "bracket" \in Types /\ offset + 1 \in offset .. Size /\ offset + 1 - offset = 1
        /\ offset + 1 \in offset + 1 .. Size + 1 /\ offset < offset + 1 /\ offset + 1 <= Size
        /\ offset + 1 = IF offset + 1 < Size THEN offset + 1 ELSE Size
    BY <1>1, <1>2 DEF Types
  <2>2. t \in Tokens /\ t.type = "bracket" /\ t.offset = offset /\ Len(t.data) = 1 /\ Located(t)
    <3> DEFINE to == offset + 1
               type == "bracket"
    <3>1. t = Token(type, offset, offset, to) /\ to \in offset .. Size /\ to - offset = 1 /\ type \in Types
      BY <1>2, <2>1
    <3> HIDE DEF to, t, type
    <3>2. t \in Tokens /\ t.type = type /\ t.offset = offset /\ Len(t.data) = to - offset /\ Located(t)
      BY <1>1, <1>2, <3>1, TokenFacts
    <3> QED BY <3>1, <3>2 DEF type
  <2> HIDE DEF t
  <2>3. EndOf(t) = offset + 1
    <3>1. t.type \notin {"string", "character"}
      BY <2>2
    <3> QED BY <2>2, <3>1 DEF EndOf
  <2>4. Longest(t)
    <3>1. Class(t) = {}
      BY <2>2 DEF Class
    <3> QED BY <3>1 DEF Longest
  <2>5. Good(t)
    BY <2>1, <2>2, <2>3, <2>4 DEF Good
  <2>6. pc' = "tokens" /\ tokens' = Append(tokens, t) /\ offset' = offset + 1
    BY <1>1, <1>10 DEF t
  <2> QED BY <1>1, <1>2, <2>1, <2>2, <2>3, <2>5, <2>6
<1>11. CASE c \in Quotes /\ PushString /\ UNCHANGED pc
  <2> DEFINE e == Contents
             type == IF c = "quote" THEN "string" ELSE "character"
             t == Token(type, offset, offset + 1, e)
  <2>1. e \in offset + 1 .. Size
    <3>1. offset + 1 \in 0 .. Size
      BY <1>1, <1>2
    <3> QED BY <1>1, <3>1, ScanFacts DEF Contents
  <2>2. tokens' = Append(tokens, t) /\ offset' = e + 1
    BY <1>11 DEF PushString, Quoted
  <2>3. type \in {"string", "character"} /\ type \in Types
    BY DEF Types
  <2> HIDE DEF e, type
  <2>4. offset + 1 \in 0 .. Size
    BY <1>1, <1>2
  <2>5. t \in Tokens /\ t.type = type /\ t.offset = offset /\ Len(t.data) = e - (offset + 1) /\ Located(t)
    BY <1>1, <1>2, <2>1, <2>3, <2>4, TokenFacts
  <2> HIDE DEF t
  <2>6. EndOf(t) = IF e + 1 < Size THEN e + 1 ELSE Size
    <3>1. t.type \in {"string", "character"}
      BY <2>3, <2>5
    <3>2. offset + (e - (offset + 1)) + 1 = e /\ offset + (e - (offset + 1)) + 2 = e + 1
      BY <1>2, <2>1
    <3>3. EndOf(t) = IF e < Size THEN e + 1 ELSE Size
      BY <2>5, <3>1, <3>2 DEF EndOf
    <3> QED BY <1>1, <1>2, <2>1, <3>3
  <2>7. Longest(t)
    <3>1. Class(t) = {}
      BY <2>3, <2>5 DEF Class
    <3> QED BY <3>1 DEF Longest
  <2>8. Good(t)
    <3>1. offset < EndOf(t) /\ EndOf(t) <= Size
      BY <1>1, <1>2, <2>1, <2>6
    <3> QED BY <2>3, <2>5, <2>7, <3>1 DEF Good
  <2>9. e + 1 \in offset + 1 .. Size + 1 /\ pc' = "tokens"
    BY <1>1, <1>2, <1>11, <2>1
  <2> QED BY <1>1, <1>2, <2>2, <2>5, <2>6, <2>8, <2>9
<1>12. CASE c \notin Known /\ pc' = "panic" /\ UNCHANGED <<tokens, offset>>
  BY <1>1, <1>2, <1>12
<1> QED BY <1>4, <1>5, <1>7, <1>8, <1>9, <1>10, <1>11, <1>12 DEF parseTokens

LEMMA SkippedJoin ==
    ASSUME NEW a \in Int, NEW b \in Int, NEW c \in Int, a <= b, Skipped(a, b), Skipped(b, c)
    PROVE  Skipped(a, c)
<1> SUFFICES ASSUME NEW o \in a .. c - 1
             PROVE  \/ At(o) \in Space
                    \/ \E h \in a .. o : At(h) = "#" /\ \A q \in h .. o : At(q) # "nl"
  BY DEF Skipped
<1>1. CASE o \in a .. b - 1
  BY <1>1 DEF Skipped
<1>2. CASE o \in b .. c - 1
  <2>1. \A h \in b .. o : h \in a .. o
    OBVIOUS
  <2> QED BY <1>2, <2>1 DEF Skipped
<1> QED BY <1>1, <1>2

\* The tokens go on being in order as more is skipped and cut.
LEMMA CoverSkip ==
    ASSUME Size \in Nat, NEW ts \in Seq(Tokens), NEW o \in 0 .. Size, NEW p \in o .. Size,
           Covered(ts, o), Skipped(o, p)
    PROVE  Covered(ts, p)
<1> DEFINE n == Len(ts)
           last == IF n = 0 THEN 0 ELSE EndOf(ts[n])
<1>1. n \in Nat /\ (n = 0 <=> ts = <<>>)
  OBVIOUS
<1>2. last \in Int /\ last <= o
  <2>1. CASE n = 0
    BY <2>1
  <2>2. CASE n # 0
    <3>1. n \in 1 .. n /\ n \in Nat \ {0}
      BY <1>1, <2>2
    <3>2. ts[n].offset \in Nat /\ Len(ts[n].data) \in Nat
      <4>1. ts[n] \in Tokens
        BY <3>1, SeqFacts
      <4> QED BY <4>1 DEF Tokens
    <3>3. EndOf(ts[n]) \in Int
      BY <3>2 DEF EndOf
    <3>4. EndOf(ts[n]) <= o
      BY <1>1, <2>2 DEF Covered
    <3> QED BY <2>2, <3>3, <3>4
  <2> QED BY <2>1, <2>2
<1>3. Skipped(last, o)
  BY <1>1 DEF Covered
<1>4. Skipped(last, p)
  <2> HIDE DEF last
  <2> QED BY <1>2, <1>3, SkippedJoin
<1>5. last <= p
  <2> HIDE DEF last
  <2> QED BY <1>2
<1>6. \A i \in 0 .. n : Skipped(IF i = 0 THEN 0 ELSE EndOf(ts[i]), IF i = n THEN p ELSE ts[i + 1].offset)
  <2> TAKE i \in 0 .. n
  <2>1. CASE i = n
    BY <1>4, <2>1
  <2>2. CASE i # n
    BY <2>2 DEF Covered
  <2> QED BY <2>1, <2>2
<1> QED BY <1>1, <1>5, <1>6 DEF Covered

LEMMA CoverCut ==
    ASSUME Size \in Nat, NEW ts \in Seq(Tokens), NEW t \in Tokens, Covered(ts, t.offset), Good(t)
    PROVE  Covered(Append(ts, t), EndOf(t))
<1> DEFINE n == Len(ts)
           us == Append(ts, t)
<1>1. /\ n \in Nat /\ Len(us) = n + 1 /\ us[n + 1] = t
      /\ \A i \in 1 .. n : us[i] = ts[i]
      /\ us # <<>> /\ (n = 0 <=> ts = <<>>)
  OBVIOUS
<1>2. t.offset \in Nat /\ EndOf(t) \in Int
  <2>1. t.offset \in Nat /\ Len(t.data) \in Nat
    BY DEF Tokens
  <2> QED BY <2>1 DEF EndOf
<1> HIDE DEF us, n
<1>3. \A i \in 1 .. n + 1 : Good(us[i])
  <2>1. \A i \in 1 .. n + 1 : i \in 1 .. n \/ i = n + 1
    BY <1>1
  <2> QED BY <1>1, <2>1 DEF Covered, n
<1>4. \A i \in 1 .. n : EndOf(us[i]) <= us[i + 1].offset
  <2> TAKE i \in 1 .. n
  <2>1. CASE i = n
    BY <1>1, <2>1 DEF Covered, n
  <2>2. CASE i # n
    <3>1. i \in 1 .. n - 1 /\ i + 1 \in 1 .. n
      BY <1>1, <2>2
    <3> QED BY <1>1, <3>1 DEF Covered, n
  <2> QED BY <2>1, <2>2
<1>5. Skipped(EndOf(t), EndOf(t))
  BY <1>2 DEF Skipped
<1>6. \A i \in 0 .. n + 1 : Skipped(IF i = 0 THEN 0 ELSE EndOf(us[i]),
                                    IF i = n + 1 THEN EndOf(t) ELSE us[i + 1].offset)
  <2> TAKE i \in 0 .. n + 1
  <2>1. CASE i = n + 1
    BY <1>1, <1>5, <2>1
  <2>2. CASE i = n
    <3>1. i # n + 1 /\ (i = 0 \/ i \in 1 .. n) /\ i \in 0 .. n
      BY <1>1, <2>2
    <3>2. Skipped(IF i = 0 THEN 0 ELSE EndOf(ts[i]), t.offset)
      BY <2>2, <3>1 DEF Covered, n
    <3> QED BY <1>1, <2>2, <3>1, <3>2
  <2>3. CASE i # n + 1 /\ i # n
    <3>1. i \in 0 .. n /\ (i = 0 \/ i \in 1 .. n) /\ i + 1 \in 1 .. n
      BY <1>1, <2>3
    <3>2. Skipped(IF i = 0 THEN 0 ELSE EndOf(ts[i]), ts[i + 1].offset)
      BY <2>3, <3>1 DEF Covered, n
    <3> QED BY <1>1, <2>3, <3>1, <3>2
  <2> QED BY <2>1, <2>2, <2>3
<1>7. EndOf(us[n + 1]) <= EndOf(t)
  BY <1>1, <1>2
<1>8. Len(us) - 1 = n
  BY <1>1
<1> QED BY <1>1, <1>3, <1>4, <1>6, <1>7, <1>8 DEF Covered, us

\* Covered says the same of the next state, for its tokens.
LEMMA CoverStays ==
    ASSUME src' = src, NEW o, Covered(tokens', o)
    PROVE  Covered(tokens, o)'
BY SameSource DEF Covered

-----------------------------------------------------------------------------
(* matchBrackets *)

LEMMA DepthStep ==
    ASSUME tokens \in Seq(Tokens)
    PROVE  /\ Depth(0) = 0 /\ \A k \in 0 .. Len(tokens) : Depth(k) \in Int
           /\ \A i \in 0 .. Len(tokens) - 1 :
                 Depth(i + 1) = Depth(i) + (IF IsOpen(i + 1) THEN 1 ELSE IF IsClose(i + 1) THEN -1 ELSE 0)
<1> DEFINE A == {j \in 1 .. Len(tokens) : IsOpen(j)}
           B == {j \in 1 .. Len(tokens) : IsClose(j)}
<1>1. Len(tokens) \in Nat
  OBVIOUS
<1>2. ASSUME NEW k \in 0 .. Len(tokens)
      PROVE  Depth(k) = Cardinality(A \cap (1 .. k)) - Cardinality(B \cap (1 .. k))
  <2> DEFINE upto == {j \in 1 .. k : tokens[j].type = "bracket"}
  <2>1. \A j \in 1 .. k : j \in 1 .. Len(tokens)
    BY <1>1
  <2>2. {j \in upto : tokens[j].data[1] \in Open} = A \cap (1 .. k)
    BY <2>1 DEF IsOpen
  <2>3. {j \in upto : tokens[j].data[1] \notin Open} = B \cap (1 .. k)
    BY <2>1 DEF IsClose
  <2> HIDE DEF A, B
  <2> QED BY <2>2, <2>3, Zenon DEF Depth
<1> DEFINE a(k) == Cardinality(A \cap (1 .. k))
           b(k) == Cardinality(B \cap (1 .. k))
<1>3. ASSUME NEW k \in 0 .. Len(tokens)
      PROVE  /\ a(k) \in Nat /\ b(k) \in Nat /\ Depth(k) = a(k) - b(k)
             /\ a(k + 1) = a(k) + (IF k + 1 \in A THEN 1 ELSE 0)
             /\ b(k + 1) = b(k) + (IF k + 1 \in B THEN 1 ELSE 0)
  <2> HIDE DEF A, B
  <2>1. k \in Nat
    BY <1>1
  <2> QED BY <1>2, <2>1, CountStep
<1>4. a(0) = 0 /\ b(0) = 0
  <2>1. A \cap (1 .. 0) = {} /\ B \cap (1 .. 0) = {}
    OBVIOUS
  <2> QED BY <2>1, FS_EmptySet
<1>5. ASSUME NEW i \in 0 .. Len(tokens) - 1
      PROVE  Depth(i + 1) = Depth(i) + (IF IsOpen(i + 1) THEN 1 ELSE IF IsClose(i + 1) THEN -1 ELSE 0)
  <2>1. i \in 0 .. Len(tokens) /\ i + 1 \in 0 .. Len(tokens) /\ i + 1 \in 1 .. Len(tokens)
    BY <1>1
  <2>2. (i + 1 \in A <=> IsOpen(i + 1)) /\ (i + 1 \in B <=> IsClose(i + 1))
    BY <2>1
  <2>3. ~ (IsOpen(i + 1) /\ IsClose(i + 1))
    BY DEF IsOpen, IsClose
  <2> HIDE DEF a, b, A, B
  <2>4. /\ a(i) \in Nat /\ b(i) \in Nat /\ Depth(i) = a(i) - b(i) /\ Depth(i + 1) = a(i + 1) - b(i + 1)
        /\ a(i + 1) = a(i) + (IF i + 1 \in A THEN 1 ELSE 0)
        /\ b(i + 1) = b(i) + (IF i + 1 \in B THEN 1 ELSE 0)
    BY <1>3, <2>1
  <2> QED BY <2>2, <2>3, <2>4
<1> HIDE DEF a, b, A, B
<1>6. Depth(0) = 0 /\ \A k \in 0 .. Len(tokens) : Depth(k) \in Int
  <2>1. 0 \in 0 .. Len(tokens)
    BY <1>1
  <2>2. Depth(0) = 0
    BY <1>3, <1>4, <2>1
  <2>3. \A k \in 0 .. Len(tokens) : Depth(k) \in Int
    BY <1>3
  <2> QED BY <2>2, <2>3
<1> QED BY <1>5, <1>6

LEMMA DepthStays ==
    ASSUME tokens' = tokens
    PROVE  /\ \A i : Depth(i)' = Depth(i)
           /\ \A i : (IsOpen(i)' <=> IsOpen(i)) /\ (IsClose(i)' <=> IsClose(i))
           /\ \A i, j : ClosedAt(i, j)' <=> ClosedAt(i, j)
           /\ Nested' <=> Nested
<1>1. \A i : Depth(i)' = Depth(i)
  BY DEF Depth
<1>2. \A i : (IsOpen(i)' <=> IsOpen(i)) /\ (IsClose(i)' <=> IsClose(i))
  BY DEF IsOpen, IsClose
<1>3. \A i, j : ClosedAt(i, j)' <=> ClosedAt(i, j)
  BY <1>1 DEF ClosedAt
<1>4. Nested' <=> Nested
  BY <1>1 DEF Nested
<1> QED BY <1>1, <1>2, <1>3, <1>4

\* What the stack knows goes on with the next token, if its depth is not below.
LEMMA StackStep ==
    ASSUME Typed, Stacked(next), pc = "brackets", matchBrackets
    PROVE  /\ tokens' = tokens /\ next' = next + 1
           /\ brackets' \in Seq(1 .. Len(tokens))
           /\ \/ pc' = "brackets" /\ Stacked(next)'
              \/ pc' = "panic" /\ ~ Nested
<1> DEFINE n == next
           L == Len(brackets)
           N == Len(tokens)
<1>1. tokens' = tokens /\ next' = next + 1
  BY DEF matchBrackets
<1>s. tokens \in Seq(Tokens) /\ brackets \in Seq(1 .. N)
  BY DEF Typed
<1>2. N \in Nat /\ L \in Nat /\ n \in 1 .. N /\ DOMAIN tokens = 1 .. N
  <2>1. next \in 1 .. N + 1 /\ next <= N
    BY DEF Stacked, matchBrackets
  <2>2. N \in Nat /\ L \in Nat /\ DOMAIN tokens = 1 .. N
    BY <1>s
  <2> HIDE DEF N, L
  <2> QED BY <2>1, <2>2
<1>3. /\ Depth(n - 1) = L
      /\ Depth(n) = L + (IF IsOpen(n) THEN 1 ELSE IF IsClose(n) THEN -1 ELSE 0)
      /\ \A k \in 0 .. N : Depth(k) \in Int
  <2>1. Depth(n - 1) = L
    BY DEF Stacked
  <2>2. n - 1 \in 0 .. N - 1 /\ (n - 1) + 1 = n
    BY <1>2
  <2> QED BY <1>s, <2>1, <2>2, DepthStep
<1>4. /\ \A i \in 1 .. n - 1 : Depth(i) >= 0
      /\ \A k \in 1 .. L : /\ brackets[k] \in 1 .. n - 1 /\ IsOpen(brackets[k])
                           /\ Depth(brackets[k]) = k
                           /\ \A j \in brackets[k] .. n - 1 : Depth(j) >= k
      /\ \A i \in 1 .. n - 1 : IsOpen(i) =>
            \/ \E k \in 1 .. L : brackets[k] = i
            \/ \E j \in i + 1 .. n - 1 : ClosedAt(i, j)
  BY DEF Stacked
<1> HIDE DEF L, N, n
\* One bracket of the stack, a token further.
<1>5. ASSUME NEW k \in 1 .. L, Depth(n) >= k
      PROVE  /\ brackets[k] \in 1 .. n /\ IsOpen(brackets[k]) /\ Depth(brackets[k]) = k
             /\ \A j \in brackets[k] .. n : Depth(j) >= k
  <2>1. brackets[k] \in 1 .. n - 1 /\ brackets[k] \in 1 .. n
    BY <1>2, <1>4
  <2>2. \A j \in brackets[k] .. n : j \in brackets[k] .. n - 1 \/ j = n
    BY <1>2, <2>1
  <2> QED BY <1>4, <1>5, <2>1, <2>2
<1>6. ASSUME Depth(n) >= 0
      PROVE  \A i \in 1 .. n : Depth(i) >= 0
  <2>1. \A i \in 1 .. n : i \in 1 .. n - 1 \/ i = n
    BY <1>2
  <2> QED BY <1>4, <1>6, <2>1
<1>7. \A i \in 1 .. n : i \in 1 .. n - 1 \/ i = n
  BY <1>2
<1>8. \A i \in 1 .. n - 1 : (\E j \in i + 1 .. n - 1 : ClosedAt(i, j)) => \E j \in i + 1 .. n : ClosedAt(i, j)
  <2>1. \A i \in 1 .. n - 1 : \A j \in i + 1 .. n - 1 : j \in i + 1 .. n
    BY <1>2
  <2> QED BY <2>1
\* What is to be shown of the stack, with nothing primed but the stack.
<1>9. ASSUME NEW M, M = Len(brackets'), Depth(n) = M, M \in Nat, brackets' \in Seq(1 .. N),
             \A k \in 1 .. M : /\ brackets'[k] \in 1 .. n /\ IsOpen(brackets'[k]) /\ Depth(brackets'[k]) = k
                               /\ \A j \in brackets'[k] .. n : Depth(j) >= k,
             \A i \in 1 .. n : IsOpen(i) =>
                \/ \E k \in 1 .. M : brackets'[k] = i
                \/ \E j \in i + 1 .. n : ClosedAt(i, j),
             pc' = "brackets"
      PROVE  Stacked(next)'
  <2>1. next' - 1 = n /\ next' \in 1 .. N + 1
    BY <1>1, <1>2 DEF n
  <2>2. \A i \in 1 .. n : Depth(i) >= 0
    BY <1>6, <1>9
  <2>3. (Len(tokens))' = N
    BY <1>1 DEF N
  <2>4. /\ \A i : Depth(i)' = Depth(i)
        /\ \A i : IsOpen(i)' <=> IsOpen(i)
        /\ \A i, j : ClosedAt(i, j)' <=> ClosedAt(i, j)
    BY <1>1, DepthStays
  <2> SUFFICES /\ next' \in 1 .. Len(tokens') + 1
               /\ Depth(next - 1)' = Len(brackets')
               /\ \A i \in 1 .. next' - 1 : Depth(i)' >= 0
               /\ \A k \in 1 .. Len(brackets') :
                     /\ brackets'[k] \in 1 .. next' - 1 /\ IsOpen(brackets[k])'
                     /\ Depth(brackets[k])' = k
                     /\ \A j \in brackets'[k] .. next' - 1 : Depth(j)' >= k
               /\ \A i \in 1 .. next' - 1 : IsOpen(i)' =>
                     \/ \E k \in 1 .. Len(brackets') : brackets'[k] = i
                     \/ \E j \in i + 1 .. next' - 1 : ClosedAt(i, j)'
    BY DEF Stacked
  <2>5. Depth(next - 1)' = M
    BY <1>9, <2>1, <2>4
  <2>6. \A i \in 1 .. n : Depth(i)' >= 0
    BY <2>2, <2>4
  <2>7. \A k \in 1 .. M : /\ brackets'[k] \in 1 .. n /\ IsOpen(brackets[k])' /\ Depth(brackets[k])' = k
                          /\ \A j \in brackets'[k] .. n : Depth(j)' >= k
    BY <1>9, <2>4
  <2>8. \A i \in 1 .. n : IsOpen(i)' =>
            \/ \E k \in 1 .. M : brackets'[k] = i
            \/ \E j \in i + 1 .. n : ClosedAt(i, j)'
    BY <1>9, <2>4
  <2> QED BY <1>1, <1>9, <2>1, <2>3, <2>5, <2>6, <2>7, <2>8
<1>t. tokens[n] = tokens[next]
  BY DEF n
<1>10. CASE tokens[next].type # "bracket" /\ UNCHANGED <<brackets, pc>>
  <2>1. ~ IsOpen(n) /\ ~ IsClose(n) /\ Depth(n) = L
    BY <1>2, <1>3, <1>10, <1>t DEF IsOpen, IsClose
  <2>2. \A k \in 1 .. L : /\ brackets[k] \in 1 .. n /\ IsOpen(brackets[k]) /\ Depth(brackets[k]) = k
                          /\ \A j \in brackets[k] .. n : Depth(j) >= k
    <3>1. \A k \in 1 .. L : L >= k
      BY <1>2
    <3> QED BY <1>5, <2>1, <3>1
  <2>3. \A i \in 1 .. n : IsOpen(i) =>
            \/ \E k \in 1 .. L : brackets[k] = i
            \/ \E j \in i + 1 .. n : ClosedAt(i, j)
    BY <1>4, <1>7, <1>8, <2>1
  <2>4. brackets' = brackets /\ L = Len(brackets') /\ pc' = "brackets"
    BY <1>10 DEF L
  <2> QED BY <1>s, <1>1, <1>2, <1>9, <2>1, <2>2, <2>3, <2>4 DEF N
<1>11. CASE tokens[next].type = "bracket" /\ tokens[next].data[1] \in Open
            /\ brackets' = Append(brackets, next) /\ UNCHANGED pc
  <2>1. IsOpen(n) /\ Depth(n) = L + 1
    BY <1>2, <1>3, <1>11, <1>t DEF IsOpen
  <2>2. /\ brackets' \in Seq(1 .. N) /\ Len(brackets') = L + 1
        /\ \A k \in 1 .. L : brackets'[k] = brackets[k]
        /\ brackets'[L + 1] = n
    <3>1. n \in 1 .. N /\ brackets' = Append(brackets, n)
      BY <1>2, <1>11 DEF n
    <3> QED BY <1>s, <3>1, AppendFacts DEF L, N
  <2>3. \A k \in 1 .. L + 1 : /\ brackets'[k] \in 1 .. n /\ IsOpen(brackets'[k]) /\ Depth(brackets'[k]) = k
                              /\ \A j \in brackets'[k] .. n : Depth(j) >= k
    <3> TAKE k \in 1 .. L + 1
    <3>1. CASE k \in 1 .. L
      <4>1. Depth(n) >= k
        BY <1>2, <2>1, <3>1
      <4> QED BY <1>5, <2>2, <3>1, <4>1
    <3>2. CASE k = L + 1
      <4>1. n \in 1 .. n /\ \A j \in n .. n : j = n
        BY <1>2
      <4>2. L + 1 >= L + 1
        BY <1>2
      <4> QED BY <2>1, <2>2, <3>2, <4>1, <4>2
    <3> QED BY <1>2, <3>1, <3>2
  <2>4. \A i \in 1 .. n : IsOpen(i) =>
            \/ \E k \in 1 .. L + 1 : brackets'[k] = i
            \/ \E j \in i + 1 .. n : ClosedAt(i, j)
    <3>1. L + 1 \in 1 .. L + 1 /\ \A k \in 1 .. L : k \in 1 .. L + 1
      BY <1>2
    <3> QED BY <1>4, <1>7, <1>8, <2>2, <3>1
  <2>5. pc' = "brackets" /\ L + 1 \in Nat
    BY <1>2, <1>11
  <2> QED BY <1>1, <1>9, <2>1, <2>2, <2>3, <2>4, <2>5 DEF N
<1> DEFINE closing == tokens[next].type = "bracket" /\ tokens[next].data[1] \notin Open
<1>12. ASSUME closing PROVE IsClose(n) /\ ~ IsOpen(n) /\ Depth(n) = L - 1
  BY <1>2, <1>3, <1>12, <1>t DEF IsClose, IsOpen
<1>13. CASE closing /\ brackets = <<>> /\ pc' = "panic" /\ UNCHANGED brackets
  <2>1. L = 0
    BY <1>13 DEF L
  <2>2. ~ (Depth(n) >= 0)
    BY <1>12, <1>13, <2>1
  <2>3. ~ Nested
    BY <1>2, <2>2 DEF Nested
  <2> QED BY <1>s, <1>1, <1>13, <2>3 DEF N
<1>14. ASSUME brackets # <<>>
       PROVE  L \in 1 .. L /\ Last(brackets) = brackets[L]
  BY <1>s, <1>2, <1>14 DEF L, Last
<1>15. CASE closing /\ brackets # <<>> /\ ~ Closes(Last(brackets), tokens[next]) /\ pc' = "panic" /\ UNCHANGED brackets
  <2> DEFINE o == brackets[L]
  <2>1. /\ o \in 1 .. n - 1 /\ IsOpen(o) /\ Depth(o) = L
        /\ \A j \in o .. n - 1 : Depth(j) >= L
    BY <1>4, <1>14, <1>15
  <2>2. tokens[n].data[1] # getClosingBracket(tokens[o].data[1])
    BY <1>14, <1>15, <1>t DEF Closes
  <2> HIDE DEF o
  <2>3. ASSUME Nested PROVE FALSE
    <3>1. o \in 1 .. N
      BY <1>2, <2>1
    <3>2. PICK j \in o + 1 .. N : /\ Depth(j) < Depth(o) /\ \A k \in o .. j - 1 : Depth(k) >= Depth(o)
                                  /\ tokens[j].data[1] = getClosingBracket(tokens[o].data[1])
      BY <1>2, <2>1, <2>3, <3>1 DEF Nested, IsOpen, N
    <3>3. ~ (j \in o .. n - 1)
      <4>1. ASSUME j \in o .. n - 1 PROVE FALSE
        <5>1. Depth(j) >= L /\ Depth(j) < L
          BY <2>1, <3>2, <4>1
        <5>2. j \in 0 .. N
          BY <1>2, <3>1
        <5>3. Depth(j) \in Int
          BY <1>3, <5>2
        <5> QED BY <1>2, <5>1, <5>3
      <4> QED BY <4>1
    <3>4. ~ (n \in o .. j - 1)
      <4>1. ASSUME n \in o .. j - 1 PROVE FALSE
        <5>1. Depth(n) >= L /\ Depth(n) = L - 1
          BY <1>12, <1>15, <2>1, <3>2, <4>1
        <5> QED BY <1>2, <5>1
      <4> QED BY <4>1
    <3>5. j = n
      BY <1>2, <2>1, <3>1, <3>3, <3>4
    <3> QED BY <2>2, <3>2, <3>5
  <2> QED BY <1>s, <1>1, <1>15, <2>3 DEF N
<1>16. CASE closing /\ brackets # <<>> /\ Closes(Last(brackets), tokens[next]) /\ brackets' = Front(brackets) /\ UNCHANGED pc
  <2> DEFINE o == brackets[L]
  <2>1. /\ o \in 1 .. n - 1 /\ IsOpen(o) /\ Depth(o) = L
        /\ \A j \in o .. n - 1 : Depth(j) >= L
    BY <1>4, <1>14, <1>16
  <2>2. tokens[n].data[1] = getClosingBracket(tokens[o].data[1])
    BY <1>14, <1>16, <1>t DEF Closes
  <2>3. /\ brackets' \in Seq(1 .. N) /\ Len(brackets') = L - 1 /\ L - 1 \in Nat
        /\ \A k \in 1 .. L - 1 : brackets'[k] = brackets[k]
    <3>1. L \in Nat \ {0}
      BY <1>2, <1>14, <1>16
    <3>2. L - 1 \in Nat
      BY <3>1
    <3> QED BY <1>s, <1>16, <3>2, FrontFacts DEF L
  <2> HIDE DEF o
  <2>4. Depth(n) = L - 1
    BY <1>12, <1>16
  <2>5. ClosedAt(o, n)
    <3>1. Depth(n) < Depth(o)
      BY <1>2, <2>1, <2>4
    <3> QED BY <2>1, <2>2, <3>1 DEF ClosedAt
  <2>6. \A k \in 1 .. L - 1 : /\ brackets'[k] \in 1 .. n /\ IsOpen(brackets'[k]) /\ Depth(brackets'[k]) = k
                              /\ \A j \in brackets'[k] .. n : Depth(j) >= k
    <3>1. \A k \in 1 .. L - 1 : k \in 1 .. L /\ L - 1 >= k
      BY <1>2
    <3> QED BY <1>5, <2>3, <2>4, <3>1
  <2>7. \A i \in 1 .. n : IsOpen(i) =>
            \/ \E k \in 1 .. L - 1 : brackets'[k] = i
            \/ \E j \in i + 1 .. n : ClosedAt(i, j)
    <3> SUFFICES ASSUME NEW i \in 1 .. n, IsOpen(i)
                 PROVE  \/ \E k \in 1 .. L - 1 : brackets'[k] = i
                        \/ \E j \in i + 1 .. n : ClosedAt(i, j)
      OBVIOUS
    <3>1. i \in 1 .. n - 1
      BY <1>7, <1>12, <1>16
    <3>2. CASE i = o
      <4>1. n \in i + 1 .. n
        BY <1>2, <3>1
      <4> QED BY <2>5, <3>2, <4>1
    <3>3. CASE i # o
      <4>1. \A k \in 1 .. L : k \in 1 .. L - 1 \/ k = L
        BY <1>2
      <4> QED BY <1>4, <1>8, <2>3, <3>1, <3>3, <4>1 DEF o
    <3> QED BY <3>2, <3>3
  <2>8. pc' = "brackets"
    BY <1>16
  <2> QED BY <1>1, <1>9, <2>3, <2>4, <2>6, <2>7, <2>8 DEF N
<1> QED BY <1>10, <1>11, <1>13, <1>15, <1>16 DEF matchBrackets

\* At the end of the tokens, they are nested exactly if the stack is empty.
LEMMA StackEnd ==
    ASSUME Typed, Stacked(next), next = Len(tokens) + 1
    PROVE  brackets = <<>> <=> Nested
<1> DEFINE N == Len(tokens)
<1>1. /\ N \in Nat /\ next - 1 = N /\ DOMAIN tokens = 1 .. N /\ brackets \in Seq(1 .. N)
      /\ Len(brackets) \in Nat /\ (brackets = <<>> <=> Len(brackets) = 0)
  <2>1. tokens \in Seq(Tokens) /\ brackets \in Seq(1 .. N)
    BY DEF Typed
  <2>2. N \in Nat /\ DOMAIN tokens = 1 .. N
    BY <2>1
  <2> HIDE DEF N
  <2>3. next - 1 = N
    BY <2>2 DEF N
  <2> QED BY <2>1, <2>2, <2>3
<1> HIDE DEF N
<1>2. /\ Depth(N) = Len(brackets)
      /\ \A i \in 1 .. N : Depth(i) >= 0
      /\ \A i \in 1 .. N : IsOpen(i) =>
            \/ \E k \in 1 .. Len(brackets) : brackets[k] = i
            \/ \E j \in i + 1 .. N : ClosedAt(i, j)
  BY <1>1 DEF Stacked
<1>3. ASSUME brackets = <<>> PROVE Nested
  <2>1. Depth(N) = 0 /\ 1 .. Len(brackets) = {}
    BY <1>1, <1>2, <1>3
  <2>2. \A i \in 1 .. N : IsOpen(i) => \E j \in i + 1 .. N : ClosedAt(i, j)
    BY <1>2, <2>1
  <2> QED BY <1>1, <1>2, <2>1, <2>2 DEF Nested, IsOpen, ClosedAt, N
<1>4. ASSUME Nested PROVE brackets = <<>>
  BY <1>1, <1>2, <1>4 DEF Nested, N
<1> QED BY <1>3, <1>4

-----------------------------------------------------------------------------
(* insertNewline *)

\* The token that ends the statement of another.
LEMMA LineToken ==
    ASSUME NEW t \in Tokens
    PROVE  getLineToken(t) \in Tokens /\ getLineToken(t).type = "line" /\ getLineToken(t).line = t.line
<1>1. Len(t.data) \in Nat /\ t.offset \in Nat /\ t.line \in Int /\ t.column \in Int
  BY DEF Tokens
<1>2. t.offset + Len(t.data) \in Nat /\ t.column + Len(t.data) \in Int
  BY <1>1
<1>3. <<>> \in Seq(Chars)
  OBVIOUS
<1> QED BY <1>1, <1>2, <1>3 DEF getLineToken, Tokens

\* A token more is a pair more to look at.
LEMMA SplitAppend ==
    ASSUME NEW r \in Seq(Tokens), NEW u \in Tokens, Split(r),
           r # <<>> =>
              LET t == r[Len(r)]
              IN  /\ t.type = "line" => /\ Len(r) > 1 /\ u.type # "line" /\ u.line > t.line
                                        /\ ~continueLine(r[Len(r) - 1])
                  /\ t.type # "line" /\ u.type # "line" /\ u.line > t.line => continueLine(t)
    PROVE  Split(Append(r, u))
<1> DEFINE us == Append(r, u)
           n == Len(r)
<1>1. /\ n \in Nat /\ Len(us) - 1 = n /\ us[n + 1] = u
      /\ \A i \in 1 .. n : us[i] = r[i]
      /\ n # 0 => r # <<>>
  <2>1. Len(us) = n + 1 /\ n \in Nat /\ us[n + 1] = u /\ \A i \in 1 .. n : us[i] = r[i]
    BY AppendFacts
  <2>2. n # 0 => r # <<>>
    OBVIOUS
  <2> HIDE DEF us, n
  <2> QED BY <2>1, <2>2
<1> HIDE DEF us
<1> SUFFICES ASSUME NEW i \in 1 .. n
             PROVE  /\ us[i].type = "line" => /\ i > 1 /\ us[i + 1].type # "line" /\ us[i + 1].line > us[i].line
                                              /\ ~continueLine(us[i - 1])
                    /\ us[i].type # "line" /\ us[i + 1].type # "line" /\ us[i + 1].line > us[i].line
                          => continueLine(us[i])
  BY <1>1 DEF Split, us
<1>2. us[i] = r[i] /\ (i > 1 => us[i - 1] = r[i - 1])
  <2>1. i > 1 => i - 1 \in 1 .. n
    BY <1>1
  <2> QED BY <1>1, <2>1
<1>3. CASE i = n
  <2>1. r # <<>> /\ us[i + 1] = u
    BY <1>1, <1>3
  <2> QED BY <1>2, <1>3, <2>1
<1>4. CASE i # n
  <2>1. i \in 1 .. Len(r) - 1 /\ us[i + 1] = r[i + 1]
    <3>1. i \in 1 .. n - 1 /\ i + 1 \in 1 .. n
      BY <1>1, <1>4
    <3> QED BY <1>1, <3>1
  <2>2. /\ r[i].type = "line" => /\ i > 1 /\ r[i + 1].type # "line" /\ r[i + 1].line > r[i].line
                                 /\ ~continueLine(r[i - 1])
        /\ r[i].type # "line" /\ r[i + 1].type # "line" /\ r[i + 1].line > r[i].line => continueLine(r[i])
    BY <2>1 DEF Split
  <2> QED BY <1>2, <2>1, <2>2
<1> QED BY <1>3, <1>4

\* A turn of insertNewline looks at a token and the one before.
LEMMA NewlineStep ==
    ASSUME Typed, Cut, Ended, insertNewline
    PROVE  /\ result' \in Seq(Tokens) /\ result' # <<>>
           /\ next' \in 2 .. Len(tokens) + 1
           /\ result'[Len(result')] = tokens[next' - 1]
           /\ Split(result')
<1> DEFINE u == tokens[next]
           t == tokens[next - 1]
           L == Len(result)
<1>1. /\ next \in 1 .. Len(tokens) /\ Len(tokens) \in Nat /\ next' = next + 1
      /\ tokens \in Seq(Tokens) /\ result \in Seq(Tokens)
  <2>1. tokens \in Seq(Tokens) /\ result \in Seq(Tokens) /\ next \in Nat \ {0} /\ next <= Len(tokens)
    BY DEF Typed, insertNewline
  <2>2. Len(tokens) \in Nat
    BY <2>1
  <2> QED BY <2>1, <2>2 DEF insertNewline
<1>2. u \in Tokens /\ u.type # "line"
  <2>1. u \in Tokens
    BY <1>1
  <2>2. u.type \in Types
    BY <1>1 DEF Cut, insertNewline
  <2> QED BY <2>1, <2>2 DEF Types
<1>3. /\ Split(result) /\ (next = 1 <=> result = <<>>)
      /\ next > 1 => result[L] = t
  BY DEF Ended, insertNewline
<1>4. ASSUME next > 1 PROVE t \in Tokens /\ t.type # "line"
  <2>1. next - 1 \in 1 .. Len(tokens)
    BY <1>1, <1>4
  <2>2. t \in Tokens
    BY <1>1, <2>1
  <2>3. t.type \in Types
    BY <2>1 DEF Cut, insertNewline
  <2> QED BY <2>2, <2>3 DEF Types
<1>5. ASSUME NEW r \in Seq(Tokens), result' = Append(r, u), Split(Append(r, u))
      PROVE  /\ result' \in Seq(Tokens) /\ result' # <<>>
             /\ next' \in 2 .. Len(tokens) + 1
             /\ result'[Len(result')] = tokens[next' - 1]
             /\ Split(result')
  <2>1. /\ Append(r, u) \in Seq(Tokens) /\ Len(r) \in Nat /\ Len(Append(r, u)) = Len(r) + 1
        /\ Append(r, u)[Len(r) + 1] = u
    BY <1>2, AppendFacts
  <2>2. next' \in 2 .. Len(tokens) + 1 /\ next' - 1 = next
    BY <1>1
  <2>3. Append(r, u) # <<>>
    BY <2>1
  <2> HIDE DEF u
  <2> QED BY <1>5, <2>1, <2>2, <2>3 DEF u
<1>6. CASE ~EndsStatement(next)
  <2>1. result' = Append(result, u)
    BY <1>6 DEF insertNewline
  <2>2. ASSUME result # <<>>
        PROVE  result[L] = t /\ t.type # "line" /\ (u.line > t.line => continueLine(t))
    <3>1. next > 1
      BY <1>1, <1>3, <2>2
    <3>2. t.line \in Int /\ u.line \in Int
      BY <1>2, <1>4, <3>1 DEF Tokens
    <3>3. u.line > t.line => t.line < u.line
      BY <3>2
    <3> QED BY <1>3, <1>4, <1>6, <3>1, <3>3 DEF EndsStatement
  <2> HIDE DEF u, t
  <2>3. Split(Append(result, u))
    BY <1>1, <1>2, <1>3, <2>2, SplitAppend
  <2> QED BY <1>1, <1>5, <2>1, <2>3
<1>7. CASE EndsStatement(next)
  <2> DEFINE e == getLineToken(t)
             r == Append(result, e)
  <2>1. next > 1 /\ t.line < u.line /\ ~continueLine(t)
    BY <1>7 DEF EndsStatement
  <2>2. result' = Append(r, u)
    BY <1>7 DEF insertNewline
  <2>3. e \in Tokens /\ e.type = "line" /\ e.line = t.line
    BY <1>4, <2>1, LineToken
  <2>4. result # <<>> /\ result[L] = t /\ t.type # "line"
    BY <1>1, <1>3, <1>4, <2>1
  <2> HIDE DEF e, u, t
  <2>5. Split(r) /\ r \in Seq(Tokens)
    <3>1. Split(r)
      BY <1>1, <1>3, <2>3, <2>4, SplitAppend
    <3> QED BY <1>1, <2>3, <3>1, AppendFacts
  <2>6. Len(r) > 1 /\ r[Len(r)] = e /\ r[Len(r) - 1] = t
    <3>1. L \in Nat \ {0}
      BY <1>1, <2>4
    <3>2. Len(r) = L + 1 /\ r[L + 1] = e /\ \A i \in 1 .. L : r[i] = result[i]
      BY <1>1, <2>3, AppendFacts
    <3> HIDE DEF r, L
    <3>3. Len(r) > 1 /\ Len(r) - 1 = L /\ L \in 1 .. L
      BY <3>1, <3>2
    <3> QED BY <2>4, <3>2, <3>3 DEF L
  <2>7. u.line > e.line
    <3>1. t.line \in Int /\ u.line \in Int
      BY <1>2, <1>4, <2>1 DEF Tokens
    <3> QED BY <2>1, <2>3, <3>1
  <2> HIDE DEF r
  <2>8. Split(Append(r, u))
    BY <1>2, <2>1, <2>3, <2>5, <2>6, <2>7, SplitAppend
  <2> QED BY <1>5, <2>2, <2>5, <2>8
<1> QED BY <1>6, <1>7

\* The last statement ends, and what insertNewline has made are the tokens.
LEMMA NewlinesOver ==
    ASSUME Typed, Cut, Ended, NewlinesEnd
    PROVE  tokens' \in Seq(Tokens) /\ StatementsEnd'
<1>1. /\ tokens \in Seq(Tokens) /\ result \in Seq(Tokens) /\ Split(result)
      /\ next \in 1 .. Len(tokens) + 1 /\ next > Len(tokens)
      /\ (next = 1 <=> result = <<>>) /\ (next > 1 => result[Len(result)] = tokens[next - 1])
  BY DEF Typed, Ended, NewlinesEnd
<1>2. Len(tokens) \in Nat /\ next = Len(tokens) + 1
  <2>1. Len(tokens) \in Nat
    BY <1>1
  <2> QED BY <1>1, <2>1
<1>3. CASE tokens = <<>>
  <2>1. result = <<>>
    BY <1>1, <1>2, <1>3
  <2>2. tokens' = <<>>
    BY <1>3, <2>1 DEF NewlinesEnd
  <2> QED BY <1>1, <2>1, <2>2 DEF StatementsEnd
<1>4. CASE tokens # <<>>
  <2> DEFINE t == Last(tokens)
             e == getLineToken(t)
             ts == Append(result, e)
  <2>1. Len(tokens) \in Nat \ {0} /\ t = tokens[Len(tokens)] /\ t \in Tokens
    BY <1>1, <1>4, FrontFacts
  <2>2. t.type # "line"
    <3>1. Len(tokens) \in 1 .. Len(tokens)
      BY <2>1
    <3>2. tokens[Len(tokens)].type \in Types
      BY <3>1 DEF Cut, NewlinesEnd
    <3> QED BY <2>1, <3>2 DEF Types
  <2>3. next > 1 /\ next - 1 = Len(tokens)
    BY <1>2, <2>1
  <2> HIDE DEF t
  <2>4. result # <<>> /\ result[Len(result)] = t
    BY <1>1, <2>1, <2>3
  <2>5. e \in Tokens /\ e.type = "line"
    BY <2>1, LineToken
  <2>6. tokens' = ts
    BY <1>4 DEF NewlinesEnd, t
  <2> HIDE DEF e
  <2>7. Split(ts)
    BY <1>1, <2>2, <2>4, <2>5, SplitAppend
  <2>8. ts \in Seq(Tokens) /\ ts # <<>> /\ Last(ts) = e
    <3>1. /\ ts \in Seq(Tokens) /\ Len(result) \in Nat /\ Len(ts) = Len(result) + 1
          /\ ts[Len(result) + 1] = e
      BY <1>1, <2>5, AppendFacts
    <3>2. ts # <<>>
      BY <3>1
    <3> HIDE DEF ts
    <3> QED BY <3>1, <3>2, FrontFacts
  <2> HIDE DEF ts
  <2> QED BY <2>5, <2>6, <2>7, <2>8 DEF StatementsEnd, Split
<1> QED BY <1>3, <1>4

-----------------------------------------------------------------------------
(* The invariant *)

LEMMA LinesStay ==
    ASSUME src' = src, lines' = lines
    PROVE  /\ \A o : LinesUpTo(o)' <=> LinesUpTo(o)
           /\ LinesUpTo(Size)' <=> LinesUpTo(Size)
<1>1. Size' = Size /\ \A s : Starts(s)' <=> Starts(s)
  BY SameSource
<1>2. \A o : LinesUpTo(o)' <=> LinesUpTo(o)
  BY <1>1 DEF LinesUpTo
<1> QED BY <1>1, <1>2

LEMMA SplitEmpty == Split(<<>>)
<1>1. 1 .. Len(<<>>) - 1 = {}
  OBVIOUS
<1> QED BY <1>1 DEF Split

LEMMA InitInv == Init => IInv
<1> SUFFICES ASSUME Init PROVE IInv
  OBVIOUS
<1>1. src \in Seq(Chars) /\ Size \in Nat
  <2>1. src \in Seq(Chars)
    BY SourcesAssumption DEF Init
  <2> QED BY <2>1 DEF Size
<1>2. Typed
  BY <1>1 DEF Typed, Init
<1>3. Lined
  <2>1. LinesUpTo(0)
    <3>1. 0 .. 0 - 1 = {} /\ lines = <<>>
      BY DEF Init
    <3>2. DOMAIN lines = {}
      BY <3>1
    <3> QED BY <3>1, <3>2 DEF LinesUpTo
  <2>2. Starts(0)
    BY DEF Starts
  <2> QED BY <1>1, <2>1, <2>2 DEF Lined, Init
<1>4. Cut
  BY DEF Cut, Init
<1>5. Matched
  BY DEF Matched, BracketsNest, Init
<1>6. Ended
  BY DEF Ended, Init
<1> QED BY <1>2, <1>3, <1>4, <1>5, <1>6 DEF IInv

LEMMA LinesInv ==
    ASSUME IInv, parseLines
    PROVE  IInv'
<1>1. Typed /\ Lined /\ Cut /\ Matched /\ Ended
  BY DEF IInv
<1>2. /\ pc = "lines" /\ src' = src /\ tokens' = tokens /\ next' = next
      /\ brackets' = brackets /\ result' = result
  BY DEF parseLines
<1>3. /\ pc' \in {"lines", "panic"}
      /\ lines' \in Seq([indent : Int, offset : Nat]) /\ offset' \in 0 .. Size
      /\ pc' = "lines" => LinesUpTo(offset)' /\ (offset' < Size => Starts(offset'))
  BY <1>1, LineStep
<1>4. Size' = Size /\ Size \in Nat /\ \A s : Starts(s)' <=> Starts(s)
  <2>1. Size \in Nat
    BY <1>1 DEF Typed, Size
  <2> QED BY <1>2, <2>1, SameSource
<1>5. Typed'
  <2>1. offset' \in 0 .. Size' + 1
    BY <1>3, <1>4
  <2> QED BY <1>1, <1>2, <1>3, <2>1 DEF Typed
<1>6. Lined'
  <2>1. pc' # "tokens" /\ offset' <= Size'
    BY <1>3, <1>4
  <2>2. pc' = "lines" => LinesUpTo(offset)' /\ (offset' < Size' => Starts(offset)')
    BY <1>3, <1>4
  <2> QED BY <2>1, <2>2 DEF Lined
<1>7. Cut'
  BY <1>1, <1>2, <1>3 DEF Cut
<1>8. Matched'
  <2>1. next' = 1 /\ brackets' = <<>>
    BY <1>1, <1>2 DEF Matched
  <2> QED BY <1>3, <2>1 DEF Matched, BracketsNest
<1>9. Ended'
  BY <1>1, <1>2, <1>3 DEF Ended
<1> QED BY <1>5, <1>6, <1>7, <1>8, <1>9 DEF IInv

LEMMA LinesEndInv ==
    ASSUME IInv, LinesEnd
    PROVE  IInv'
<1>1. Typed /\ Lined /\ Cut /\ Matched /\ Ended
  BY DEF IInv
<1>2. /\ pc = "lines" /\ pc' = "tokens" /\ offset >= Size /\ offset' = 0
      /\ UNCHANGED <<src, lines, tokens, next, brackets, result>>
  BY DEF LinesEnd
<1>3. Size' = Size /\ Size \in Nat /\ offset \in Nat
  <2>1. Size \in Nat /\ offset \in 0 .. Size + 1
    BY <1>1 DEF Typed, Size
  <2> QED BY <1>2, <2>1, SameSource
<1>4. Typed'
  <2>1. offset' \in 0 .. Size' + 1
    BY <1>2, <1>3
  <2> QED BY <1>1, <1>2, <2>1 DEF Typed
<1>5. Lined'
  <2>1. offset = Size /\ LinesUpTo(offset)
    <3>1. offset <= Size /\ LinesUpTo(offset)
      BY <1>1, <1>2 DEF Lined
    <3> QED BY <1>2, <1>3, <3>1
  <2>2. LinesUpTo(Size)'
    BY <1>2, <2>1, LinesStay
  <2> QED BY <1>2, <2>2 DEF Lined
<1>6. Cut'
  <2>1. tokens' = <<>>
    BY <1>1, <1>2 DEF Cut
  <2>2. Covered(tokens', 0)
    <3>1. Len(<<>>) = 0 /\ 1 .. 0 = {} /\ 1 .. 0 - 1 = {} /\ 0 .. 0 = {0} /\ 0 .. 0 - 1 = {}
      OBVIOUS
    <3>2. Skipped(0, 0)
      BY <3>1 DEF Skipped
    <3> QED BY <2>1, <3>1, <3>2 DEF Covered
  <2>3. Covered(tokens, 0)'
    BY <1>2, <2>2, CoverStays
  <2>4. Upto' = 0
    BY <1>2, <1>3 DEF Upto
  <2>5. Covered(tokens, Upto)'
    BY <2>3, <2>4
  <2> QED BY <1>2, <2>5 DEF Cut
<1>7. Matched'
  BY <1>1, <1>2 DEF Matched, BracketsNest
<1>8. Ended'
  BY <1>1, <1>2 DEF Ended
<1> QED BY <1>4, <1>5, <1>6, <1>7, <1>8 DEF IInv

LEMMA TokensInv ==
    ASSUME IInv, parseTokens
    PROVE  IInv'
<1>1. Typed /\ Lined /\ Cut /\ Matched /\ Ended
  BY DEF IInv
<1>2. /\ pc = "tokens" /\ offset < Size
      /\ UNCHANGED <<src, lines, next, brackets, result>>
  BY DEF parseTokens
<1>3. Size' = Size /\ tokens \in Seq(Tokens) /\ brackets = <<>> /\ next = 1 /\ result = <<>>
  BY <1>1, <1>2, SameSource DEF Typed, Matched, Ended
<1>4. offset \in 0 .. Size - 1 /\ Size \in Nat /\ Upto = offset /\ Covered(tokens, offset)
  <2>1. Upto = offset
    BY <1>2 DEF Upto
  <2>2. Covered(tokens, Upto)
    BY <1>1, <1>2 DEF Cut
  <2> QED BY <1>1, <2>1, <2>2, TokenStep
<1>5. Lined'
  <2>1. LinesUpTo(Size)'
    BY <1>1, <1>2, LinesStay DEF Lined
  <2>2. pc' # "lines"
    BY <1>2 DEF parseTokens
  <2> QED BY <2>1, <2>2 DEF Lined
<1>6. ASSUME pc' \in {"tokens", "panic"}, tokens' \in Seq(Tokens), offset' \in 0 .. Size + 1,
             pc' = "tokens" => Covered(tokens', IF offset' < Size THEN offset' ELSE Size)
      PROVE  IInv'
  <2>1. Typed'
    <3>1. brackets' \in Seq(1 .. Len(tokens'))
      BY <1>2, <1>3
    <3>2. offset' \in 0 .. Size' + 1
      BY <1>3, <1>6
    <3> QED BY <1>1, <1>2, <1>6, <3>1, <3>2 DEF Typed
  <2>2. Cut'
    <3>1. ASSUME pc' = "tokens" PROVE Covered(tokens, Upto)'
      <4>1. Upto' = IF offset' < Size THEN offset' ELSE Size
        BY <1>3, <3>1 DEF Upto
      <4>2. Covered(tokens', Upto')
        BY <1>6, <3>1, <4>1
      <4> QED BY <1>2, <4>2, CoverStays
    <3> QED BY <1>6, <3>1 DEF Cut
  <2>3. Matched'
    BY <1>2, <1>3, <1>6 DEF Matched, BracketsNest
  <2>4. Ended'
    BY <1>2, <1>3, <1>6 DEF Ended
  <2> QED BY <1>5, <2>1, <2>2, <2>3, <2>4 DEF IInv
<1>7. CASE pc' = "panic" /\ UNCHANGED <<tokens, offset>>
  <2>1. offset' \in 0 .. Size + 1
    BY <1>4, <1>7
  <2> QED BY <1>3, <1>6, <1>7, <2>1
<1>8. CASE /\ pc' = "tokens" /\ tokens' = tokens
           /\ offset' \in offset + 1 .. Size /\ Skipped(offset, offset')
  <2>1. offset' \in 0 .. Size + 1 /\ offset' \in offset .. Size /\ offset \in 0 .. Size
        /\ offset' = IF offset' < Size THEN offset' ELSE Size
    BY <1>4, <1>8
  <2>2. Covered(tokens, offset')
    BY <1>3, <1>4, <1>8, <2>1, CoverSkip
  <2> QED BY <1>3, <1>6, <1>8, <2>1, <2>2
<1>9. CASE /\ pc' = "tokens" /\ offset' \in offset + 1 .. Size + 1
           /\ \E t \in Tokens : /\ tokens' = Append(tokens, t) /\ t.offset = offset
                                /\ Good(t) /\ EndOf(t) = IF offset' < Size THEN offset' ELSE Size
  <2>1. PICK t \in Tokens : /\ tokens' = Append(tokens, t) /\ t.offset = offset
                            /\ Good(t) /\ EndOf(t) = IF offset' < Size THEN offset' ELSE Size
    BY <1>9
  <2>2. Covered(tokens', EndOf(t))
    BY <1>3, <1>4, <2>1, CoverCut
  <2>3. offset' \in 0 .. Size + 1
    BY <1>4, <1>9
  <2>4. tokens' \in Seq(Tokens)
    BY <1>3, <2>1, AppendFacts
  <2> QED BY <1>6, <1>9, <2>1, <2>2, <2>3, <2>4
<1> QED BY <1>1, <1>7, <1>8, <1>9, TokenStep

LEMMA TokensEndInv ==
    ASSUME IInv, TokensEnd
    PROVE  IInv'
<1>1. Typed /\ Lined /\ Cut /\ Matched /\ Ended
  BY DEF IInv
<1>2. /\ pc = "tokens" /\ offset >= Size /\ pc' = "brackets"
      /\ UNCHANGED <<src, lines, tokens, offset, next, brackets, result>>
  BY DEF TokensEnd
<1>3. /\ Size' = Size /\ Size \in Nat /\ offset \in Nat
      /\ tokens \in Seq(Tokens) /\ brackets = <<>> /\ next = 1
  <2>1. Size \in Nat /\ offset \in 0 .. Size + 1
    BY <1>1 DEF Typed, Size
  <2> QED BY <1>1, <1>2, <2>1, SameSource DEF Typed, Matched
<1>4. Typed'
  BY <1>1, <1>2, <1>3 DEF Typed
<1>5. Lined'
  BY <1>2 DEF Lined
<1>6. Cut'
  <2>1. Upto = Size /\ Upto' = Size
    BY <1>2, <1>3 DEF Upto
  <2>2. Covered(tokens', Upto')
    BY <1>1, <1>2, <2>1 DEF Cut
  <2>3. Covered(tokens, Upto)'
    BY <1>2, <2>2, CoverStays
  <2> QED BY <1>2, <2>3 DEF Cut
<1>7. Matched'
  <2>1. Stacked(next)'
    <3>1. Len(tokens) \in Nat /\ next' = 1 /\ brackets' = <<>> /\ Len(<<>>) = 0
      BY <1>2, <1>3
    <3>2. Depth(0)' = 0
      BY <1>2, <1>3, DepthStep, DepthStays
    <3>3. next' - 1 = 0 /\ next' \in 1 .. Len(tokens') + 1 /\ 1 .. 0 = {}
      BY <1>2, <3>1
    <3> QED BY <3>1, <3>2, <3>3 DEF Stacked
  <2> QED BY <1>2, <2>1 DEF Matched, BracketsNest
<1>8. Ended'
  BY <1>1, <1>2 DEF Ended
<1> QED BY <1>4, <1>5, <1>6, <1>7, <1>8 DEF IInv

LEMMA BracketsInv ==
    ASSUME IInv, matchBrackets
    PROVE  IInv'
<1>1. Typed /\ Lined /\ Cut /\ Matched /\ Ended
  BY DEF IInv
<1>2. pc = "brackets" /\ UNCHANGED <<src, lines, tokens, offset, result>>
  BY DEF matchBrackets
<1>3. /\ next' = next + 1 /\ brackets' \in Seq(1 .. Len(tokens))
      /\ \/ pc' = "brackets" /\ Stacked(next)'
         \/ pc' = "panic" /\ ~ Nested
  BY <1>1, <1>2, StackStep DEF Matched
<1>4. Size' = Size
  BY <1>2, SameSource
<1>5. Typed'
  <2>1. next' \in Nat \ {0}
    BY <1>1, <1>3 DEF Typed
  <2>2. brackets' \in Seq(1 .. Len(tokens'))
    BY <1>2, <1>3
  <2> QED BY <1>1, <1>2, <1>3, <1>4, <2>1, <2>2 DEF Typed
<1>6. Lined'
  BY <1>3 DEF Lined
<1>7. Cut'
  <2>1. ASSUME pc' = "brackets" PROVE Covered(tokens, Upto)'
    <3>1. Upto = Size /\ Upto' = Size
      BY <1>2, <1>4, <2>1 DEF Upto
    <3>2. Covered(tokens', Upto')
      BY <1>1, <1>2, <3>1 DEF Cut
    <3> QED BY <1>2, <3>2, CoverStays
  <2> QED BY <1>3, <2>1 DEF Cut
<1>8. Matched'
  <2>1. Nested' <=> Nested
    BY <1>2, DepthStays
  <2> QED BY <1>3, <2>1 DEF Matched, BracketsNest
<1>9. Ended'
  BY <1>1, <1>2, <1>3 DEF Ended
<1> QED BY <1>5, <1>6, <1>7, <1>8, <1>9 DEF IInv

LEMMA MatchEndInv ==
    ASSUME IInv, MatchEnd
    PROVE  IInv'
<1>1. Typed /\ Lined /\ Cut /\ Matched /\ Ended
  BY DEF IInv
<1>2. /\ pc = "brackets" /\ next > Len(tokens)
      /\ UNCHANGED <<src, lines, tokens, offset, brackets, result>>
      /\ \/ brackets = <<>> /\ pc' = "newlines" /\ next' = 1
         \/ brackets # <<>> /\ pc' = "panic" /\ next' = next
  BY DEF MatchEnd
<1>3. Stacked(next) /\ next = Len(tokens) + 1
  <2>1. Stacked(next)
    BY <1>1, <1>2 DEF Matched
  <2>2. next \in 1 .. Len(tokens) + 1 /\ tokens \in Seq(Tokens)
    BY <1>1, <2>1 DEF Stacked, Typed
  <2>3. Len(tokens) \in Nat
    BY <2>2
  <2> QED BY <1>2, <2>1, <2>2, <2>3
<1>4. brackets = <<>> <=> Nested
  BY <1>1, <1>3, StackEnd
<1>5. Typed'
  <2>1. next' \in Nat \ {0}
    BY <1>1, <1>2 DEF Typed
  <2>2. Size' = Size
    BY <1>2, SameSource
  <2> QED BY <1>1, <1>2, <2>1, <2>2 DEF Typed
<1>6. Lined'
  BY <1>2 DEF Lined
<1>7. Cut'
  <2>1. \A i \in 1 .. Len(tokens) : tokens[i].type \in Types
    BY <1>1, <1>2 DEF Cut, Covered, Good
  <2> QED BY <1>2, <2>1 DEF Cut
<1>8. Matched'
  <2>1. Nested' <=> Nested
    BY <1>2, DepthStays
  <2> QED BY <1>2, <1>4, <2>1 DEF Matched, BracketsNest
<1>9. Ended'
  <2>1. result' = <<>>
    BY <1>1, <1>2 DEF Ended
  <2>2. pc' = "newlines" => next' = 1 /\ next' \in 1 .. Len(tokens') + 1 /\ ~ (next' > 1)
    <3>1. Len(tokens) \in Nat
      BY <1>1 DEF Typed
    <3> QED BY <1>2, <3>1
  <2>3. Split(result')
    BY <2>1, SplitEmpty
  <2>4. Split(result)'
    BY <2>3 DEF Split
  <2> QED BY <1>2, <2>1, <2>2, <2>4 DEF Ended
<1> QED BY <1>5, <1>6, <1>7, <1>8, <1>9 DEF IInv

LEMMA NewlineInv ==
    ASSUME IInv, insertNewline
    PROVE  IInv'
<1>1. Typed /\ Lined /\ Cut /\ Matched /\ Ended
  BY DEF IInv
<1>2. pc = "newlines" /\ UNCHANGED <<src, pc, lines, tokens, offset, brackets>>
  BY DEF insertNewline
<1>3. /\ result' \in Seq(Tokens) /\ result' # <<>> /\ next' \in 2 .. Len(tokens) + 1
      /\ result'[Len(result')] = tokens[next' - 1] /\ Split(result')
  BY <1>1, NewlineStep
<1>4. Len(tokens) \in Nat
  BY <1>1 DEF Typed
<1>5. Typed'
  <2>1. next' \in Nat \ {0}
    BY <1>3, <1>4
  <2>2. Size' = Size
    BY <1>2, SameSource
  <2> QED BY <1>1, <1>2, <1>3, <2>1, <2>2 DEF Typed
<1>6. Lined'
  BY <1>2 DEF Lined
<1>7. Cut'
  BY <1>1, <1>2 DEF Cut
<1>8. Matched'
  <2>1. Nested'
    <3>1. Nested
      BY <1>1, <1>2 DEF Matched, BracketsNest
    <3> QED BY <1>2, <3>1, DepthStays
  <2> QED BY <1>1, <1>2, <2>1 DEF Matched, BracketsNest
<1>9. Ended'
  <2>1. next' # 1 /\ next' \in 1 .. Len(tokens') + 1
    BY <1>2, <1>3, <1>4
  <2>2. Split(result)'
    BY <1>3 DEF Split
  <2> QED BY <1>2, <1>3, <2>1, <2>2 DEF Ended
<1> QED BY <1>5, <1>6, <1>7, <1>8, <1>9 DEF IInv

LEMMA NewlinesEndInv ==
    ASSUME IInv, NewlinesEnd
    PROVE  IInv'
<1>1. Typed /\ Lined /\ Cut /\ Matched /\ Ended
  BY DEF IInv
<1>2. /\ pc = "newlines" /\ pc' = "done"
      /\ UNCHANGED <<src, lines, offset, next, brackets, result>>
  BY DEF NewlinesEnd
<1>3. tokens' \in Seq(Tokens) /\ StatementsEnd'
  BY <1>1, NewlinesOver
<1>4. brackets' = <<>>
  BY <1>1, <1>2 DEF Matched
<1>5. Typed'
  <2>1. brackets' \in Seq(1 .. Len(tokens'))
    BY <1>4
  <2>2. Size' = Size
    BY <1>2, SameSource
  <2> QED BY <1>1, <1>2, <1>3, <2>1, <2>2 DEF Typed
<1>6. Lined'
  BY <1>2 DEF Lined
<1>7. Cut'
  BY <1>2 DEF Cut
<1>8. Matched'
  BY <1>2, <1>4 DEF Matched, BracketsNest
<1>9. Ended'
  BY <1>2, <1>3 DEF Ended
<1> QED BY <1>5, <1>6, <1>7, <1>8, <1>9 DEF IInv

\* Nothing changes.
LEMMA StutterInv ==
    ASSUME IInv, UNCHANGED vars
    PROVE  IInv'
<1>1. Typed /\ Lined /\ Cut /\ Matched /\ Ended
  BY DEF IInv
<1>2. UNCHANGED <<src, pc, lines, tokens, offset, next, brackets, result>>
  BY DEF vars
<1>3. Size' = Size /\ (\A s : Starts(s)' <=> Starts(s)) /\ Upto' = Upto
  <2>1. Size' = Size /\ \A s : Starts(s)' <=> Starts(s)
    BY <1>2, SameSource
  <2> QED BY <1>2, <2>1 DEF Upto
<1>4. Typed'
  BY <1>1, <1>2, <1>3 DEF Typed
<1>5. Lined'
  <2>1. \A o : LinesUpTo(o)' <=> LinesUpTo(o)
    BY <1>2, LinesStay
  <2>2. /\ LinesUpTo(offset)' <=> LinesUpTo(offset)
        /\ LinesUpTo(Size)' <=> LinesUpTo(Size)
        /\ Starts(offset)' <=> Starts(offset)
    BY <1>2, <1>3, <2>1
  <2> QED BY <1>1, <1>2, <1>3, <2>2 DEF Lined
<1>6. Cut'
  <2>1. Covered(tokens, Upto) => Covered(tokens, Upto)'
    BY <1>2, <1>3, CoverStays
  <2> QED BY <1>1, <1>2, <2>1 DEF Cut
<1>7. Matched'
  <2>1. Nested' <=> Nested
    BY <1>2, DepthStays
  <2>2. Stacked(next)' <=> Stacked(next)
    <3>1. /\ \A i : Depth(i)' = Depth(i)
          /\ \A i : IsOpen(i)' <=> IsOpen(i)
          /\ \A i, j : ClosedAt(i, j)' <=> ClosedAt(i, j)
      BY <1>2, DepthStays
    <3> QED BY <1>2, <3>1 DEF Stacked
  <2> QED BY <1>1, <1>2, <2>1, <2>2 DEF Matched, BracketsNest
<1>8. Ended'
  <2>1. StatementsEnd' <=> StatementsEnd
    BY <1>2 DEF StatementsEnd
  <2>2. Split(result)' <=> Split(result)
    BY <1>2 DEF Split
  <2> QED BY <1>1, <1>2, <2>1, <2>2 DEF Ended
<1> QED BY <1>4, <1>5, <1>6, <1>7, <1>8 DEF IInv

LEMMA StepInv == IInv /\ [Next]_vars => IInv'
<1> SUFFICES ASSUME IInv, [Next]_vars PROVE IInv'
  OBVIOUS
<1>1. CASE parseLines
  BY <1>1, LinesInv
<1>2. CASE LinesEnd
  BY <1>2, LinesEndInv
<1>3. CASE parseTokens
  BY <1>3, TokensInv
<1>4. CASE TokensEnd
  BY <1>4, TokensEndInv
<1>5. CASE matchBrackets
  BY <1>5, BracketsInv
<1>6. CASE MatchEnd
  BY <1>6, MatchEndInv
<1>7. CASE insertNewline
  BY <1>7, NewlineInv
<1>8. CASE NewlinesEnd
  BY <1>8, NewlinesEndInv
<1>9. CASE Finished \/ UNCHANGED vars
  BY <1>9, StutterInv DEF Finished
<1> QED BY <1>1, <1>2, <1>3, <1>4, <1>5, <1>6, <1>7, <1>8, <1>9 DEF Next

\* The invariant that the theorems below follow from.
THEOREM TokenizerInvariant == Spec => []IInv
<1> QED BY InitInv, StepInv, PTL DEF Spec

-----------------------------------------------------------------------------
(* What the tokenizer promises *)

\* The tokens parseTokens cuts and tokenize locates, with space and comments,
\* are the whole source: none is lost, split or read twice, and the line and
\* the column of each are where it stands.
THEOREM TokensAreTheSource == Spec => []TokensCoverSource
<1>1. IInv => TokensCoverSource
  <2> SUFFICES ASSUME IInv PROVE TokensCoverSource
    OBVIOUS
  <2>1. Typed /\ Cut
    BY DEF IInv
  <2>2. TypeOK
    <3>1. brackets \in Seq(1 .. Len(tokens)) /\ tokens \in Seq(Tokens)
      BY <2>1 DEF Typed
    <3>2. DOMAIN tokens = 1 .. Len(tokens) /\ \A i \in DOMAIN brackets : brackets[i] \in 1 .. Len(tokens)
      BY <3>1, SeqFacts
    <3> QED BY <2>1, <3>2 DEF Typed, TypeOK
  <2>3. ASSUME pc = "brackets" PROVE Covered(tokens, Size)
    BY <2>1, <2>3 DEF Cut, Upto
  <2> QED BY <2>2, <2>3 DEF TokensCoverSource, Covered, Good
<1> QED BY <1>1, TokenizerInvariant, PTL

\* matchBrackets lets the brackets of a source pass exactly if they nest,
\* each closed by a bracket of its kind.
THEOREM NestingIsExact == Spec => []BracketsNest
<1>1. IInv => BracketsNest
  BY DEF IInv, Matched
<1> QED BY <1>1, TokenizerInvariant, PTL

\* insertNewline ends a statement exactly where the next token is on a later
\* line and the one before does not go on, and at the end of the source.
THEOREM StatementsEndAtLines == Spec => []StatementsEnd
<1>1. IInv => StatementsEnd
  BY DEF IInv, Ended, Typed, StatementsEnd
<1> QED BY <1>1, TokenizerInvariant, PTL
=============================================================================
