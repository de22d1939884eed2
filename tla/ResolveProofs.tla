--------------------------- MODULE ResolveProofs ---------------------------
(***************************************************************************)
(* Proofs about Resolve.tla, for every set of names and values and every   *)
(* bound on the depth of scopes and the number of bindings.                *)
(***************************************************************************)
EXTENDS Resolve, IntervalFacts, SequenceTheorems

\* An open scope unwinds to a place inside the stacks, and not below the scopes
\* around it.
TopsOK ==
    \A m \in Maps : \A k \in 1 .. Len(scopes) :
        /\ scopes[k].top[m] <= Len(stack[m])
        /\ \A j \in 1 .. k : scopes[j].top[m] <= scopes[k].top[m]

\* Generics are bound in the scope of a function or type, and nowhere else.
GenericsScoped ==
    /\ \A i \in 1 .. Len(stack["generics"]) : \E k \in 1 .. Len(scopes) :
          scopes[k].kind \in {"fn", "type"} /\ scopes[k].top["generics"] < i
    /\ \A i \in 1 .. Len(pending) : pending[i].map = "generics" =>
          scopes # <<>> /\ scopes[Len(scopes)].kind \in {"fn", "type"}

FunctionsOpen == Cardinality(FnScopes) = Len(functions)

\* Every name leads to its latest binding, every binding to the one it shadows.
Latest(m) ==
    /\ \A n \in Names : IsLast(stack[m], Len(stack[m]), n, data[m][n])
    /\ \A i \in 1 .. Len(stack[m]) :
          IsLast(stack[m], i - 1, stack[m][i].name, stack[m][i].shadow)

\* The inductive invariant.
ResInv == TypeOK /\ TopsOK /\ GenericsScoped /\ FunctionsOpen /\ \A m \in Maps : Latest(m)

LEMMA InitResInv == Init => ResInv
<1> SUFFICES ASSUME Init PROVE ResInv
  OBVIOUS
<1> USE DEF Init
<1>1. TypeOK
  <2>1. stack \in [Maps -> Seq(Binding)] /\ data \in [Maps -> [Names -> Nat]]
    <3>1. <<>> \in Seq(Binding) /\ [n \in Names |-> 0] \in [Names -> Nat]
      OBVIOUS
    <3> QED BY <3>1, Zenon
  <2>2. scopes \in Seq(Scope) /\ functions \in Seq(Functions) /\ pending \in Seq(Decl)
    OBVIOUS
  <2> QED BY <2>1, <2>2 DEF TypeOK
<1>2. FunctionsOpen
  <2>1. FnScopes = {} /\ Len(functions) = 0
    BY DEF FnScopes
  <2> QED BY <2>1, FS_EmptySet DEF FunctionsOpen
<1>3. \A m \in Maps : Latest(m)
  BY DEF Latest, IsLast
<1>4. TopsOK /\ GenericsScoped
  BY DEF TopsOK, GenericsScoped, Maps
<1> QED BY <1>1, <1>2, <1>3, <1>4 DEF ResInv
-----------------------------------------------------------------------------
(* NameMap::push and ResolveNames::pop.                                    *)

\* A new binding is the latest of its name, and shadows what was.
LEMMA PushKeeps ==
    ASSUME TypeOK, \A m \in Maps : Latest(m), NEW d \in Decl, push(d)
    PROVE  /\ stack' \in [Maps -> Seq(Binding)] /\ data' \in [Maps -> [Names -> Nat]]
           /\ \A m \in Maps : Latest(m)'
           /\ stack'[d.map] = Append(stack[d.map],
                  [name |-> d.name, value |-> d.value, shadow |-> data[d.map][d.name]])
           /\ data'[d.map][d.name] = Len(stack[d.map]) + 1
           /\ \A n \in Names : n # d.name => data'[d.map][n] = data[d.map][n]
           /\ \A m \in Maps : m # d.map => stack'[m] = stack[m] /\ data'[m] = data[m]
<1> DEFINE x == d.map
           a == d.name
           s == stack[x]
           b == [name |-> a, value |-> d.value, shadow |-> data[x][a]]
<1>1. /\ stack \in [Maps -> Seq(Binding)] /\ data \in [Maps -> [Names -> Nat]]
      /\ x \in Maps /\ a \in Names /\ d.value \in Values
  BY DEF TypeOK, Decl
<1>2. stack' = [stack EXCEPT ![x] = Append(s, b)] /\ data' = [data EXCEPT ![x][a] = Len(s) + 1]
  BY DEF push
<1>3. b \in Binding /\ b.name = a /\ b.shadow = data[x][a] /\ s \in Seq(Binding)
  BY <1>1 DEF Binding
<1> HIDE DEF x, a, b
<1>4. Append(s, b) \in Seq(Binding) /\ Len(s) \in Nat
  BY <1>3
<1>5. stack' \in [Maps -> Seq(Binding)] /\ stack'[x] = Append(s, b)
      /\ \A m \in Maps : m # x => stack'[m] = stack[m]
  BY <1>1, <1>2, <1>4
<1>6. /\ data' \in [Maps -> [Names -> Nat]] /\ data'[x][a] = Len(s) + 1
      /\ \A n \in Names : n # a => data'[x][n] = data[x][n]
      /\ \A m \in Maps : m # x => data'[m] = data[m]
  <2>1. data' = [data EXCEPT ![x] = [data[x] EXCEPT ![a] = Len(s) + 1]]
    BY <1>2
  <2>2. [data[x] EXCEPT ![a] = Len(s) + 1] \in [Names -> Nat]
    BY <1>1, <1>4
  <2> QED BY <1>1, <2>1, <2>2
<1>7. \A m \in Maps : m # x => Latest(m)'
  <2> SUFFICES ASSUME NEW m \in Maps, m # x PROVE Latest(m)'
    OBVIOUS
  <2>1. stack'[m] = stack[m] /\ data'[m] = data[m] /\ Latest(m)
    BY <1>5, <1>6
  <2> QED BY <2>1 DEF Latest, IsLast
<1>8. Latest(x)'
  <2> DEFINE t == Append(s, b)
  <2>1. /\ Len(t) = Len(s) + 1 /\ t[Len(s) + 1] = b
        /\ \A j \in 1 .. Len(s) : t[j] = s[j]
    BY <1>3
  <2> HIDE DEF t
  <2>2. \A n \in Names : IsLast(s, Len(s), n, data[x][n])
    BY <1>1 DEF Latest
  <2>3. \A i \in 1 .. Len(s) : IsLast(s, i - 1, s[i].name, s[i].shadow)
    BY <1>1 DEF Latest
  <2> HIDE DEF s
  <2>4. \A n \in Names : IsLast(t, Len(t), n, data'[x][n])
    <3> TAKE n \in Names
    <3>1. CASE n = a
      BY <1>3, <1>4, <1>6, <2>1, <3>1 DEF IsLast
    <3>2. CASE n # a
      BY <1>3, <1>4, <1>6, <2>1, <2>2, <3>2, SMTT(20) DEF IsLast
    <3> QED BY <3>1, <3>2
  <2>5. \A i \in 1 .. Len(t) : IsLast(t, i - 1, t[i].name, t[i].shadow)
    <3> TAKE i \in 1 .. Len(t)
    <3>1. CASE i = Len(s) + 1
      <4>1. IsLast(s, Len(s), a, data[x][a])
        BY <1>1, <2>2
      <4>2. IsLast(t, Len(s), a, data[x][a])
        BY <1>4, <2>1, <4>1 DEF IsLast
      <4>3. i - 1 = Len(s) /\ t[i] = b
        BY <1>4, <2>1, <3>1
      <4> QED BY <1>3, <4>2, <4>3
    <3>2. CASE i # Len(s) + 1
      <4>1. i \in 1 .. Len(s)
        BY <1>4, <2>1, <3>2
      <4>2. IsLast(s, i - 1, s[i].name, s[i].shadow) /\ t[i] = s[i]
        BY <2>1, <2>3, <4>1
      <4>3. \A j \in 1 .. i - 1 : t[j] = s[j]
        BY <1>4, <2>1, <4>1
      <4>4. IsLast(t, i - 1, s[i].name, s[i].shadow)
        <5> DEFINE sh == s[i].shadow
                   nm == s[i].name
                   k == i - 1
        <5>1. IsLast(s, k, nm, sh) /\ k \in Nat
          BY <4>1, <4>2
        <5> HIDE DEF sh, nm, k
        <5>2. \A j \in 1 .. k : t[j] = s[j]
          BY <4>3 DEF k
        <5>3. IsLast(t, k, nm, sh)
          BY <5>1, <5>2 DEF IsLast
        <5> QED BY <5>3 DEF sh, nm, k
      <4> QED BY <4>2, <4>4
    <3> QED BY <3>1, <3>2
  <2>6. stack'[x] = t
    BY <1>5 DEF t
  <2> QED BY <2>4, <2>5, <2>6 DEF Latest
<1>9. \A m \in Maps : Latest(m)'
  BY <1>7, <1>8
<1> QED BY <1>5, <1>6, <1>9 DEF x, a, b

LEMMA Prefix ==
    ASSUME NEW S, NEW q \in Seq(S), NEW k \in Nat, k <= Len(q)
    PROVE  /\ SubSeq(q, 1, k) \in Seq(S) /\ Len(SubSeq(q, 1, k)) = k
           /\ \A j \in 1 .. k : SubSeq(q, 1, k)[j] = q[j]
OBVIOUS

\* Unwinding one map: the lowest binding of a name that goes shadowed the latest
\* one that stays.
LEMMA PopDataKeeps ==
    ASSUME TypeOK, NEW m \in Maps, Latest(m), NEW k \in Nat, k <= Len(stack[m]), NEW n \in Names
    PROVE  popData(m, k)[n] \in Nat /\ IsLast(stack[m], k, n, popData(m, k)[n])
<1> DEFINE s == stack[m]
           above == {i \in k + 1 .. Len(s) : s[i].name = n}
           low == CHOOSE i \in above : \A j \in above : i <= j
<1>1. s \in Seq(Binding) /\ Len(s) \in Nat /\ data[m][n] \in Nat
  BY DEF TypeOK
<1>2. /\ IsLast(s, Len(s), n, data[m][n])
      /\ \A i \in 1 .. Len(s) : IsLast(s, i - 1, s[i].name, s[i].shadow)
  BY DEF Latest
<1>3. popData(m, k)[n] = IF above = {} THEN data[m][n] ELSE s[low].shadow
  BY DEF popData
<1>4. CASE above = {}
  <2>1. \A i \in k + 1 .. Len(s) : s[i].name # n
    BY <1>4
  <2> HIDE DEF s, above
  <2>2. data[m][n] \in 0 .. k
    BY <1>1, <1>2, <2>1 DEF IsLast
  <2>3. IsLast(s, k, n, data[m][n])
    BY <1>1, <1>2, <2>2 DEF IsLast, s
  <2> QED BY <1>1, <1>3, <1>4, <2>3 DEF s
<1>5. CASE above # {}
  <2>1. low \in above /\ \A j \in above : low <= j
    <3>1. above \in SUBSET Nat
      OBVIOUS
    <3> HIDE DEF above
    <3>2. \E i \in above : \A j \in above : i <= j
      BY <1>5, <3>1, Least
    <3> QED BY <3>2
  <2>2. low \in k + 1 .. Len(s) /\ s[low].name = n
    BY <2>1
  <2>3. \A j \in k + 1 .. Len(s) : j < low => s[j].name # n
    <3>1. \A j \in k + 1 .. Len(s) : s[j].name = n => j \in above
      OBVIOUS
    <3> HIDE DEF above, low, s
    <3> QED BY <1>1, <2>1, <2>2, <3>1
  <2>4. popData(m, k)[n] = s[low].shadow
    BY <1>3, <1>5
  <2> HIDE DEF s, above, low
  <2> DEFINE d == s[low].shadow
  <2>5. low \in 1 .. Len(s) /\ low - 1 >= k /\ IsLast(s, low - 1, n, d)
    BY <1>1, <1>2, <2>2
  <2> HIDE DEF d
  <2>6. d \in 0 .. low - 1
    BY <2>5 DEF IsLast
  <2>7. d <= k
    <3> SUFFICES ASSUME ~ (d <= k) PROVE FALSE
      OBVIOUS
    <3>1. d # 0 /\ d \in k + 1 .. Len(s) /\ d < low
      BY <1>1, <2>5, <2>6
    <3> QED BY <2>3, <2>5, <3>1 DEF IsLast
  <2>8. IsLast(s, k, n, d)
    BY <1>1, <2>5, <2>6, <2>7 DEF IsLast
  <2> QED BY <2>4, <2>6, <2>8 DEF d, s
<1> QED BY <1>4, <1>5

\* Unwinding leaves what was bound below the offset, and no name leads above it.
LEMMA PopKeeps ==
    ASSUME TypeOK, \A m \in Maps : Latest(m), NEW t \in [Maps -> Nat],
           \A m \in Maps : t[m] <= Len(stack[m]), pop(t)
    PROVE  /\ stack' \in [Maps -> Seq(Binding)] /\ data' \in [Maps -> [Names -> Nat]]
           /\ \A m \in Maps : Latest(m)'
           /\ \A m \in Maps : Len(stack'[m]) = t[m] /\ \A j \in 1 .. t[m] : stack'[m][j] = stack[m][j]
<1>1. \A m \in Maps : stack'[m] = SubSeq(stack[m], 1, t[m]) /\ data'[m] = popData(m, t[m])
  BY DEF pop
<1>2. ASSUME NEW m \in Maps
      PROVE  /\ stack[m] \in Seq(Binding) /\ t[m] \in Nat /\ t[m] <= Len(stack[m])
             /\ stack'[m] \in Seq(Binding) /\ Len(stack'[m]) = t[m]
             /\ \A j \in 1 .. t[m] : stack'[m][j] = stack[m][j]
  <2>1. stack[m] \in Seq(Binding) /\ t[m] \in Nat /\ t[m] <= Len(stack[m])
    BY DEF TypeOK
  <2> DEFINE s == stack[m]
             k == t[m]
  <2>2. s \in Seq(Binding) /\ k \in Nat /\ k <= Len(s)
    BY <2>1
  <2> HIDE DEF s, k
  <2>3. SubSeq(s, 1, k) \in Seq(Binding) /\ Len(SubSeq(s, 1, k)) = k
        /\ \A j \in 1 .. k : SubSeq(s, 1, k)[j] = s[j]
    BY <2>2, Prefix
  <2> QED BY <1>1, <2>1, <2>3 DEF s, k
<1>3. ASSUME NEW m \in Maps PROVE Latest(m)'
  <2>1. \A n \in Names : IsLast(stack'[m], t[m], n, data'[m][n])
    <3> TAKE n \in Names
    <3>1. IsLast(stack[m], t[m], n, data'[m][n])
      BY <1>1, <1>2, <1>3, PopDataKeeps
    <3> QED BY <1>2, <1>3, <3>1, SMTT(20) DEF IsLast
  <2>2. \A i \in 1 .. t[m] : IsLast(stack'[m], i - 1, stack'[m][i].name, stack'[m][i].shadow)
    <3> TAKE i \in 1 .. t[m]
    <3> DEFINE nm == stack[m][i].name
               sh == stack[m][i].shadow
               k == i - 1
    <3>1. IsLast(stack[m], k, nm, sh) /\ stack'[m][i] = stack[m][i]
      BY <1>2, <1>3 DEF Latest
    <3>2. k \in Nat /\ \A j \in 1 .. k : stack'[m][j] = stack[m][j]
      BY <1>2, <1>3
    <3> HIDE DEF nm, sh, k
    <3>3. IsLast(stack'[m], k, nm, sh)
      BY <3>1, <3>2 DEF IsLast
    <3> QED BY <3>1, <3>3 DEF nm, sh, k
  <2>3. Len(stack'[m]) = t[m]
    BY <1>2, <1>3
  <2> QED BY <2>1, <2>2, <2>3 DEF Latest
<1>4. stack' \in [Maps -> Seq(Binding)]
  <2>1. stack' = [m \in Maps |-> SubSeq(stack[m], 1, t[m])]
    BY DEF pop
  <2> QED BY <1>2, <2>1
<1>5. data' \in [Maps -> [Names -> Nat]]
  <2>1. \A m \in Maps : popData(m, t[m]) \in [Names -> Nat]
    <3> TAKE m \in Maps
    <3>1. \A n \in Names : popData(m, t[m])[n] \in Nat
      BY <1>2, PopDataKeeps
    <3>2. popData(m, t[m]) = [n \in Names |-> popData(m, t[m])[n]]
      BY DEF popData
    <3> QED BY <3>1, <3>2
  <2>2. data' = [m \in Maps |-> popData(m, t[m])]
    BY DEF pop
  <2> QED BY <2>1, <2>2
<1> QED BY <1>2, <1>3, <1>4, <1>5
-----------------------------------------------------------------------------
(* The visitor's steps.                                                    *)

\* A list of declarations is a sequence of members of the set.
LEMMA DeclListTypes ==
    ASSUME NEW S, NEW ds \in DeclLists(S)
    PROVE  ds \in Seq(S)
<1> USE ResolveAssumption
<1>1. PICK k \in {j \in 0 .. MaxDecls : Bound + j <= MaxStack} : ds \in [1 .. k -> S]
  BY DEF DeclLists
<1>2. k \in Nat
  OBVIOUS
<1> QED BY <1>1, <1>2

LEMMA ScopeTypes ==
    ASSUME TypeOK, NEW k \in 1 .. Len(scopes)
    PROVE  /\ scopes[k] \in Scope /\ scopes[k].top \in [Maps -> Nat]
           /\ \A m \in Maps : scopes[k].top[m] \in Nat
<1>1. scopes \in Seq(Scope)
  BY DEF TypeOK
<1>2. scopes[k] \in Scope
  BY <1>1
<1>3. scopes[k].top \in [Maps -> Nat]
  BY <1>2 DEF Scope
<1> QED BY <1>2, <1>3

\* Steps that bind nothing and open or leave no scope, and give the innermost
\* scope no generics to bind.
LEMMA QuietKeeps ==
    ASSUME ResInv, UNCHANGED <<data, stack, functions>>, pc' \in {"imports", "module", "body", "done"},
           scopes' \in Seq(Scope), Len(scopes') = Len(scopes),
           \A k \in 1 .. Len(scopes) :
              /\ scopes'[k].top = scopes[k].top
              /\ scopes'[k].kind = scopes[k].kind
                 \/ {scopes[k].kind, scopes'[k].kind} \cap {"fn", "type"} = {},
           pending' \in Seq(Decl), errors' \in BOOLEAN,
           pending' = pending \/ \A i \in 1 .. Len(pending') : pending'[i].map # "generics"
    PROVE  ResInv'
<1> USE DEF ResInv
<1>1. TypeOK'
  BY DEF TypeOK
<1>2. TopsOK'
  <2>1. \A m \in Maps : \A k \in 1 .. Len(scopes') : scopes'[k].top[m] = scopes[k].top[m]
    OBVIOUS
  <2>2. \A k \in 1 .. Len(scopes) : \A j \in 1 .. k : j \in 1 .. Len(scopes)
    BY DEF TypeOK
  <2> QED BY <2>1, <2>2 DEF TopsOK
<1>3. \A k \in 1 .. Len(scopes) :
         scopes'[k].kind \in {"fn", "type"} <=> scopes[k].kind \in {"fn", "type"}
  BY Zenon
<1>4. GenericsScoped'
  <2>1. \A i \in 1 .. Len(stack["generics"]') : \E k \in 1 .. Len(scopes') :
          scopes'[k].kind \in {"fn", "type"} /\ scopes'[k].top["generics"] < i
    BY <1>3 DEF GenericsScoped
  <2>2. \A i \in 1 .. Len(pending') : pending'[i].map = "generics" =>
          scopes' # <<>> /\ scopes'[Len(scopes')].kind \in {"fn", "type"}
    <3> SUFFICES ASSUME NEW i \in 1 .. Len(pending'), pending'[i].map = "generics"
                 PROVE  scopes' # <<>> /\ scopes'[Len(scopes')].kind \in {"fn", "type"}
      OBVIOUS
    <3>1. scopes # <<>> /\ scopes[Len(scopes)].kind \in {"fn", "type"} /\ scopes \in Seq(Scope)
      BY DEF GenericsScoped, TypeOK
    <3>2. Len(scopes) \in 1 .. Len(scopes)
      BY <3>1
    <3> QED BY <1>3, <3>1, <3>2
  <2> QED BY <2>1, <2>2 DEF GenericsScoped
<1>5. FunctionsOpen'
  <2>1. \A k \in 1 .. Len(scopes) : scopes'[k].kind = "fn" <=> scopes[k].kind = "fn"
    BY Zenon
  <2>2. FnScopes' = FnScopes
    BY <2>1 DEF FnScopes
  <2> QED BY <2>2 DEF FunctionsOpen
<1>6. \A m \in Maps : Latest(m)'
  BY DEF Latest, IsLast
<1> QED BY <1>1, <1>2, <1>4, <1>5, <1>6

\* A binding made in a scope goes on top of what the open scopes unwind to.
LEMMA BindingKeeps ==
    ASSUME ResInv, NEW d \in Decl, push(d), UNCHANGED <<pc, scopes, functions, errors>>,
           pending' \in Seq(Decl), \A i \in 1 .. Len(pending') : \E j \in 1 .. Len(pending) :
              pending'[i] = pending[j],
           d.map = "generics" => scopes # <<>> /\ scopes[Len(scopes)].kind \in {"fn", "type"}
    PROVE  ResInv'
<1> DEFINE b == [name |-> d.name, value |-> d.value, shadow |-> data[d.map][d.name]]
<1>1. /\ stack' \in [Maps -> Seq(Binding)] /\ data' \in [Maps -> [Names -> Nat]]
      /\ \A m \in Maps : Latest(m)'
      /\ stack'[d.map] = Append(stack[d.map], b)
      /\ \A m \in Maps : m # d.map => stack'[m] = stack[m]
  BY PushKeeps DEF ResInv
<1> HIDE DEF b
<1>2. TypeOK'
  BY <1>1 DEF ResInv, TypeOK
<1>3. \A m \in Maps : Len(stack'[m]) \in Nat /\ Len(stack[m]) \in Nat /\ Len(stack[m]) <= Len(stack'[m])
  <2> TAKE m \in Maps
  <2>1. stack[m] \in Seq(Binding) /\ stack'[m] \in Seq(Binding)
    BY <1>1 DEF ResInv, TypeOK
  <2>2. stack'[m] = stack[m] \/ Len(stack'[m]) = Len(stack[m]) + 1
    BY <1>1, <2>1
  <2> QED BY <2>1, <2>2
<1>4. \A k \in 1 .. Len(scopes) : \A m \in Maps : scopes[k].top[m] \in Nat
  BY ScopeTypes DEF ResInv
<1>5. TopsOK'
  BY <1>3, <1>4 DEF ResInv, TopsOK
<1>6. GenericsScoped'
  <2>1. ASSUME NEW i \in 1 .. Len(stack'["generics"])
        PROVE  \E k \in 1 .. Len(scopes') :
                  scopes'[k].kind \in {"fn", "type"} /\ scopes'[k].top["generics"] < i
    <3>1. "generics" \in Maps
      BY DEF Maps
    <3>2. CASE i \in 1 .. Len(stack["generics"])
      BY <3>2 DEF ResInv, GenericsScoped
    <3>3. CASE i \notin 1 .. Len(stack["generics"])
      <4>1. d.map = "generics" /\ i > Len(stack["generics"])
        BY <1>1, <1>3, <2>1, <3>1, <3>3
      <4>2. scopes \in Seq(Scope) /\ scopes # <<>> /\ scopes[Len(scopes)].kind \in {"fn", "type"}
        BY <4>1 DEF ResInv, TypeOK
      <4>3. Len(scopes) \in 1 .. Len(scopes)
        BY <4>2
      <4>4. scopes[Len(scopes)].top["generics"] <= Len(stack["generics"])
        BY <3>1, <4>3 DEF ResInv, TopsOK
      <4>5. scopes[Len(scopes)].top["generics"] < i
        BY <1>3, <1>4, <3>1, <4>1, <4>3, <4>4
      <4> QED BY <4>2, <4>3, <4>5
    <3> QED BY <3>2, <3>3
  <2> QED BY <2>1 DEF ResInv, GenericsScoped
<1>7. FunctionsOpen'
  <2>1. FnScopes' = FnScopes
    BY DEF FnScopes
  <2> QED BY <2>1 DEF ResInv, FunctionsOpen
<1> QED BY <1>1, <1>2, <1>5, <1>6, <1>7 DEF ResInv

\* A scope that is opened unwinds to what is bound when it is.
LEMMA OpenKeeps ==
    ASSUME ResInv, UNCHANGED <<data, stack>>, pc' \in {"imports", "module", "body", "done"},
           NEW kind \in {"block", "forExpr", "for", "fn", "type"},
           scopes' = Append(scopes, [kind |-> kind, top |-> top]),
           IF kind = "fn" THEN \E f \in Functions : functions' = Append(functions, f)
                          ELSE functions' = functions,
           pending' \in Seq(Decl), errors' \in BOOLEAN,
           kind \in {"fn", "type"} \/ \A i \in 1 .. Len(pending') : pending'[i].map # "generics"
    PROVE  ResInv'
<1> DEFINE n == Len(scopes)
           sc == [kind |-> kind, top |-> top]
<1>1. \A m \in Maps : top[m] = Len(stack[m]) /\ top[m] \in Nat
  BY DEF top, ResInv, TypeOK
<1>2. sc \in Scope /\ sc.kind = kind /\ sc.top = top
  <2>1. top \in [Maps -> Nat]
    BY <1>1 DEF top
  <2> QED BY <2>1 DEF Scope
<1> HIDE DEF sc
<1>3. /\ n \in Nat /\ scopes' \in Seq(Scope) /\ Len(scopes') = n + 1 /\ scopes'[n + 1] = sc
      /\ \A k \in 1 .. n : scopes'[k] = scopes[k]
  <2>1. scopes \in Seq(Scope) /\ scopes' = Append(scopes, sc)
    BY DEF ResInv, TypeOK, sc
  <2> QED BY <1>2, <2>1
<1>4. \A k \in 1 .. n : \A m \in Maps : scopes[k].top[m] \in Nat
  BY ScopeTypes DEF ResInv
<1>5. TypeOK'
  <2>1. functions' \in Seq(Functions)
    <3>1. functions \in Seq(Functions)
      BY DEF ResInv, TypeOK
    <3>2. ASSUME NEW f \in Functions PROVE Append(functions, f) \in Seq(Functions)
      BY <3>1
    <3> QED BY <3>1, <3>2
  <2> QED BY <1>3, <2>1 DEF ResInv, TypeOK
<1>a. n = Len(scopes)
  OBVIOUS
<1> HIDE DEF n
<1>6. TopsOK'
  <2> SUFFICES ASSUME NEW m \in Maps, NEW k \in 1 .. n + 1
               PROVE  /\ scopes'[k].top[m] <= Len(stack[m])
                      /\ \A j \in 1 .. k : scopes'[j].top[m] <= scopes'[k].top[m]
    BY <1>3 DEF TopsOK
  <2>1. CASE k \in 1 .. n
    <3>1. /\ scopes'[k] = scopes[k] /\ \A j \in 1 .. k : scopes'[j] = scopes[j]
      BY <1>3, <2>1
    <3>2. scopes[k].top[m] <= Len(stack[m]) /\ \A j \in 1 .. k : scopes[j].top[m] <= scopes[k].top[m]
      BY <1>a, <2>1 DEF ResInv, TopsOK
    <3> QED BY <3>1, <3>2
  <2>2. CASE k = n + 1
    <3> DEFINE len == Len(stack[m])
               at(j) == scopes'[j].top[m]
    <3>1. at(k) = len /\ len \in Nat
      BY <1>1, <1>2, <1>3, <2>2
    <3>2. ASSUME NEW j \in 1 .. k PROVE at(j) <= len
      <4>1. CASE j = n + 1
        <5>1. j = k
          BY <2>2, <4>1
        <5> HIDE DEF at, len
        <5> QED BY <3>1, <5>1
      <4>2. CASE j \in 1 .. n
        BY <1>3, <1>a, <4>2 DEF ResInv, TopsOK
      <4> QED BY <1>3, <2>2, <4>1, <4>2
    <3>3. at(k) <= len /\ \A j \in 1 .. k : at(j) <= at(k)
      <4> HIDE DEF at, len
      <4> QED BY <3>1, <3>2
    <3> QED BY <3>3
  <2> QED BY <1>3, <2>1, <2>2
<1>7. GenericsScoped'
  <2>1. ASSUME NEW i \in 1 .. Len(stack["generics"])
        PROVE  \E k \in 1 .. n + 1 :
                  scopes'[k].kind \in {"fn", "type"} /\ scopes'[k].top["generics"] < i
    <3>1. PICK k \in 1 .. n : scopes[k].kind \in {"fn", "type"} /\ scopes[k].top["generics"] < i
      BY <1>a DEF ResInv, GenericsScoped
    <3>2. k \in 1 .. n + 1 /\ scopes'[k] = scopes[k]
      BY <1>3, <3>1
    <3> QED BY <3>1, <3>2
  <2>2. scopes' # <<>> /\ scopes'[Len(scopes')].kind = kind
    <3>1. Len(scopes') # 0
      BY <1>3
    <3> QED BY <1>2, <1>3, <3>1
  <2> QED BY <1>3, <2>1, <2>2 DEF GenericsScoped
<1>8. FunctionsOpen'
  <2>1. FnScopes' = {k \in 1 .. n + 1 : scopes'[k].kind = "fn"} /\ FnScopes = {k \in 1 .. n : scopes[k].kind = "fn"}
    BY <1>3, <1>a DEF FnScopes
  <2>2. /\ n + 1 \in 1 .. n + 1 /\ n + 1 \notin 1 .. n
        /\ \A k \in 1 .. n : k \in 1 .. n + 1
        /\ \A k \in 1 .. n + 1 : k = n + 1 \/ k \in 1 .. n
    BY <1>3
  <2>3. IsFiniteSet(FnScopes) /\ Cardinality(FnScopes) = Len(functions)
    <3>1. FnScopes \in SUBSET (1 .. n) /\ FnScopes \in SUBSET FnScopes
      BY <2>1
    <3> QED BY <1>3, <3>1, BoundedFinite DEF ResInv, FunctionsOpen
  <2>4. functions \in Seq(Functions)
    BY DEF ResInv, TypeOK
  <2>5. CASE kind = "fn"
    <3>1. FnScopes' = FnScopes \cup {n + 1} /\ n + 1 \notin FnScopes
      BY <1>2, <1>3, <2>1, <2>2, <2>5
    <3>2. Cardinality(FnScopes') = Cardinality(FnScopes) + 1
      BY <2>3, <3>1, FS_AddElement
    <3>3. Len(functions') = Len(functions) + 1
      BY <2>4, <2>5
    <3> QED BY <2>3, <3>2, <3>3 DEF FunctionsOpen
  <2>6. CASE kind # "fn"
    <3>1. FnScopes' = FnScopes
      BY <1>2, <1>3, <2>1, <2>2, <2>6
    <3> QED BY <2>3, <2>6, <3>1 DEF FunctionsOpen
  <2> QED BY <2>5, <2>6
<1>9. \A m \in Maps : Latest(m)'
  BY DEF ResInv, Latest, IsLast
<1> QED BY <1>5, <1>6, <1>7, <1>8, <1>9 DEF ResInv

\* Leaving a scope unwinds the maps to where it began.
LEMMA LeaveKeeps ==
    ASSUME ResInv, Leave
    PROVE  ResInv'
<1> DEFINE n == Len(scopes)
           s == scopes[n]
<1>1. /\ s.kind # "forExpr" /\ scopes # <<>> /\ pop(s.top)
      /\ functions' = IF s.kind = "fn" THEN SubSeq(functions, 1, Len(functions) - 1) ELSE functions
      /\ scopes' = SubSeq(scopes, 1, n - 1)
      /\ pc' = (IF n = 1 THEN "done" ELSE "body")
      /\ UNCHANGED <<pending, errors>> /\ pending = <<>>
  BY DEF Leave, Visiting
<1>2. /\ scopes \in Seq(Scope) /\ functions \in Seq(Functions) /\ n \in Nat \ {0}
      /\ scopes' \in Seq(Scope) /\ Len(scopes') = n - 1
      /\ \A k \in 1 .. n - 1 : scopes'[k] = scopes[k]
  <2>1. scopes \in Seq(Scope) /\ functions \in Seq(Functions)
    BY DEF ResInv, TypeOK
  <2>2. n \in Nat \ {0}
    BY <1>1, <2>1
  <2>3. n - 1 \in Nat /\ n - 1 <= Len(scopes)
    BY <2>2
  <2> QED BY <1>1, <2>1, <2>2, <2>3, Prefix
<1>a. n = Len(scopes) /\ n \in 1 .. n
  BY <1>2
<1>3. s.top \in [Maps -> Nat] /\ \A m \in Maps : s.top[m] <= Len(stack[m])
  BY <1>a, ScopeTypes DEF ResInv, TopsOK
<1> HIDE DEF n, s
<1>4. /\ stack' \in [Maps -> Seq(Binding)] /\ data' \in [Maps -> [Names -> Nat]]
      /\ \A m \in Maps : Latest(m)'
      /\ \A m \in Maps : Len(stack'[m]) = s.top[m] /\ \A j \in 1 .. s.top[m] : stack'[m][j] = stack[m][j]
  BY <1>1, <1>3, PopKeeps DEF ResInv
<1>5. functions' \in Seq(Functions)
  <2>1. SubSeq(functions, 1, Len(functions) - 1) \in Seq(Functions)
    BY <1>2
  <2> QED BY <1>1, <1>2, <2>1
<1>6. TypeOK'
  BY <1>1, <1>2, <1>4, <1>5 DEF ResInv, TypeOK
<1>7. \A k \in 1 .. n - 1 : k \in 1 .. n /\ \A j \in 1 .. k : j \in 1 .. n - 1
  BY <1>2
<1>8. TopsOK'
  <2> SUFFICES ASSUME NEW m \in Maps, NEW k \in 1 .. n - 1
               PROVE  /\ scopes'[k].top[m] <= Len(stack'[m])
                      /\ \A j \in 1 .. k : scopes'[j].top[m] <= scopes'[k].top[m]
    BY <1>2 DEF TopsOK
  <2>1. scopes'[k] = scopes[k] /\ \A j \in 1 .. k : scopes'[j] = scopes[j]
    BY <1>2, <1>7
  <2>2. scopes[k].top[m] <= scopes[n].top[m] /\ \A j \in 1 .. k : scopes[j].top[m] <= scopes[k].top[m]
    BY <1>7, <1>a DEF ResInv, TopsOK
  <2>3. Len(stack'[m]) = scopes[n].top[m]
    BY <1>4 DEF s
  <2> QED BY <2>1, <2>2, <2>3
<1>9. GenericsScoped'
  <2>1. ASSUME NEW i \in 1 .. Len(stack'["generics"])
        PROVE  \E k \in 1 .. n - 1 :
                  scopes'[k].kind \in {"fn", "type"} /\ scopes'[k].top["generics"] < i
    <3>1. "generics" \in Maps
      BY DEF Maps
    <3>2. /\ Len(stack'["generics"]) = s.top["generics"] /\ s.top["generics"] \in Nat
          /\ s.top["generics"] <= Len(stack["generics"]) /\ Len(stack["generics"]) \in Nat
      BY <1>3, <1>4, <3>1 DEF ResInv, TypeOK
    <3>3. i \in 1 .. Len(stack["generics"]) /\ ~ (s.top["generics"] < i)
      BY <2>1, <3>2
    <3>4. PICK k \in 1 .. n : scopes[k].kind \in {"fn", "type"} /\ scopes[k].top["generics"] < i
      BY <1>a, <3>3 DEF ResInv, GenericsScoped
    <3>5. k # n
      BY <3>3, <3>4 DEF s
    <3>6. k \in 1 .. n - 1
      BY <1>2, <3>4, <3>5
    <3> QED BY <1>2, <3>4, <3>6
  <2>2. Len(pending') = 0
    BY <1>1
  <2> QED BY <1>2, <2>1, <2>2 DEF GenericsScoped
<1>10. FunctionsOpen'
  <2>1. FnScopes' = {k \in 1 .. n - 1 : scopes[k].kind = "fn"} /\ FnScopes = {k \in 1 .. n : scopes[k].kind = "fn"}
    BY <1>2, <1>a DEF FnScopes
  <2>2. /\ n \notin 1 .. n - 1 /\ \A k \in 1 .. n - 1 : k \in 1 .. n
        /\ \A k \in 1 .. n : k = n \/ k \in 1 .. n - 1
    BY <1>2
  <2>3. IsFiniteSet(FnScopes) /\ Cardinality(FnScopes) = Len(functions)
    <3>1. FnScopes \in SUBSET (1 .. n) /\ FnScopes \in SUBSET FnScopes /\ n \in Nat
      BY <1>2, <2>1
    <3> QED BY <3>1, BoundedFinite DEF ResInv, FunctionsOpen
  <2>4. CASE s.kind = "fn"
    <3>1. FnScopes' = FnScopes \ {n} /\ n \in FnScopes
      BY <1>a, <2>1, <2>2, <2>4 DEF s
    <3>2. Cardinality(FnScopes') = Cardinality(FnScopes) - 1
      BY <2>3, <3>1, FS_RemoveElement
    <3>3. Len(functions) \in Nat \ {0}
      BY <1>2, <2>3, <3>1, FS_EmptySet
    <3>4. functions' = SubSeq(functions, 1, Len(functions) - 1)
      BY <1>1, <2>4
    <3>5. Len(functions') = Len(functions) - 1
      <4>1. Len(functions) - 1 \in Nat /\ Len(functions) - 1 <= Len(functions)
        BY <3>3
      <4> QED BY <1>2, <3>4, <4>1, Prefix
    <3> QED BY <2>3, <3>2, <3>5 DEF FunctionsOpen
  <2>5. CASE s.kind # "fn"
    <3>1. FnScopes' = FnScopes
      BY <2>1, <2>2, <2>5 DEF s
    <3> QED BY <1>1, <2>3, <2>5, <3>1 DEF FunctionsOpen
  <2> QED BY <2>4, <2>5
<1> QED BY <1>4, <1>6, <1>8, <1>9, <1>10 DEF ResInv

\* What each kind of scope may bind.
LEMMA ListsTyped ==
    /\ \A ds \in DeclLists(Declarations) :
          ds \in Seq(Decl) /\ \A i \in 1 .. Len(ds) : ds[i].map # "generics"
    /\ \A ds \in DeclLists(Locals) :
          ds \in Seq(Decl) /\ \A i \in 1 .. Len(ds) : ds[i].map # "generics"
    /\ \A ds \in DeclLists(Decls("generics")) : ds \in Seq(Decl)
<1>1. ASSUME NEW S, S \subseteq Decl, \A d \in S : d.map # "generics", NEW ds \in DeclLists(S)
      PROVE  ds \in Seq(Decl) /\ \A i \in 1 .. Len(ds) : ds[i].map # "generics"
  <2>1. ds \in Seq(S)
    BY DeclListTypes
  <2>2. \A i \in 1 .. Len(ds) : ds[i] \in S
    BY <2>1
  <2>3. ds \in Seq(Decl)
    BY <1>1, <2>1
  <2> QED BY <1>1, <2>2, <2>3
<1>2. Declarations \subseteq Decl /\ \A d \in Declarations : d.map # "generics"
  BY DEF Declarations, Decls
<1>3. Locals \subseteq Decl /\ \A d \in Locals : d.map # "generics"
  BY DEF Locals, Decls
<1>4. ASSUME NEW ds \in DeclLists(Decls("generics")) PROVE ds \in Seq(Decl)
  <2>1. ds \in Seq(Decls("generics")) /\ Decls("generics") \subseteq Decl
    BY DeclListTypes DEF Decls
  <2> QED BY <2>1
<1> QED BY <1>1, <1>2, <1>3, <1>4

LEMMA NextResInv == ResInv /\ [Next]_vars => ResInv'
<1> SUFFICES ASSUME ResInv, [Next]_vars PROVE ResInv'
  OBVIOUS
<1>1. /\ pending \in Seq(Decl) /\ scopes \in Seq(Scope) /\ functions \in Seq(Functions)
      /\ pc \in {"imports", "module", "body", "done"} /\ errors \in BOOLEAN
  BY DEF ResInv, TypeOK
<1>2. CASE Bind
  <2>1. /\ pending # <<>> /\ push(Head(pending)) /\ pending' = Tail(pending)
        /\ UNCHANGED <<pc, scopes, functions, errors>>
    BY <1>2 DEF Bind
  <2>2. /\ Head(pending) \in Decl /\ Head(pending) = pending[1] /\ 1 \in 1 .. Len(pending)
        /\ pending' \in Seq(Decl)
        /\ \A i \in 1 .. Len(pending') : i + 1 \in 1 .. Len(pending) /\ pending'[i] = pending[i + 1]
    BY <1>1, <2>1
  <2>3. Head(pending).map = "generics" => scopes # <<>> /\ scopes[Len(scopes)].kind \in {"fn", "type"}
    BY <2>2 DEF ResInv, GenericsScoped
  <2> QED BY <2>1, <2>2, <2>3, BindingKeeps
<1>3. CASE AutoImports \/ Import
  <2>1. PICK ds \in DeclLists(Declarations) : pending' = ds
    BY <1>3 DEF AutoImports, Import
  <2>2. UNCHANGED <<data, stack, scopes, functions, errors>> /\ pc' \in {"module", pc}
    BY <1>3 DEF AutoImports, Import
  <2> QED BY <1>1, <2>1, <2>2, ListsTyped, QuietKeeps
<1>4. CASE EnterBlock
  <2>1. PICK ds \in DeclLists(Declarations) : pending' = ds
    BY <1>4 DEF EnterBlock
  <2>2. /\ UNCHANGED <<data, stack, functions, errors>> /\ pc' = "body"
        /\ scopes' = Append(scopes, [kind |-> "block", top |-> top])
    BY <1>4 DEF EnterBlock, Open
  <2>3. \A i \in 1 .. Len(pending') : pending'[i].map # "generics"
    BY <2>1, ListsTyped
  <2>4. pending' \in Seq(Decl)
    BY <2>1, ListsTyped
  <2> QED BY <1>1, <2>2, <2>3, <2>4, OpenKeeps
<1>5. CASE EnterFor
  <2>1. /\ UNCHANGED <<pc, data, stack, functions, pending, errors>> /\ pending = <<>>
        /\ scopes' = Append(scopes, [kind |-> "forExpr", top |-> top])
    BY <1>5 DEF EnterFor, Open, Visiting
  <2>2. \A i \in 1 .. Len(pending') : pending'[i].map # "generics"
    BY <2>1
  <2> QED BY <1>1, <2>1, <2>2, OpenKeeps
<1>6. CASE BindFor
  <2> DEFINE n == Len(scopes)
             s == [scopes[n] EXCEPT !.kind = "for"]
  <2>1. /\ scopes # <<>> /\ scopes[n].kind = "forExpr"
        /\ scopes' = [scopes EXCEPT ![n] = s]
        /\ UNCHANGED <<pc, data, stack, functions, errors>>
    BY <1>6 DEF BindFor
  <2>2. PICK ds \in DeclLists(Locals) : pending' = ds
    BY <1>6 DEF BindFor
  <2>3. n \in 1 .. Len(scopes) /\ scopes[n] \in Scope
    BY <1>1, <2>1
  <2>4. s \in Scope /\ s.kind = "for" /\ s.top = scopes[n].top
    BY <2>3 DEF Scope
  <2> HIDE DEF s, n
  <2>5. /\ scopes' \in Seq(Scope) /\ Len(scopes') = Len(scopes)
        /\ \A k \in 1 .. Len(scopes) : scopes'[k] = IF k = n THEN s ELSE scopes[k]
    BY <1>1, <2>1, <2>3, <2>4
  <2>6. \A k \in 1 .. Len(scopes) :
           /\ scopes'[k].top = scopes[k].top
           /\ scopes'[k].kind = scopes[k].kind
              \/ {scopes[k].kind, scopes'[k].kind} \cap {"fn", "type"} = {}
    <3> TAKE k \in 1 .. Len(scopes)
    <3>1. CASE k = n
      <4>1. scopes'[k].kind = "for" /\ scopes[k].kind = "forExpr" /\ scopes'[k].top = scopes[k].top
        BY <2>1, <2>4, <2>5, <3>1
      <4>2. {scopes[k].kind, scopes'[k].kind} \cap {"fn", "type"} = {}
        BY <4>1
      <4> QED BY <4>1, <4>2
    <3>2. CASE k # n
      BY <2>5, <3>2
    <3> QED BY <3>1, <3>2
  <2>7. pending' \in Seq(Decl) /\ \A i \in 1 .. Len(pending') : pending'[i].map # "generics"
    BY <2>2, ListsTyped
  <2> QED BY <1>1, <2>1, <2>5, <2>6, <2>7, QuietKeeps
<1>7. CASE \E f \in Functions : EnterFn(f)
  <2>1. PICK f \in Functions : EnterFn(f)
    BY <1>7
  <2>2. PICK gs \in DeclLists(Decls("generics")), as \in DeclLists(Locals) : pending' = gs \o as
    BY <2>1 DEF EnterFn
  <2>3. /\ UNCHANGED <<pc, data, stack, errors>> /\ functions' = Append(functions, f)
        /\ scopes' = Append(scopes, [kind |-> "fn", top |-> top])
    BY <2>1 DEF EnterFn, Open
  <2>4. pending' \in Seq(Decl)
    <3>1. gs \in Seq(Decl) /\ as \in Seq(Decl)
      BY ListsTyped
    <3>2. gs \o as \in Seq(Decl)
      BY <3>1, ConcatProperties
    <3> QED BY <2>2, <3>2
  <2> QED BY <1>1, <2>3, <2>4, OpenKeeps
<1>8. CASE EnterType
  <2>1. PICK gs \in DeclLists(Decls("generics")) : pending' = gs
    BY <1>8 DEF EnterType
  <2>2. /\ UNCHANGED <<pc, data, stack, functions, errors>>
        /\ scopes' = Append(scopes, [kind |-> "type", top |-> top])
    BY <1>8 DEF EnterType, Open
  <2>3. pending' \in Seq(Decl)
    BY <2>1, ListsTyped
  <2> QED BY <1>1, <2>2, <2>3, OpenKeeps
<1>9. CASE Leave
  BY <1>9, LeaveKeeps
<1>10. CASE VarDecl
  <2>1. PICK d \in Locals : push(d)
    BY <1>10 DEF VarDecl
  <2>2. UNCHANGED <<pc, scopes, functions, pending, errors>>
    BY <1>10 DEF VarDecl
  <2>3. d \in Decl /\ d.map # "generics"
    BY DEF Locals, Decls
  <2> QED BY <1>1, <2>1, <2>2, <2>3, BindingKeeps
<1>11. CASE (\E n \in Names : Ident(n) \/ TypeInstance(n)) \/ UNCHANGED vars
  <2>1. UNCHANGED <<data, stack, functions, pc, scopes, pending>> /\ errors' \in BOOLEAN
    BY <1>1, <1>11 DEF Ident, TypeInstance, vars
  <2> QED BY <1>1, <2>1, QuietKeeps
<1> QED BY <1>2, <1>3, <1>4, <1>5, <1>6, <1>7, <1>8, <1>9, <1>10, <1>11 DEF Next

\* The maps of resolve.cpp have the right types, and the counts and tops that
\* the visitor saves are in order.
THEOREM Invariance == Spec => []ResInv
BY InitResInv, NextResInv, PTL DEF Spec

\* After any sequence of declarations, scopes and unwindings no name leads to a
\* binding that was popped or past one that was not, and the function scopes
\* are those of the functions being visited.
THEOREM NameMapsCorrect == Spec => []NameMapOK
<1>1. ResInv => NameMapOK
  <2> SUFFICES ASSUME ResInv PROVE NameMapOK
    OBVIOUS
  <2>1. \A k \in 1 .. Len(scopes) : \A m \in Maps :
          scopes[k].top[m] <= (IF k = Len(scopes) THEN Len(stack[m]) ELSE scopes[k + 1].top[m])
    <3> TAKE k \in 1 .. Len(scopes)
    <3> TAKE m \in Maps
    <3>1. Len(scopes) \in Nat
      BY DEF ResInv, TypeOK
    <3>2. k # Len(scopes) => k + 1 \in 1 .. Len(scopes) /\ k \in 1 .. k + 1
      BY <3>1
    <3> QED BY <3>2 DEF ResInv, TopsOK
  <2>2. NestingOK
    BY <2>1 DEF NestingOK, ResInv, FunctionsOpen, GenericsScoped
  <2> QED BY <2>2 DEF NameMapOK, ResInv, Latest
<1> QED BY <1>1, Invariance, PTL
-----------------------------------------------------------------------------
(* The maps implement nested lexical scopes.                               *)

\* Scope i of the abstract specification has the bindings of map m between
\* these places of its stack.
Lo(i, m) == IF i = 1 THEN 0 ELSE scopes[i - 1].top[m]
Hi(i, m) == IF i > Len(scopes) THEN Len(stack[m]) ELSE scopes[i].top[m]
Item(b) == [name |-> b.name, value |-> b.value]

Items == Seq([name : Names, value : Values])
FramesOK ==
    /\ Frames \in Seq([Maps -> Items]) /\ Len(Frames) = Len(scopes) + 1
    /\ \A i \in 1 .. Len(scopes) + 1, m \in Maps :
          /\ Lo(i, m) \in Nat /\ Hi(i, m) \in Nat /\ Lo(i, m) <= Hi(i, m)
          /\ Hi(i, m) <= Len(stack[m])
          /\ Frames[i][m] \in Items /\ Len(Frames[i][m]) = Hi(i, m) - Lo(i, m)
          /\ \A j \in 1 .. Hi(i, m) - Lo(i, m) : Frames[i][m][j] = Item(stack[m][Lo(i, m) + j])

LEMMA FramesShape == ResInv => FramesOK
<1> SUFFICES ASSUME ResInv PROVE FramesOK
  OBVIOUS
<1> DEFINE n == Len(scopes) + 1
           e(i, m) == [j \in 1 .. Hi(i, m) - Lo(i, m) |-> Item(stack[m][Lo(i, m) + j])]
<1>1. scopes \in Seq(Scope) /\ Len(scopes) \in Nat /\ n \in Nat /\ TypeOK
  BY DEF ResInv, TypeOK
<1>2. Frames = [i \in 1 .. n |-> [m \in Maps |-> e(i, m)]]
  BY DEF Frames, Lo, Hi, Item
<1>3. ASSUME NEW i \in 1 .. n, NEW m \in Maps
      PROVE  /\ Lo(i, m) \in Nat /\ Hi(i, m) \in Nat /\ Lo(i, m) <= Hi(i, m)
             /\ Hi(i, m) <= Len(stack[m])
  <2>1. Len(stack[m]) \in Nat
    BY <1>1 DEF TypeOK
  <2>2. \A k \in 1 .. Len(scopes) : scopes[k].top[m] \in Nat /\ scopes[k].top[m] <= Len(stack[m])
    BY <1>1, ScopeTypes DEF ResInv, TopsOK
  <2>3. \A k \in 1 .. Len(scopes) : \A j \in 1 .. k : scopes[j].top[m] <= scopes[k].top[m]
    BY DEF ResInv, TopsOK
  <2>4. i # 1 => i - 1 \in 1 .. Len(scopes)
    BY <1>1
  <2>5. i <= Len(scopes) => i \in 1 .. Len(scopes) /\ (i # 1 => i - 1 \in 1 .. i)
    BY <1>1
  <2>6. Lo(i, m) \in Nat /\ Lo(i, m) <= Len(stack[m])
    BY <2>1, <2>2, <2>4 DEF Lo
  <2>7. CASE i > Len(scopes)
    BY <2>1, <2>6, <2>7 DEF Hi
  <2>8. CASE i <= Len(scopes)
    <3>1. Hi(i, m) = scopes[i].top[m]
      BY <1>1, <2>8 DEF Hi
    <3>2. Lo(i, m) <= scopes[i].top[m]
      BY <2>2, <2>3, <2>4, <2>5, <2>8 DEF Lo
    <3> QED BY <2>2, <2>5, <2>6, <2>8, <3>1, <3>2
  <2> QED BY <1>1, <2>7, <2>8
<1>4. ASSUME NEW i \in 1 .. n, NEW m \in Maps
      PROVE  /\ e(i, m) \in Items /\ Len(e(i, m)) = Hi(i, m) - Lo(i, m)
             /\ \A j \in 1 .. Hi(i, m) - Lo(i, m) : e(i, m)[j] = Item(stack[m][Lo(i, m) + j])
  <2> DEFINE len == Hi(i, m) - Lo(i, m)
             T == [name : Names, value : Values]
  <2>1. len \in Nat /\ \A j \in 1 .. len : Lo(i, m) + j \in 1 .. Len(stack[m])
    <3>1. /\ Lo(i, m) \in Nat /\ Hi(i, m) \in Nat /\ Lo(i, m) <= Hi(i, m)
          /\ Hi(i, m) <= Len(stack[m]) /\ Len(stack[m]) \in Nat
      BY <1>1, <1>3, <1>4 DEF TypeOK
    <3> QED BY <3>1
  <2>2. \A p \in 1 .. Len(stack[m]) : Item(stack[m][p]) \in T
    <3>1. stack[m] \in Seq(Binding)
      BY <1>1 DEF TypeOK
    <3>2. \A p \in 1 .. Len(stack[m]) : stack[m][p] \in Binding
      BY <3>1
    <3> QED BY <3>2 DEF Item, Binding
  <2>3. \A j \in 1 .. len : Item(stack[m][Lo(i, m) + j]) \in T
    BY <2>1, <2>2
  <2> HIDE DEF T
  <2>4. e(i, m) \in [1 .. len -> T]
    BY <2>3
  <2>5. \A j \in 1 .. len : e(i, m)[j] = Item(stack[m][Lo(i, m) + j])
    OBVIOUS
  <2> HIDE DEF e, len
  <2>6. e(i, m) \in Seq(T) /\ Len(e(i, m)) = len
    BY <2>1, <2>4
  <2> QED BY <2>5, <2>6 DEF Items, T, len
<1>5. \A i \in 1 .. n, m \in Maps : Frames[i][m] = e(i, m)
  <2> HIDE DEF e, n
  <2> QED BY <1>2
<1>6. Frames \in Seq([Maps -> Items]) /\ Len(Frames) = n
  <2>1. \A i \in 1 .. n, m \in Maps : e(i, m) \in Items
    BY <1>4
  <2> HIDE DEF e, n
  <2>2. Frames \in [1 .. n -> [Maps -> Items]]
    BY <1>2, <2>1
  <2> QED BY <1>1, <2>2
<1> HIDE DEF e
<1> QED BY <1>3, <1>4, <1>5, <1>6 DEF FramesOK

\* A scope whose part of a stack is the same has the same bindings in its map.
LEMMA FrameMapStays ==
    ASSUME FramesOK, FramesOK', NEW i \in 1 .. Len(scopes) + 1, i \in 1 .. Len(scopes') + 1,
           NEW m \in Maps, Lo(i, m)' = Lo(i, m), Hi(i, m)' = Hi(i, m),
           \A p \in 1 .. Hi(i, m) : stack'[m][p] = stack[m][p]
    PROVE  Frames'[i][m] = Frames[i][m]
<1> DEFINE len == Hi(i, m) - Lo(i, m)
           f == Frames[i][m]
           g == Frames'[i][m]
<1>1. /\ Lo(i, m) \in Nat /\ Hi(i, m) \in Nat /\ Lo(i, m) <= Hi(i, m)
      /\ f \in Items /\ Len(f) = len
      /\ \A j \in 1 .. len : f[j] = Item(stack[m][Lo(i, m) + j])
  BY DEF FramesOK
<1>2. /\ g \in Items /\ Len(g) = len
      /\ \A j \in 1 .. len : g[j] = Item(stack'[m][Lo(i, m) + j])
  BY DEF FramesOK
<1>3. \A j \in 1 .. len : Lo(i, m) + j \in 1 .. Hi(i, m)
  BY <1>1
<1> HIDE DEF f, g, len
<1>4. \A j \in 1 .. Len(f) : f[j] = g[j]
  BY <1>1, <1>2, <1>3
<1>5. f = g
  BY <1>1, <1>2, <1>4, SeqEqual DEF Items
<1> QED BY <1>5 DEF f, g

\* And in all of them.
LEMMA FrameStays ==
    ASSUME FramesOK, FramesOK', NEW i \in 1 .. Len(scopes) + 1, i \in 1 .. Len(scopes') + 1,
           \A m \in Maps : /\ Lo(i, m)' = Lo(i, m) /\ Hi(i, m)' = Hi(i, m)
                           /\ \A p \in 1 .. Hi(i, m) : stack'[m][p] = stack[m][p]
    PROVE  Frames'[i] = Frames[i]
<1>1. Frames[i] \in [Maps -> Items] /\ Frames'[i] \in [Maps -> Items]
  BY DEF FramesOK
<1>2. \A m \in Maps : Frames'[i][m] = Frames[i][m]
  BY FrameMapStays
<1> QED BY <1>1, <1>2

\* Steps that change no stack and no top change nothing of what is promised.
LEMMA QuietStutters ==
    ASSUME FramesOK, FramesOK', UNCHANGED <<data, stack>>, Len(scopes') = Len(scopes),
           Len(scopes) \in Nat, \A k \in 1 .. Len(scopes) : scopes'[k].top = scopes[k].top
    PROVE  /\ Frames' = Frames
           /\ UNCHANGED [m \in Maps |-> [n \in Names |-> find(m, n)]]
<1>1. \A i \in 1 .. Len(scopes) + 1 : Frames'[i] = Frames[i]
  <2> TAKE i \in 1 .. Len(scopes) + 1
  <2>1. (i # 1 => i - 1 \in 1 .. Len(scopes)) /\ (~ (i > Len(scopes)) => i \in 1 .. Len(scopes))
    OBVIOUS
  <2>2. \A m \in Maps : Lo(i, m)' = Lo(i, m) /\ Hi(i, m)' = Hi(i, m)
    BY <2>1 DEF Lo, Hi
  <2> QED BY <2>2, FrameStays
<1>2. Frames' = Frames
  <2>1. /\ Frames \in Seq([Maps -> Items]) /\ Frames' \in Seq([Maps -> Items])
        /\ Len(Frames) = Len(scopes) + 1 /\ Len(Frames') = Len(scopes) + 1
    BY DEF FramesOK
  <2>2. \A i \in 1 .. Len(Frames) : Frames[i] = Frames'[i]
    BY <1>1, <2>1
  <2> QED BY <2>1, <2>2, SeqEqual
<1>3. \A m, n : find(m, n)' = find(m, n)
  BY DEF find
<1> QED BY <1>2, <1>3

\* Opening a scope adds an empty one.
LEMMA OpenOpens ==
    ASSUME FramesOK, FramesOK', ResInv, UNCHANGED <<data, stack>>, NEW kind,
           scopes' = Append(scopes, [kind |-> kind, top |-> top])
    PROVE  Lexical!Open
<1> DEFINE n == Len(scopes)
           E == Lexical!EmptyFrame
<1>1. /\ n \in Nat /\ Len(scopes') = n + 1 /\ scopes'[n + 1].top = top
      /\ \A k \in 1 .. n : scopes'[k] = scopes[k]
  <2>1. scopes \in Seq(Scope)
    BY DEF ResInv, TypeOK
  <2> QED BY <2>1
<1>2. \A m \in Maps : top[m] = Len(stack[m])
  BY DEF top
<1>3. /\ Frames \in Seq([Maps -> Items]) /\ Frames' \in Seq([Maps -> Items])
      /\ Len(Frames) = n + 1 /\ Len(Frames') = n + 2
  BY <1>1 DEF FramesOK
<1>a. n = Len(scopes)
  OBVIOUS
<1> HIDE DEF n
<1>4. ASSUME NEW i \in 1 .. n + 1 PROVE Frames'[i] = Frames[i]
  <2>1. i \in 1 .. Len(scopes') + 1 /\ i \in 1 .. Len(scopes) + 1
    BY <1>1, <1>a, <1>4
  <2>2. /\ i # 1 => i - 1 \in 1 .. n
        /\ i > n => i = n + 1
        /\ ~ (i > n) => i \in 1 .. n
        /\ ~ (i > n + 1)
    BY <1>1, <1>4
  <2>3. \A m \in Maps : Lo(i, m)' = Lo(i, m) /\ Hi(i, m)' = Hi(i, m)
    BY <1>1, <1>2, <1>a, <2>2 DEF Lo, Hi
  <2> QED BY <1>a, <2>1, <2>3, FrameStays
<1>5. Frames'[n + 2] = E
  <2>a. PICK x \in Nat : x = n + 2
    BY <1>1
  <2>1. x \in 1 .. Len(scopes') + 1 /\ x # 1 /\ x - 1 = n + 1 /\ x > Len(scopes')
    BY <1>1, <2>a
  <2>2. \A m \in Maps : Lo(x, m)' = Len(stack[m]) /\ Hi(x, m)' = Len(stack[m])
    <3> TAKE m \in Maps
    <3>1. scopes'[x - 1].top[m] = Len(stack[m])
      BY <1>1, <1>2, <2>1
    <3>2. Lo(x, m)' = scopes'[x - 1].top[m]
      BY <2>1 DEF Lo
    <3>3. Hi(x, m)' = Len(stack'[m])
      BY <2>1 DEF Hi
    <3> QED BY <3>1, <3>2, <3>3
  <2>3. ASSUME NEW m \in Maps PROVE Frames'[x][m] = <<>>
    <3>1. Frames'[x][m] \in Items /\ Len(Frames'[x][m]) = Hi(x, m)' - Lo(x, m)'
      BY <2>1, <2>3 DEF FramesOK
    <3>2. Len(stack[m]) \in Nat
      BY DEF ResInv, TypeOK
    <3>3. Len(Frames'[x][m]) = 0
      BY <2>2, <3>1, <3>2
    <3> QED BY <3>1, <3>3, EmptySeq DEF Items
  <2>4. Frames'[x] \in [Maps -> Items]
    BY <1>1, <1>3, <2>1
  <2>5. Frames'[x] = E
    BY <2>3, <2>4 DEF Lexical!EmptyFrame
  <2> QED BY <2>5, <2>a
<1>6. Frames' = Append(Frames, E)
  <2>1. E \in [Maps -> Items]
    BY EmptySeq DEF Lexical!EmptyFrame, Items
  <2> HIDE DEF E
  <2>2. /\ Append(Frames, E) \in Seq([Maps -> Items]) /\ Len(Append(Frames, E)) = n + 2
        /\ \A i \in 1 .. n + 1 : Append(Frames, E)[i] = Frames[i]
        /\ Append(Frames, E)[n + 2] = E
    BY <1>1, <1>3, <2>1
  <2>3. \A i \in 1 .. n + 2 : i = n + 2 \/ i \in 1 .. n + 1
    BY <1>1
  <2>4. \A i \in 1 .. n + 2 : Frames'[i] = Append(Frames, E)[i]
    BY <1>4, <1>5, <2>2, <2>3 DEF E
  <2> QED BY <1>3, <2>2, <2>4, SeqEqual
<1>7. \A m, x : find(m, x)' = find(m, x)
  BY DEF find
<1> QED BY <1>6, <1>7 DEF Lexical!Open

\* A binding is a declaration in the innermost scope.
LEMMA PushDeclares ==
    ASSUME FramesOK, FramesOK', ResInv, NEW d \in Decl, push(d), UNCHANGED scopes
    PROVE  \E m \in Maps, n \in Names, v \in Values : Lexical!Declare(m, n, v)
<1> DEFINE x == d.map
           a == d.name
           v == d.value
           l == Len(scopes) + 1
           item == [name |-> a, value |-> v]
<1>1. x \in Maps /\ a \in Names /\ v \in Values
  BY DEF Decl
<1>2. /\ stack'[x] = Append(stack[x], [name |-> a, value |-> v, shadow |-> data[x][a]])
      /\ stack' \in [Maps -> Seq(Binding)]
      /\ data'[x][a] = Len(stack[x]) + 1
      /\ \A n \in Names : n # a => data'[x][n] = data[x][n]
      /\ \A m \in Maps : m # x => stack'[m] = stack[m] /\ data'[m] = data[m]
  BY PushKeeps DEF ResInv
<1>3. /\ stack \in [Maps -> Seq(Binding)] /\ Len(scopes) \in Nat
      /\ \A m \in Maps : Len(stack[m]) \in Nat
  BY DEF ResInv, TypeOK
<1>4. /\ Len(stack'[x]) = Len(stack[x]) + 1
      /\ stack'[x][Len(stack[x]) + 1].name = a /\ stack'[x][Len(stack[x]) + 1].value = v
      /\ \A p \in 1 .. Len(stack[x]) : stack'[x][p] = stack[x][p]
  <2> DEFINE b == [name |-> a, value |-> v, shadow |-> data[x][a]]
  <2>1. b.name = a /\ b.value = v
    OBVIOUS
  <2> HIDE DEF b
  <2>2. stack'[x] = Append(stack[x], b) /\ stack[x] \in Seq(Binding)
    BY <1>1, <1>2, <1>3 DEF b
  <2>3. Append(stack[x], b)[Len(stack[x]) + 1] = b /\ Len(Append(stack[x], b)) = Len(stack[x]) + 1
        /\ \A p \in 1 .. Len(stack[x]) : Append(stack[x], b)[p] = stack[x][p]
    BY <2>2
  <2> QED BY <2>1, <2>2, <2>3
<1> HIDE DEF x, a, v
<1>5. \A m \in Maps : \A p \in 1 .. Len(stack[m]) : stack'[m][p] = stack[m][p]
  BY <1>2, <1>4
<1>6. /\ Frames \in Seq([Maps -> Items]) /\ Len(Frames) = l
      /\ Frames' \in Seq([Maps -> Items]) /\ Len(Frames') = l
  BY <1>3 DEF FramesOK
<1>7. ASSUME NEW i \in 1 .. l, NEW m \in Maps, i # l \/ m # x
      PROVE  Frames'[i][m] = Frames[i][m]
  <2>1. Lo(i, m)' = Lo(i, m)
    BY DEF Lo
  <2>2. Hi(i, m)' = Hi(i, m)
    <3>1. CASE i = l
      BY <1>2, <1>3, <1>7, <3>1 DEF Hi
    <3>2. CASE i # l
      <4>1. ~ (i > Len(scopes))
        BY <1>3, <3>2
      <4> QED BY <4>1 DEF Hi
    <3> QED BY <3>1, <3>2
  <2>3. Hi(i, m) \in Nat /\ Hi(i, m) <= Len(stack[m])
    BY DEF FramesOK
  <2>4. \A p \in 1 .. Hi(i, m) : stack'[m][p] = stack[m][p]
    BY <1>3, <1>5, <2>3
  <2>5. i \in 1 .. Len(scopes') + 1
    OBVIOUS
  <2> QED BY <2>1, <2>2, <2>4, <2>5, FrameMapStays
<1>8. Frames'[l][x] = Append(Frames[l][x], item)
  <2>1. PICK i \in Nat, m \in Maps : i = l /\ m = x
    BY <1>1, <1>3
  <2> DEFINE f == Frames[i][m]
             g == Frames'[i][m]
             lo == Lo(i, m)
             n == Len(stack[m])
             len == n - lo
  <2>2. i \in 1 .. Len(scopes) + 1 /\ i \in 1 .. Len(scopes') + 1 /\ i > Len(scopes) /\ i > Len(scopes')
    BY <1>3, <2>1
  <2>3. Hi(i, m) = n /\ Hi(i, m)' = n + 1 /\ Lo(i, m)' = lo
    <3>1. Hi(i, m) = n
      BY <2>2 DEF Hi
    <3>2. Hi(i, m)' = Len(stack'[m])
      BY <2>2 DEF Hi
    <3>3. Lo(i, m)' = lo
      BY DEF Lo
    <3> QED BY <1>4, <2>1, <3>1, <3>2, <3>3
  <2>4. /\ lo \in Nat /\ n \in Nat /\ lo <= n
        /\ f \in Items /\ Len(f) = len
        /\ \A j \in 1 .. len : f[j] = Item(stack[m][lo + j])
    <3>1. /\ lo \in Nat /\ Hi(i, m) \in Nat /\ lo <= Hi(i, m)
          /\ f \in Items /\ Len(f) = Hi(i, m) - lo
          /\ \A j \in 1 .. Hi(i, m) - lo : f[j] = Item(stack[m][lo + j])
      BY <2>2 DEF FramesOK
    <3> QED BY <2>3, <3>1
  <2>5. /\ g \in Items /\ Len(g) = (n + 1) - lo
        /\ \A j \in 1 .. (n + 1) - lo : g[j] = Item(stack'[m][lo + j])
    BY <2>2, <2>3, SMTT(20) DEF FramesOK
  <2> HIDE DEF f, g, lo, n
  <2>6. \A j \in 1 .. len : lo + j \in 1 .. n
    BY <2>4
  <2>7. \A p \in 1 .. n : stack'[m][p] = stack[m][p]
    BY <1>4, <2>1 DEF n
  <2>8. stack'[m][n + 1].name = a /\ stack'[m][n + 1].value = v
    BY <1>4, <2>1 DEF n
  <2>9. Item(stack'[m][n + 1]) = item
    BY <2>8 DEF Item
  <2>10. item \in [name : Names, value : Values]
    BY <1>1
  <2> HIDE DEF item, len
  <2>11. len \in Nat /\ (n + 1) - lo = len + 1 /\ lo + (len + 1) = n + 1
    BY <2>4 DEF len
  <2>12. \A j \in 1 .. len : g[j] = f[j]
    <3> TAKE j \in 1 .. len
    <3>1. g[j] = Item(stack'[m][lo + j])
      BY <2>5, <2>11
    <3> QED BY <2>4, <2>6, <2>7, <3>1
  <2>13. g[len + 1] = item
    BY <2>5, <2>9, <2>11
  <2>14. /\ Append(f, item) \in Items /\ Len(Append(f, item)) = len + 1
         /\ \A j \in 1 .. len : Append(f, item)[j] = f[j]
         /\ Append(f, item)[len + 1] = item
    BY <2>4, <2>10 DEF Items
  <2>15. \A j \in 1 .. len + 1 : g[j] = Append(f, item)[j]
    <3>1. \A j \in 1 .. len + 1 : j = len + 1 \/ j \in 1 .. len
      BY <2>11
    <3> QED BY <2>12, <2>13, <2>14, <3>1
  <2>16. g = Append(f, item)
    BY <2>5, <2>11, <2>14, <2>15, SeqEqual DEF Items
  <2> QED BY <2>1, <2>16 DEF f, g
<1>9. Frames' = [Frames EXCEPT ![l][x] = Append(@, item)]
  <2> DEFINE G == [Frames[l] EXCEPT ![x] = Append(Frames[l][x], item)]
             F == [Frames EXCEPT ![l] = G]
  <2>1. l \in 1 .. l /\ Frames[l] \in [Maps -> Items]
    BY <1>3, <1>6
  <2>2. \A i \in 1 .. l : Frames'[i] \in [Maps -> Items] /\ Frames[i] \in [Maps -> Items]
    BY <1>6
  <2>3. Frames'[l] = G
    <3>1. \A m \in Maps : Frames'[l][m] = G[m]
      BY <1>1, <1>7, <1>8, <2>1
    <3>2. Frames'[l] \in [Maps -> Items]
      BY <2>1, <2>2
    <3>3. G = [m \in Maps |-> G[m]]
      BY <2>1
    <3> HIDE DEF G
    <3> QED BY <3>1, <3>2, <3>3
  <2>4. G \in [Maps -> Items]
    BY <2>1, <2>2, <2>3
  <2>5. \A i \in 1 .. l : i # l => Frames'[i] = Frames[i]
    BY <1>7, <2>2
  <2> HIDE DEF G
  <2>6. /\ F \in Seq([Maps -> Items]) /\ Len(F) = l
        /\ \A i \in 1 .. l : F[i] = IF i = l THEN G ELSE Frames[i]
    BY <1>6, <2>1, <2>4, ExceptSeq
  <2> HIDE DEF F
  <2>7. Frames' = F
    BY <1>6, <2>3, <2>5, <2>6, SeqEqual
  <2> QED BY <2>7 DEF F, G
<1>10. [m \in Maps |-> [n \in Names |-> find(m, n)]]'
          = [[m \in Maps |-> [n \in Names |-> find(m, n)]] EXCEPT ![x][a] = v]
  <2>1. \A m \in Maps, n \in Names :
           find(m, n)' = IF m = x /\ n = a THEN v ELSE find(m, n)
    <3> TAKE m \in Maps, n \in Names
    <3>1. CASE m = x /\ n = a
      <4>1. data'[m][n] = Len(stack[x]) + 1 /\ data'[m][n] # 0
        BY <1>1, <1>2, <1>3, <3>1
      <4> QED BY <1>4, <3>1, <4>1 DEF find
    <3>2. CASE ~ (m = x /\ n = a)
      <4>1. data'[m][n] = data[m][n]
        BY <1>2, <3>2
      <4>2. data[m][n] # 0 => data[m][n] \in 1 .. Len(stack[m])
        BY <1>3 DEF ResInv, Latest, IsLast
      <4> QED BY <1>5, <3>2, <4>1, <4>2 DEF find
    <3> QED BY <3>1, <3>2
  <2> DEFINE B == [m \in Maps |-> [n \in Names |-> find(m, n)]]
             C == [m \in Maps |-> [n \in Names |-> IF m = x /\ n = a THEN v ELSE find(m, n)]]
  <2>2. [m \in Maps |-> [n \in Names |-> find(m, n)]]' = C
    BY <2>1
  <2>3. [B EXCEPT ![x][a] = v] = C
    <3>1. [B EXCEPT ![x][a] = v] = [B EXCEPT ![x] = [B[x] EXCEPT ![a] = v]]
      OBVIOUS
    <3>2. [B[x] EXCEPT ![a] = v] = C[x]
      BY <1>1
    <3>3. \A m \in Maps : m # x => B[m] = C[m]
      OBVIOUS
    <3>4. [B EXCEPT ![x] = C[x]] = C
      BY <1>1, <3>3
    <3> HIDE DEF B, C
    <3> QED BY <3>1, <3>2, <3>4
  <2> QED BY <2>2, <2>3
<1>11. Lexical!Declare(x, a, v)
  BY <1>6, <1>9, <1>10 DEF Lexical!Declare
<1> QED BY <1>1, <1>11

\* What a name map finds is the innermost, latest declaration of the name.
LEMMA Scoped ==
    ResInv => \A m \in Maps, n \in Names : find(m, n) = Lexical!Innermost(Frames, m, n)
<1> SUFFICES ASSUME ResInv, NEW m \in Maps, NEW n \in Names
             PROVE  find(m, n) = Lexical!Innermost(Frames, m, n)
  OBVIOUS
<1> DEFINE s == stack[m]
           l == Len(scopes) + 1
           d == data[m][n]
           hits == UNION {{<<i, j>> : j \in {k \in DOMAIN Frames[i][m] : Frames[i][m][k].name = n}} :
                             i \in DOMAIN Frames}
           Above(p) == \A q \in hits : q[1] < p[1] \/ (q[1] = p[1] /\ q[2] <= p[2])
           last == CHOOSE p \in hits : Above(p)
           pos(i, j) == Lo(i, m) + j
<1>1. Lexical!Innermost(Frames, m, n) = IF hits = {} THEN None ELSE Frames[last[1]][m][last[2]].value
  BY DEF Lexical!Innermost
<1>2. /\ d \in Nat /\ d \in 0 .. Len(s)
      /\ d # 0 => s[d].name = n
      /\ \A j \in d + 1 .. Len(s) : s[j].name # n
      /\ Len(s) \in Nat /\ l \in Nat /\ 1 <= l
  BY DEF ResInv, TypeOK, Latest, IsLast
<1>3. find(m, n) = IF d = 0 THEN None ELSE s[d].value
  BY DEF find
<1>4. /\ Frames \in Seq([Maps -> Items]) /\ Len(Frames) = l
      /\ \A i \in 1 .. l :
            /\ Lo(i, m) \in Nat /\ Hi(i, m) \in Nat /\ Lo(i, m) <= Hi(i, m)
            /\ Hi(i, m) <= Len(s)
            /\ Frames[i][m] \in Items /\ Len(Frames[i][m]) = Hi(i, m) - Lo(i, m)
            /\ \A j \in 1 .. Hi(i, m) - Lo(i, m) : Frames[i][m][j] = Item(s[pos(i, j)])
  BY FramesShape DEF FramesOK
<1>5. /\ DOMAIN Frames = 1 .. l
      /\ \A i \in 1 .. l : DOMAIN Frames[i][m] = 1 .. Hi(i, m) - Lo(i, m)
  BY <1>4 DEF Items
<1>6. \A i \in 1 .. l : \A j \in 1 .. Hi(i, m) - Lo(i, m) :
         Frames[i][m][j].name = s[pos(i, j)].name /\ Frames[i][m][j].value = s[pos(i, j)].value
  <2> TAKE i \in 1 .. l
  <2> TAKE j \in 1 .. Hi(i, m) - Lo(i, m)
  <2>1. Frames[i][m][j] = Item(s[pos(i, j)])
    BY <1>4
  <2> QED BY <2>1 DEF Item
<1>7. \A p \in hits : \E i \in 1 .. l : \E j \in 1 .. Hi(i, m) - Lo(i, m) :
         p = <<i, j>> /\ s[pos(i, j)].name = n
  <2> TAKE p \in hits
  <2>1. PICK i \in DOMAIN Frames :
           p \in {<<i, j>> : j \in {k \in DOMAIN Frames[i][m] : Frames[i][m][k].name = n}}
    OBVIOUS
  <2>2. PICK j \in DOMAIN Frames[i][m] : Frames[i][m][j].name = n /\ p = <<i, j>>
    BY <2>1
  <2>3. i \in 1 .. l
    BY <1>5, <2>1
  <2>4. j \in 1 .. Hi(i, m) - Lo(i, m)
    BY <1>5, <2>2, <2>3
  <2>5. s[pos(i, j)].name = n
    BY <1>6, <2>2, <2>3, <2>4
  <2> HIDE DEF s, pos, l
  <2> QED BY <2>2, <2>3, <2>4, <2>5
<1>8. \A i \in 1 .. l : \A j \in 1 .. Hi(i, m) - Lo(i, m) : s[pos(i, j)].name = n => <<i, j>> \in hits
  <2> TAKE i \in 1 .. l
  <2> TAKE j \in 1 .. Hi(i, m) - Lo(i, m)
  <2> HAVE s[pos(i, j)].name = n
  <2>1. i \in DOMAIN Frames /\ j \in DOMAIN Frames[i][m]
    BY <1>5
  <2>2. Frames[i][m][j].name = n
    BY <1>6
  <2> HIDE DEF s, pos, l
  <2> QED BY <2>1, <2>2
<1> HIDE DEF hits
<1>9. \A i \in 1 .. l : \A j \in 1 .. Hi(i, m) - Lo(i, m) :
         pos(i, j) \in Nat /\ pos(i, j) \in 1 .. Len(s) /\ pos(i, j) > Lo(i, m)
  BY <1>2, <1>4
<1>10. \A i \in 1 .. l : \A j \in 1 .. Hi(i, m) - Lo(i, m) : s[pos(i, j)].name = n => pos(i, j) <= d
  BY <1>2, <1>9
<1> HIDE DEF d, s, l
<1>11. CASE d = 0
  <2>1. hits = {}
    BY <1>7, <1>9, <1>10, <1>11
  <2> QED BY <1>1, <1>3, <1>11, <2>1
<1>12. CASE d # 0
  <2> DEFINE T == {i \in 1 .. l : Lo(i, m) < d}
  <2>1. 1 \in T
    BY <1>2, <1>12 DEF Lo
  <2>2. PICK I \in 1 .. l : I \in T /\ \A i \in T : i <= I
    <3>1. T \in SUBSET (0 .. l) /\ T # {}
      BY <2>1
    <3> HIDE DEF T
    <3>2. Max(T) \in T /\ \A i \in T : i <= Max(T)
      BY <1>2, <3>1, Greatest
    <3>3. T \subseteq 1 .. l
      BY DEF T
    <3> QED BY <3>2, <3>3
  <2>3. d <= Hi(I, m)
    <3>1. CASE I = l
      <4>1. Hi(I, m) = Len(s)
        BY <1>2, <3>1 DEF Hi, l, s
      <4> QED BY <1>2, <4>1
    <3>2. CASE I # l
      <4>1. I + 1 \in 1 .. l /\ I + 1 # 1 /\ (I + 1) - 1 = I /\ ~ (I + 1 <= I)
        BY <1>2, <3>2
      <4>2. Hi(I, m) = scopes[I].top[m]
        BY <1>2, <3>2 DEF Hi, l
      <4>3. Lo(I + 1, m) = scopes[I].top[m]
        BY <4>1 DEF Lo
      <4>4. ~ (Lo(I + 1, m) < d)
        BY <2>2, <4>1
      <4>5. Lo(I + 1, m) \in Nat
        BY <1>4, <4>1
      <4> QED BY <1>2, <4>2, <4>3, <4>4, <4>5
    <3> QED BY <3>1, <3>2
  <2> DEFINE J == d - Lo(I, m)
             P == <<I, J>>
  <2>4. Lo(I, m) \in Nat /\ Hi(I, m) \in Nat /\ Lo(I, m) < d
    BY <1>4, <2>2
  <2>5. J \in 1 .. Hi(I, m) - Lo(I, m) /\ pos(I, J) = d
    BY <1>2, <2>3, <2>4
  <2>6. P \in hits
    BY <1>2, <1>8, <1>12, <2>5
  <2>7. Above(P)
    <3> SUFFICES ASSUME NEW q \in hits PROVE q[1] < P[1] \/ (q[1] = P[1] /\ q[2] <= P[2])
      OBVIOUS
    <3>1. PICK i \in 1 .. l : \E j \in 1 .. Hi(i, m) - Lo(i, m) :
             q = <<i, j>> /\ s[pos(i, j)].name = n
      BY <1>7
    <3>2. PICK j \in 1 .. Hi(i, m) - Lo(i, m) : q = <<i, j>> /\ s[pos(i, j)].name = n
      BY <3>1
    <3>3. Lo(i, m) + j <= d /\ Lo(i, m) \in Nat /\ Hi(i, m) \in Nat
      BY <1>4, <1>10, <3>2
    <3>4. Lo(i, m) < d
      BY <1>2, <3>3
    <3>5. i <= I
      BY <2>2, <3>4
    <3>6. i = I => j <= J
      BY <1>2, <3>3
    <3> QED BY <3>2, <3>5, <3>6
  <2>8. last = P
    <3>1. last \in hits /\ Above(last)
      BY <2>6, <2>7
    <3> HIDE DEF last
    <3>2. PICK i \in 1 .. l : \E j \in 1 .. Hi(i, m) - Lo(i, m) : last = <<i, j>>
      BY <1>7, <3>1
    <3>3. PICK j \in 1 .. Hi(i, m) - Lo(i, m) : last = <<i, j>>
      BY <3>2
    <3>4. i < I \/ (i = I /\ j <= J)
      BY <2>7, <3>1, <3>3
    <3>5. I < i \/ (I = i /\ J <= j)
      BY <2>6, <3>1, <3>3
    <3>6. j \in Int /\ J \in Int
      BY <2>5
    <3> HIDE DEF J
    <3>7. i = I /\ j = J
      BY <1>2, <3>4, <3>5, <3>6
    <3> QED BY <3>3, <3>7
  <2>9. Frames[I][m][J].value = s[d].value
    BY <1>6, <2>5
  <2>10. P[1] = I /\ P[2] = J
    OBVIOUS
  <2> HIDE DEF P, J, last
  <2> QED BY <1>1, <1>3, <1>12, <2>6, <2>8, <2>9, <2>10
<1> QED BY <1>11, <1>12

\* Leaving a scope drops its declarations and uncovers what they hid.
LEMMA LeaveCloses ==
    ASSUME ResInv, FramesOK, FramesOK', Leave,
           \A m \in Maps, n \in Names : find(m, n)' = Lexical!Innermost(Frames', m, n)
    PROVE  Lexical!Close
<1> DEFINE l == Len(scopes)
           top1 == scopes[l].top
<1>1. /\ scopes # <<>> /\ pop(top1) /\ scopes' = SubSeq(scopes, 1, l - 1)
      /\ scopes \in Seq(Scope) /\ TypeOK
  BY DEF Leave, ResInv, TypeOK
<1>2. l \in Nat /\ l >= 1 /\ l \in 1 .. l /\ (l - 1) + 1 = l /\ (l + 1) - 1 = l
  <2>1. l \in Nat /\ l # 0
    BY <1>1
  <2> QED BY <2>1
<1>3. Len(scopes') = l - 1 /\ \A k \in 1 .. l - 1 : scopes'[k] = scopes[k]
  <2>1. l - 1 \in Nat /\ l - 1 <= Len(scopes)
    BY <1>2
  <2> QED BY <1>1, <2>1, Prefix
<1>4. top1 \in [Maps -> Nat] /\ \A m \in Maps : top1[m] <= Len(stack[m])
  BY <1>1, <1>2, ScopeTypes DEF ResInv, TopsOK
<1>a. l = Len(scopes) /\ top1 = scopes[l].top
  OBVIOUS
<1> HIDE DEF l, top1
<1>5. \A m \in Maps : Len(stack'[m]) = top1[m] /\ \A j \in 1 .. top1[m] : stack'[m][j] = stack[m][j]
  BY <1>1, <1>4, PopKeeps DEF ResInv
<1>6. ASSUME NEW i \in 1 .. l PROVE Frames'[i] = Frames[i]
  <2>1. i \in 1 .. Len(scopes) + 1 /\ i \in 1 .. Len(scopes') + 1
    BY <1>2, <1>3, <1>a
  <2>2. i # 1 => i - 1 \in 1 .. l - 1
    BY <1>2
  <2>3. ASSUME NEW m \in Maps
        PROVE  /\ Lo(i, m)' = Lo(i, m) /\ Hi(i, m)' = Hi(i, m)
               /\ \A p \in 1 .. Hi(i, m) : stack'[m][p] = stack[m][p]
    <3>1. Lo(i, m)' = Lo(i, m)
      BY <1>3, <2>2 DEF Lo
    <3>2. ~ (i > Len(scopes)) /\ Hi(i, m) = scopes[i].top[m]
      BY <1>2, <1>a DEF Hi
    <3>3. Hi(i, m)' = Hi(i, m)
      <4>1. CASE i = l
        <5>1. i > Len(scopes')
          BY <1>2, <1>3, <4>1
        <5>2. Hi(i, m)' = Len(stack'[m])
          BY <5>1 DEF Hi
        <5> QED BY <1>5, <1>a, <3>2, <4>1, <5>2
      <4>2. CASE i # l
        <5>1. ~ (i > Len(scopes')) /\ i \in 1 .. l - 1
          BY <1>2, <1>3, <4>2
        <5> QED BY <1>3, <3>2, <5>1 DEF Hi
      <4> QED BY <4>1, <4>2
    <3>4. Hi(i, m) <= top1[m] /\ Hi(i, m) \in Nat /\ top1[m] \in Nat
      <4>1. scopes[i].top[m] <= scopes[l].top[m]
        BY <1>2, <1>a DEF ResInv, TopsOK
      <4>2. Hi(i, m) \in Nat
        BY <2>1 DEF FramesOK
      <4> QED BY <1>4, <1>a, <3>2, <4>1, <4>2
    <3>5. \A p \in 1 .. Hi(i, m) : p \in 1 .. top1[m]
      BY <3>4
    <3> QED BY <1>5, <3>1, <3>3, <3>5
  <2> QED BY <2>1, <2>3, FrameStays
<1>7. /\ Frames \in Seq([Maps -> Items]) /\ Frames' \in Seq([Maps -> Items])
      /\ Len(Frames) = l + 1 /\ Len(Frames') = l
  BY <1>2, <1>3, <1>a DEF FramesOK
<1>8. Frames' = SubSeq(Frames, 1, Len(Frames) - 1)
  <2> DEFINE f == Frames
             g == Frames'
             h == SubSeq(f, 1, l)
  <2>1. /\ f \in Seq([Maps -> Items]) /\ g \in Seq([Maps -> Items])
        /\ Len(f) = l + 1 /\ Len(g) = l /\ \A i \in 1 .. l : g[i] = f[i]
    BY <1>6, <1>7
  <2>2. Len(Frames) - 1 = l
    BY <1>2, <1>7
  <2> HIDE DEF f, g
  <2>3. l <= Len(f)
    BY <1>2, <2>1
  <2>4. h \in Seq([Maps -> Items]) /\ Len(h) = l /\ \A i \in 1 .. l : h[i] = f[i]
    BY <1>2, <2>1, <2>3, Prefix
  <2> HIDE DEF h
  <2>5. g = h
    BY <2>1, <2>4, SeqEqual
  <2> QED BY <2>2, <2>5 DEF f, g, h
<1>9. [m \in Maps |-> [n \in Names |-> find(m, n)]]'
         = [m \in Maps |-> [n \in Names |-> Lexical!Innermost(Frames', m, n)]]
  OBVIOUS
<1>10. Len(Frames) > 1
  BY <1>2, <1>7
<1> QED BY <1>8, <1>9, <1>10 DEF Lexical!Close

LEMMA ScopesStep ==
    ResInv /\ FramesOK /\ FramesOK' /\ [Next]_vars
      /\ (\A m \in Maps, n \in Names : find(m, n) = Lexical!Innermost(Frames, m, n))'
    => [Lexical!Next]_<<Frames, [m \in Maps |-> [n \in Names |-> find(m, n)]]>>
<1> SUFFICES ASSUME ResInv, FramesOK, FramesOK', [Next]_vars,
                    (\A m \in Maps, n \in Names : find(m, n) = Lexical!Innermost(Frames, m, n))'
             PROVE  [Lexical!Next]_<<Frames, [m \in Maps |-> [n \in Names |-> find(m, n)]]>>
  OBVIOUS
<1>1. TypeOK /\ scopes \in Seq(Scope) /\ Len(scopes) \in Nat
  BY DEF ResInv, TypeOK
<1>2. ASSUME NEW d \in Decl, push(d), UNCHANGED scopes PROVE Lexical!Next
  BY <1>2, PushDeclares DEF Lexical!Next
<1>3. ASSUME NEW kind, Open(kind), UNCHANGED <<data, stack>> PROVE Lexical!Next
  BY <1>3, OpenOpens DEF Open, Lexical!Next
<1>4. ASSUME UNCHANGED <<data, stack, scopes>>
      PROVE  UNCHANGED <<Frames, [m \in Maps |-> [n \in Names |-> find(m, n)]]>>
  BY <1>1, <1>4, QuietStutters
<1>5. CASE Bind
  <2>1. push(Head(pending)) /\ UNCHANGED scopes /\ Head(pending) \in Decl
    BY <1>1, <1>5 DEF Bind, TypeOK
  <2> QED BY <1>2, <2>1
<1>6. CASE VarDecl
  <2>1. PICK d \in Locals : push(d) /\ UNCHANGED scopes
    BY <1>6 DEF VarDecl
  <2> QED BY <1>2, <2>1 DEF Locals, Decls
<1>7. CASE EnterBlock
  BY <1>3, <1>7 DEF EnterBlock
<1>8. CASE EnterFor
  BY <1>3, <1>8 DEF EnterFor
<1>9. CASE EnterType
  BY <1>3, <1>9 DEF EnterType
<1>10. CASE \E f \in Functions : EnterFn(f)
  BY <1>3, <1>10 DEF EnterFn
<1>11. CASE Leave
  <2>1. \A m \in Maps, n \in Names : find(m, n)' = Lexical!Innermost(Frames', m, n)
    OBVIOUS
  <2> QED BY <1>11, <2>1, LeaveCloses DEF Lexical!Next
<1>12. CASE BindFor
  <2>1. /\ scopes # <<>> /\ scopes' = [scopes EXCEPT ![Len(scopes)].kind = "for"]
        /\ UNCHANGED <<data, stack>>
    BY <1>12 DEF BindFor
  <2>2. Len(scopes') = Len(scopes) /\ \A k \in 1 .. Len(scopes) : scopes'[k].top = scopes[k].top
    <3>1. \A k \in 1 .. Len(scopes) : scopes[k] \in Scope
      BY <1>1
    <3> QED BY <1>1, <2>1, <3>1 DEF Scope
  <2> QED BY <1>1, <2>1, <2>2, QuietStutters
<1>13. CASE AutoImports \/ Import \/ (\E n \in Names : Ident(n) \/ TypeInstance(n)) \/ UNCHANGED vars
  <2>1. UNCHANGED <<data, stack, scopes>>
    BY <1>13 DEF AutoImports, Import, Ident, TypeInstance, vars
  <2> QED BY <1>4, <2>1
<1> QED BY <1>5, <1>6, <1>7, <1>8, <1>9, <1>10, <1>11, <1>12, <1>13 DEF Next

LEMMA ScopesInit == Init => Lexical!Init
<1> SUFFICES ASSUME Init PROVE Lexical!Init
  OBVIOUS
<1>1. scopes = <<>> /\ stack = [m \in Maps |-> <<>>] /\ data = [m \in Maps |-> [n \in Names |-> 0]]
  BY DEF Init
<1>2. FramesOK
  BY InitResInv, FramesShape
<1>3. Frames \in Seq([Maps -> Items]) /\ Len(Frames) = 1
  BY <1>1, <1>2 DEF FramesOK
<1>4. Frames[1] \in [Maps -> Items] /\ 1 \in 1 .. Len(scopes) + 1
  <2> DEFINE T == [Maps -> Items]
             f == Frames
  <2>1. f \in Seq(T) /\ Len(f) = 1
    BY <1>3
  <2> HIDE DEF T, f
  <2>2. f[1] \in T
    BY <2>1
  <2>3. Len(scopes) = 0
    BY <1>1
  <2> QED BY <2>2, <2>3 DEF T, f
<1>5. ASSUME NEW m \in Maps PROVE Frames[1][m] = <<>>
  <2>1. Lo(1, m) = 0 /\ Hi(1, m) = 0
    BY <1>1, <1>5 DEF Lo, Hi
  <2>2. Frames[1][m] \in Items /\ Len(Frames[1][m]) = 0
    BY <1>2, <1>4, <1>5, <2>1 DEF FramesOK
  <2> QED BY <2>2, EmptySeq DEF Items
<1>6. Frames[1] = Lexical!EmptyFrame
  BY <1>4, <1>5 DEF Lexical!EmptyFrame
<1>7. Frames = <<Lexical!EmptyFrame>>
  BY <1>3, <1>6
<1>8. [m \in Maps |-> [n \in Names |-> find(m, n)]] = [m \in Maps |-> [n \in Names |-> None]]
  BY <1>1 DEF find
<1> QED BY <1>7, <1>8 DEF Lexical!Init

\* The three name maps, with their shadow chains and saved tops, implement
\* nested lexical scopes: declaring adds to the innermost scope, leaving one
\* uncovers exactly what its declarations hid.
THEOREM ScopesImplemented == Spec => ImplementsLexicalScope
<1> DEFINE ScopedNow == \A m \in Maps, n \in Names : find(m, n) = Lexical!Innermost(Frames, m, n)
<1>1. ResInv => FramesOK
  BY FramesShape
<1>2. ResInv => ScopedNow
  BY Scoped
<1>3. ResInv /\ FramesOK /\ FramesOK' /\ [Next]_vars /\ ScopedNow'
      => [Lexical!Next]_<<Frames, [m \in Maps |-> [n \in Names |-> find(m, n)]]>>
  BY ScopesStep
<1> HIDE DEF ScopedNow
<1> QED BY <1>1, <1>2, <1>3, ScopesInit, Invariance, PTL DEF Spec, ImplementsLexicalScope, Lexical!Spec

-----------------------------------------------------------------------------
(* What names denote.                                                      *)

\* The values of a binding and of those that it shadows, in turn.
Walk(s) == CHOOSE w : w = [i \in 0 .. Len(s) |->
               IF i = 0 THEN <<>> ELSE <<s[i].value>> \o w[s[i].shadow]]

LEMMA FindAllWalks == \A m \in Maps, n \in Names : findAll(m, n) = Walk(stack[m])[data[m][n]]
BY DEF findAll, Walk

\* A chain that only leads downwards can be walked.
LEMMA WalkDefined ==
    ASSUME NEW s, Len(s) \in Nat, \A i \in 1 .. Len(s) : s[i].shadow \in 0 .. i - 1
    PROVE  Walk(s) = [i \in 0 .. Len(s) |->
               IF i = 0 THEN <<>> ELSE <<s[i].value>> \o Walk(s)[s[i].shadow]]
<1> DEFINE Is(k, w) == w = [i \in 0 .. k |-> IF i = 0 THEN <<>> ELSE <<s[i].value>> \o w[s[i].shadow]]
           T == {k \in 0 .. Len(s) : ~ \E w : Is(k, w)}
<1>1. T = {}
  <2> SUFFICES ASSUME T # {} PROVE FALSE
    OBVIOUS
  <2>1. PICK k \in T : \A j \in T : k <= j
    <3>1. T \in SUBSET Nat
      OBVIOUS
    <3> HIDE DEF T
    <3> QED BY <3>1, Least
  <2>2. k # 0
    <3>1. Is(0, [i \in 0 .. 0 |-> <<>>])
      OBVIOUS
    <3> QED BY <2>1, <3>1
  <2>3. k \in 1 .. Len(s) /\ k - 1 \in 0 .. Len(s) /\ ~ (k <= k - 1)
    BY <2>1, <2>2
  <2>4. PICK w : Is(k - 1, w)
    BY <2>1, <2>3
  <2> DEFINE v == [i \in 0 .. k |-> IF i = k THEN <<s[k].value>> \o w[s[k].shadow] ELSE w[i]]
  <2>5. \A i \in 0 .. k : v[i] = IF i = 0 THEN <<>> ELSE <<s[i].value>> \o v[s[i].shadow]
    <3> TAKE i \in 0 .. k
    <3>1. CASE i = k
      <4>1. s[k].shadow \in 0 .. k - 1 /\ s[k].shadow \in 0 .. k /\ s[k].shadow # k
        BY <2>3
      <4> QED BY <2>2, <2>3, <3>1, <4>1
    <3>2. CASE i # k
      <4>1. i \in 0 .. k - 1
        BY <2>3, <3>2
      <4>2. w[i] = IF i = 0 THEN <<>> ELSE <<s[i].value>> \o w[s[i].shadow]
        BY <2>4, <4>1
      <4>3. i # 0 => s[i].shadow \in 0 .. k /\ s[i].shadow # k
        BY <2>3, <4>1
      <4> QED BY <3>2, <4>2, <4>3
    <3> QED BY <3>1, <3>2
  <2>6. Is(k, v)
    <3>1. v = [i \in 0 .. k |-> v[i]]
      OBVIOUS
    <3> HIDE DEF v
    <3> QED BY <2>5, <3>1
  <2> QED BY <2>1, <2>6
<1>2. \E w : Is(Len(s), w)
  <2>1. Len(s) \in 0 .. Len(s)
    OBVIOUS
  <2> QED BY <1>1, <2>1
<1>3. Walk(s) = CHOOSE w : Is(Len(s), w)
  BY DEF Walk
<1>4. Is(Len(s), Walk(s))
  <2> HIDE DEF Is
  <2> QED BY <1>2, <1>3
<1> QED BY <1>4

Members(q) == {q[k] : k \in 1 .. Len(q)}

LEMMA Prepended ==
    ASSUME NEW S, NEW v \in S, NEW q \in Seq(S)
    PROVE  /\ <<v>> \o q \in Seq(S) /\ <<v>> \o q # <<>> /\ (<<v>> \o q)[1] = v
           /\ Members(<<v>> \o q) = {v} \cup Members(q)
<1> DEFINE r == <<v>> \o q
           n == Len(q)
<1>1. n \in Nat
  OBVIOUS
<1>2. /\ r \in Seq(S) /\ Len(r) = n + 1 /\ r[1] = v
      /\ \A k \in 1 .. n : r[k + 1] = q[k]
  <2>1. <<v>> \in Seq(S) /\ Len(<<v>>) = 1 /\ <<v>>[1] = v
    OBVIOUS
  <2>2. r \in Seq(S) /\ Len(r) = n + 1
    BY <2>1, ConcatProperties
  <2>3. \A k \in 1 .. n + 1 : r[k] = IF k <= 1 THEN <<v>>[k] ELSE q[k - 1]
    BY <2>1, ConcatProperties
  <2>4. 1 \in 1 .. n + 1 /\ \A k \in 1 .. n : k + 1 \in 1 .. n + 1 /\ ~ (k + 1 <= 1) /\ (k + 1) - 1 = k
    BY <1>1
  <2> HIDE DEF r
  <2> QED BY <2>1, <2>2, <2>3, <2>4
<1>3. r # <<>>
  BY <1>1, <1>2
<1> HIDE DEF r
<1>4. \A k \in 1 .. n + 1 : k = 1 \/ \E j \in 1 .. n : k = j + 1
  <2> TAKE k \in 1 .. n + 1
  <2>1. k # 1 => k - 1 \in 1 .. n /\ k = (k - 1) + 1
    BY <1>1
  <2> QED BY <2>1
<1>5. 1 \in 1 .. n + 1 /\ \A j \in 1 .. n : j + 1 \in 1 .. n + 1
  BY <1>1
<1>6. Members(r) = {v} \cup Members(q)
  <2>1. ASSUME NEW k \in 1 .. n + 1 PROVE r[k] = v \/ \E j \in 1 .. n : r[k] = q[j]
    BY <1>2, <1>4, <2>1
  <2>2. Members(r) \subseteq {v} \cup Members(q)
    BY <1>2, <2>1 DEF Members
  <2>3. v \in Members(r)
    BY <1>2, <1>5 DEF Members
  <2>4. Members(q) \subseteq Members(r)
    BY <1>2, <1>5 DEF Members
  <2> QED BY <2>2, <2>3, <2>4
<1> QED BY <1>2, <1>3, <1>6 DEF r

\* A walk from a binding meets it first, and then all of its name below it.
LEMMA WalkVisits ==
    ASSUME NEW s \in Seq(Binding),
           \A i \in 1 .. Len(s) : IsLast(s, i - 1, s[i].name, s[i].shadow)
    PROVE  /\ Walk(s)[0] = <<>>
           /\ \A i \in 1 .. Len(s) :
                 /\ Walk(s)[i] \in Seq(Values) /\ Walk(s)[i] # <<>> /\ Walk(s)[i][1] = s[i].value
                 /\ Members(Walk(s)[i]) = {s[j].value : j \in {k \in 1 .. i : s[k].name = s[i].name}}
<1> DEFINE w == Walk(s)
           n == Len(s)
           Ok(i) == /\ w[i] \in Seq(Values) /\ w[i] # <<>> /\ w[i][1] = s[i].value
                    /\ Members(w[i]) = {s[j].value : j \in {k \in 1 .. i : s[k].name = s[i].name}}
           T == {i \in 1 .. n : ~ Ok(i)}
<1>1. n \in Nat /\ \A i \in 1 .. n : s[i].value \in Values
  <2>1. n \in Nat /\ \A i \in 1 .. n : s[i] \in Binding
    OBVIOUS
  <2> QED BY <2>1 DEF Binding
<1>2. \A i \in 1 .. n :
         /\ s[i].shadow \in 0 .. i - 1
         /\ s[i].shadow # 0 => s[s[i].shadow].name = s[i].name
         /\ \A j \in s[i].shadow + 1 .. i - 1 : s[j].name # s[i].name
  BY DEF IsLast
<1>3. w = [i \in 0 .. n |-> IF i = 0 THEN <<>> ELSE <<s[i].value>> \o w[s[i].shadow]]
  BY <1>1, <1>2, WalkDefined
<1> HIDE DEF w
<1>4. w[0] = <<>> /\ \A i \in 1 .. n : w[i] = <<s[i].value>> \o w[s[i].shadow]
  <2>1. 0 \in 0 .. n /\ \A i \in 1 .. n : i \in 0 .. n /\ i # 0
    BY <1>1
  <2> DEFINE e(i) == IF i = 0 THEN <<>> ELSE <<s[i].value>> \o w[s[i].shadow]
  <2>2. \A i \in 0 .. n : w[i] = e(i)
    <3>1. w = [i \in 0 .. n |-> e(i)]
      BY <1>3
    <3> HIDE DEF e
    <3> QED BY <3>1
  <2> QED BY <2>1, <2>2
<1>5. ASSUME NEW i \in 1 .. n, \A j \in 1 .. i - 1 : Ok(j)
      PROVE  Ok(i)
  <2>1. PICK h \in 0 .. i - 1 : /\ h = s[i].shadow
                                /\ h # 0 => s[h].name = s[i].name
                                /\ \A j \in h + 1 .. i - 1 : s[j].name # s[i].name
    BY <1>2
  <2>2. w[i] = <<s[i].value>> \o w[h]
    BY <1>4, <2>1
  <2> DEFINE A == {k \in 1 .. i : s[k].name = s[i].name}
             B == {k \in 1 .. h : s[k].name = s[i].name}
  <2>3. w[h] \in Seq(Values) /\ Members(w[h]) = {s[j].value : j \in B}
    <3>1. CASE h = 0
      <4>1. w[h] = <<>> /\ B = {}
        BY <1>4, <3>1
      <4>2. Members(<<>>) = {}
        BY DEF Members
      <4> QED BY <4>1, <4>2
    <3>2. CASE h # 0
      <4>1. h \in 1 .. i - 1 /\ s[h].name = s[i].name
        BY <2>1, <3>2
      <4>2. Ok(h)
        BY <1>5, <4>1
      <4> QED BY <4>1, <4>2
    <3> QED BY <3>1, <3>2
  <2>4. A = {i} \cup B
    <3>1. \A k \in 1 .. i : k = i \/ k \in 1 .. h \/ k \in h + 1 .. i - 1
      OBVIOUS
    <3>2. i \in 1 .. i /\ \A k \in 1 .. h : k \in 1 .. i
      OBVIOUS
    <3>3. \A k \in A : k = i \/ k \in B
      BY <2>1, <3>1
    <3> QED BY <3>2, <3>3
  <2> HIDE DEF A, B
  <2>5. {s[j].value : j \in A} = {s[i].value} \cup {s[j].value : j \in B}
    BY <2>4
  <2>6. /\ w[i] \in Seq(Values) /\ w[i] # <<>> /\ w[i][1] = s[i].value
        /\ Members(w[i]) = {s[i].value} \cup Members(w[h])
    BY <1>1, <2>2, <2>3, Prepended
  <2> QED BY <2>3, <2>5, <2>6 DEF A
<1> HIDE DEF Ok
<1>6. T = {}
  <2> SUFFICES ASSUME T # {} PROVE FALSE
    OBVIOUS
  <2>1. PICK i \in T : \A j \in T : i <= j
    <3>1. T \in SUBSET Nat
      OBVIOUS
    <3> HIDE DEF T
    <3> QED BY <3>1, Least
  <2>2. \A j \in 1 .. i - 1 : j \in 1 .. n /\ ~ (i <= j)
    BY <1>1, <2>1
  <2>3. \A j \in 1 .. i - 1 : Ok(j)
    BY <2>1, <2>2
  <2> QED BY <1>5, <2>1, <2>3
<1>7. \A i \in 1 .. n : Ok(i)
  BY <1>6
<1> QED BY <1>4, <1>7 DEF Ok, w

\* The functions among the first k of a list of values.
Kept(t) == CHOOSE f : f = [k \in 0 .. Len(t) |->
               IF k = 0 THEN <<>>
               ELSE IF t[k] \in Functions THEN Append(f[k - 1], t[k]) ELSE f[k - 1]]

LEMMA Resolved ==
    ASSUME NEW t
    PROVE  resolveBindings(t) = IF t = <<>> THEN <<>>
                                ELSE IF t[1] \notin Functions THEN <<t[1]>> ELSE Kept(t)[Len(t)]
BY DEF resolveBindings, Kept

LEMMA KeptDefined ==
    ASSUME NEW t \in Seq(Values)
    PROVE  Kept(t) = [k \in 0 .. Len(t) |->
               IF k = 0 THEN <<>>
               ELSE IF t[k] \in Functions THEN Append(Kept(t)[k - 1], t[k]) ELSE Kept(t)[k - 1]]
<1> DEFINE n == Len(t)
           Is(k, f) == f = [j \in 0 .. k |->
               IF j = 0 THEN <<>>
               ELSE IF t[j] \in Functions THEN Append(f[j - 1], t[j]) ELSE f[j - 1]]
           T == {k \in 0 .. n : ~ \E f : Is(k, f)}
<1>0. n \in Nat
  OBVIOUS
<1>1. T = {}
  <2> SUFFICES ASSUME T # {} PROVE FALSE
    OBVIOUS
  <2>1. PICK k \in T : \A j \in T : k <= j
    <3>1. T \in SUBSET Nat
      OBVIOUS
    <3> HIDE DEF T
    <3> QED BY <3>1, Least
  <2>2. k # 0
    <3>1. Is(0, [j \in 0 .. 0 |-> <<>>])
      OBVIOUS
    <3> QED BY <2>1, <3>1
  <2>3. k \in 1 .. n /\ k - 1 \in 0 .. n /\ ~ (k <= k - 1)
    BY <1>0, <2>1, <2>2
  <2>4. PICK f : Is(k - 1, f)
    BY <2>1, <2>3
  <2> DEFINE e == IF t[k] \in Functions THEN Append(f[k - 1], t[k]) ELSE f[k - 1]
             g == [j \in 0 .. k |-> IF j = k THEN e ELSE f[j]]
  <2>a. e = IF t[k] \in Functions THEN Append(f[k - 1], t[k]) ELSE f[k - 1]
    OBVIOUS
  <2> HIDE DEF e
  <2>5. \A j \in 0 .. k : g[j] = IF j = 0 THEN <<>>
                                 ELSE IF t[j] \in Functions THEN Append(g[j - 1], t[j]) ELSE g[j - 1]
    <3> TAKE j \in 0 .. k
    <3>1. CASE j = k
      <4>1. k - 1 \in 0 .. k /\ k - 1 # k
        BY <2>3
      <4>2. g[k - 1] = f[k - 1] /\ g[j] = e
        BY <2>3, <3>1, <4>1
      <4> HIDE DEF g
      <4> QED BY <2>2, <2>a, <3>1, <4>2
    <3>2. CASE j # k
      <4>1. j \in 0 .. k - 1
        BY <2>3, <3>2
      <4>2. f[j] = IF j = 0 THEN <<>>
                   ELSE IF t[j] \in Functions THEN Append(f[j - 1], t[j]) ELSE f[j - 1]
        BY <2>4, <4>1
      <4>3. j # 0 => j - 1 \in 0 .. k /\ j - 1 # k
        BY <2>3, <4>1
      <4>4. g[j] = f[j] /\ (j # 0 => g[j - 1] = f[j - 1])
        BY <3>2, <4>3
      <4> HIDE DEF g
      <4> QED BY <4>2, <4>4
    <3> QED BY <3>1, <3>2
  <2>6. Is(k, g)
    <3>1. g = [j \in 0 .. k |-> g[j]]
      OBVIOUS
    <3> HIDE DEF g
    <3> QED BY <2>5, <3>1
  <2> QED BY <2>1, <2>6
<1>2. \E f : Is(n, f)
  <2>1. n \in 0 .. n
    BY <1>0
  <2> QED BY <1>1, <2>1
<1>3. Kept(t) = CHOOSE f : Is(n, f)
  BY DEF Kept
<1>4. Is(n, Kept(t))
  <2> HIDE DEF Is
  <2> QED BY <1>2, <1>3
<1> QED BY <1>4

\* Exactly the functions among the values are kept.
LEMMA KeptFunctions ==
    ASSUME NEW t \in Seq(Values)
    PROVE  Members(Kept(t)[Len(t)]) = Members(t) \cap Functions
<1> DEFINE f == Kept(t)
           n == Len(t)
           Ok(k) == f[k] \in Seq(Values) /\ Members(f[k]) = {t[j] : j \in 1 .. k} \cap Functions
           T == {k \in 0 .. n : ~ Ok(k)}
<1>1. n \in Nat /\ \A k \in 1 .. n : t[k] \in Values
  OBVIOUS
<1>2. f = [k \in 0 .. n |->
              IF k = 0 THEN <<>> ELSE IF t[k] \in Functions THEN Append(f[k - 1], t[k]) ELSE f[k - 1]]
  BY KeptDefined
<1>a. f = Kept(t)
  OBVIOUS
<1> HIDE DEF f
<1>3. /\ f[0] = <<>>
      /\ \A k \in 1 .. n : f[k] = IF t[k] \in Functions THEN Append(f[k - 1], t[k]) ELSE f[k - 1]
  <2>1. 0 \in 0 .. n /\ \A k \in 1 .. n : k \in 0 .. n /\ k # 0
    BY <1>1
  <2> DEFINE e(k) == IF k = 0 THEN <<>>
                     ELSE IF t[k] \in Functions THEN Append(f[k - 1], t[k]) ELSE f[k - 1]
  <2>2. \A k \in 0 .. n : f[k] = e(k)
    <3>1. f = [k \in 0 .. n |-> e(k)]
      BY <1>2
    <3> HIDE DEF e
    <3> QED BY <3>1
  <2> QED BY <2>1, <2>2
<1>4. Ok(0)
  BY <1>3 DEF Members
<1>5. ASSUME NEW k \in 1 .. n, Ok(k - 1) PROVE Ok(k)
  <2> DEFINE q == f[k - 1]
             A == {t[j] : j \in 1 .. k - 1}
             B == {t[j] : j \in 1 .. k}
  <2>1. q \in Seq(Values) /\ Members(q) = A \cap Functions
    BY <1>5
  <2>2. B = A \cup {t[k]}
    <3>1. \A j \in 1 .. k : j = k \/ j \in 1 .. k - 1
      OBVIOUS
    <3>2. k \in 1 .. k /\ \A j \in 1 .. k - 1 : j \in 1 .. k
      OBVIOUS
    <3> QED BY <3>1, <3>2
  <2>3. f[k] = IF t[k] \in Functions THEN Append(q, t[k]) ELSE q
    BY <1>3
  <2>4. t[k] \in Values
    BY <1>1
  <2>5. Append(q, t[k]) \in Seq(Values) /\ Members(Append(q, t[k])) = Members(q) \cup {t[k]}
    <3> DEFINE r == Append(q, t[k])
               l == Len(q)
    <3>1. r \in Seq(Values) /\ Len(r) = l + 1 /\ r[l + 1] = t[k] /\ l \in Nat
          /\ \A j \in 1 .. l : r[j] = q[j]
      <4> HIDE DEF q
      <4> QED BY <2>1, <2>4
    <3> HIDE DEF r, q
    <3>2. \A j \in 1 .. l + 1 : j = l + 1 \/ j \in 1 .. l
      BY <3>1
    <3>3. l + 1 \in 1 .. l + 1 /\ \A j \in 1 .. l : j \in 1 .. l + 1
      BY <3>1
    <3> HIDE DEF l
    <3>a. Members(q) = {q[j] : j \in 1 .. l} /\ Members(r) = {r[j] : j \in 1 .. l + 1}
      BY <3>1 DEF Members, l
    <3>4. Members(r) = Members(q) \cup {t[k]}
      BY <3>1, <3>2, <3>3, <3>a
    <3> QED BY <3>1, <3>4 DEF r
  <2> HIDE DEF A, B, q
  <2>6. f[k] \in Seq(Values) /\ Members(f[k]) = B \cap Functions
    <3>1. CASE t[k] \in Functions
      BY <2>1, <2>2, <2>3, <2>5, <3>1
    <3>2. CASE t[k] \notin Functions
      BY <2>1, <2>2, <2>3, <3>2
    <3> QED BY <3>1, <3>2
  <2> QED BY <2>6 DEF B
<1> HIDE DEF Ok
<1>6. T = {}
  <2> SUFFICES ASSUME T # {} PROVE FALSE
    OBVIOUS
  <2>1. PICK k \in T : \A j \in T : k <= j
    <3>1. T \in SUBSET Nat
      OBVIOUS
    <3> HIDE DEF T
    <3> QED BY <3>1, Least
  <2>2. k # 0
    BY <1>4, <2>1
  <2>3. k \in 1 .. n /\ k - 1 \in 0 .. n /\ ~ (k <= k - 1)
    BY <1>1, <2>1, <2>2
  <2> QED BY <1>5, <2>1, <2>3
<1>7. Ok(n)
  <2>1. n \in 0 .. n
    BY <1>1
  <2> QED BY <1>6, <2>1
<1> QED BY <1>7, <1>a DEF Ok, Members

\* A name denotes every function of that name in scope if its innermost binding
\* is a function, else that binding; and nothing only if nothing of that name
\* is in scope (resolveBindings over NameMap::findAll).
THEOREM TargetsCorrect == Spec => []TargetsExact
<1>1. ResInv => TargetsExact
  <2> SUFFICES ASSUME ResInv, NEW n \in Names
               PROVE  LET at == VisibleAt(n)
                          value(i) == stack["variables"][i].value
                          ts == {Targets(n)[k] : k \in 1 .. Len(Targets(n))}
                          innermost == CHOOSE i \in at : \A j \in at : j <= i
                      IN  IF at = {} THEN ts = {}
                          ELSE IF value(innermost) \in Functions
                          THEN ts = {value(i) : i \in at} \cap Functions
                          ELSE ts = {value(innermost)}
    BY DEF TargetsExact
  <2> DEFINE s == stack["variables"]
             d == data["variables"][n]
             at == VisibleAt(n)
             t == findAll("variables", n)
             innermost == CHOOSE i \in at : \A j \in at : j <= i
  <2>1. /\ s \in Seq(Binding) /\ Len(s) \in Nat /\ d \in 0 .. Len(s)
        /\ d # 0 => s[d].name = n
        /\ \A j \in d + 1 .. Len(s) : s[j].name # n
        /\ \A i \in 1 .. Len(s) : IsLast(s, i - 1, s[i].name, s[i].shadow)
    <3>1. "variables" \in Maps
      BY DEF Maps
    <3>2. s \in Seq(Binding) /\ Latest("variables")
      BY <3>1 DEF ResInv, TypeOK
    <3>3. Len(s) \in Nat
      BY <3>2
    <3> QED BY <3>2, <3>3 DEF Latest, IsLast
  <2>2. at = {i \in 1 .. Len(s) : s[i].name = n}
    BY DEF VisibleAt
  <2>3. t = Walk(s)[d]
    <3>1. "variables" \in Maps
      BY DEF Maps
    <3> QED BY <3>1, FindAllWalks
  <2>4. Targets(n) = IF t = <<>> THEN <<>>
                     ELSE IF t[1] \notin Functions THEN <<t[1]>> ELSE Kept(t)[Len(t)]
    BY Resolved DEF Targets
  <2>5. {Targets(n)[k] : k \in 1 .. Len(Targets(n))} = Members(Targets(n))
    BY DEF Members
  <2> HIDE DEF s, d, at, t
  <2>6. CASE d = 0
    <3>1. at = {}
      BY <2>1, <2>2, <2>6
    <3>2. t = <<>>
      BY <2>1, <2>3, <2>6, WalkVisits
    <3>3. Members(Targets(n)) = {}
      BY <2>4, <3>2 DEF Members
    <3> QED BY <2>5, <3>1, <3>3 DEF at
  <2>7. CASE d # 0
    <3>1. d \in 1 .. Len(s)
      BY <2>1, <2>7
    <3>2. at = {k \in 1 .. d : s[k].name = s[d].name} /\ d \in at /\ \A j \in at : j <= d
      <4>1. \A k \in 1 .. Len(s) : s[k].name = n => k \in 1 .. d
        BY <2>1
      <4>2. \A k \in 1 .. d : k \in 1 .. Len(s)
        BY <3>1
      <4> QED BY <2>1, <2>2, <2>7, <3>1, <4>1, <4>2
    <3>3. innermost = d
      <4>1. innermost \in at /\ \A j \in at : j <= innermost
        BY <3>2
      <4> HIDE DEF innermost
      <4>2. innermost <= d /\ d <= innermost /\ innermost \in 1 .. d
        BY <3>2, <4>1
      <4> QED BY <3>1, <4>2
    <3>4. /\ t \in Seq(Values) /\ t # <<>> /\ t[1] = s[d].value
          /\ Members(t) = {s[j].value : j \in at}
      BY <2>1, <2>3, <3>1, <3>2, WalkVisits
    <3>5. at # {}
      BY <3>2
    <3>6. CASE s[d].value \in Functions
      <4>1. Members(Targets(n)) = Members(t) \cap Functions
        BY <2>4, <3>4, <3>6, KeptFunctions
      <4> QED BY <2>5, <3>3, <3>4, <3>5, <3>6, <4>1 DEF at, s
    <3>7. CASE s[d].value \notin Functions
      <4>1. Targets(n) = <<t[1]>>
        BY <2>4, <3>4, <3>7
      <4>2. Members(Targets(n)) = {s[d].value}
        BY <3>4, <4>1 DEF Members
      <4> QED BY <2>5, <3>3, <3>5, <3>7, <4>2 DEF at, s
    <3> QED BY <3>6, <3>7
  <2> QED BY <2>6, <2>7
<1> QED BY <1>1, Invariance, PTL
=============================================================================
