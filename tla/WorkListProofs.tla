--------------------------- MODULE WorkListProofs ---------------------------
(***************************************************************************)
(* Proofs about the work list of code generation, for any programs and     *)
(* whatever references ask for: everything that is referred to is          *)
(* generated, and nothing is generated twice.                              *)
(***************************************************************************)
EXTENDS WorkList, TLAPS

Made == {functions[n] : n \in DOMAIN functions}
Waiting == {pending[j].value : j \in DOMAIN pending}

\* A function is made for a reference or is the entry of a module so far.
Recorded ==
    /\ program \in Programs
    /\ unit \in 0 .. Len(program.roots)
    /\ entries \in Seq(DOMAIN functions)
    /\ ToSet(entries) = {Entry(program, u).value : u \in 1 .. unit}
    /\ \A n \in DOMAIN functions : functions[n].value = n
    /\ DOMAIN functions = {a.name : a \in asked} \cup ToSet(entries)
    /\ \A a \in asked : \A u \in DOMAIN program.roots : a.name # Entry(program, u).value
    /\ pc \in {"codegen", "done", "ICE", "cut"}
    /\ pc = "done" => pending = <<>>

\* A function has a body or is on the list, once.
Listed ==
    /\ pending \in Seq(Made)
    /\ bodies \cup Waiting = DOMAIN functions
    /\ bodies \cap Waiting = {}
    /\ \A j, k \in DOMAIN pending : pending[j].value = pending[k].value => j = k

IInv == Recorded /\ Listed

-----------------------------------------------------------------------------
(* Making a function, and taking one from the list *)

LEMMA MadeIs ==
    ASSUME NEW inst, functions' = WithFunction(inst), inst.value \notin DOMAIN functions
    PROVE  /\ DOMAIN functions' = DOMAIN functions \cup {inst.value}
           /\ functions'[inst.value] = inst
           /\ \A n \in DOMAIN functions : functions'[n] = functions[n]
           /\ Made' = Made \cup {inst}
<1>1. /\ DOMAIN functions' = DOMAIN functions \cup {inst.value}
      /\ functions'[inst.value] = inst
      /\ \A n \in DOMAIN functions : functions'[n] = functions[n]
  BY DEF WithFunction
<1>2. Made' = Made \cup {inst}
  BY <1>1 DEF Made
<1> QED BY <1>1, <1>2

\* A function that is made is on the list, and is the only one of its name.
LEMMA CreateKeeps ==
    ASSUME Recorded, Listed, NEW inst, inst.value \notin DOMAIN functions,
           functions' = WithFunction(inst), pending' = Append(pending, inst),
           bodies' = bodies
    PROVE  /\ Listed'
           /\ DOMAIN functions' = DOMAIN functions \cup {inst.value}
           /\ \A n \in DOMAIN functions' : functions'[n].value = n
<1> DEFINE L == Len(pending)
<1>1. /\ DOMAIN functions' = DOMAIN functions \cup {inst.value}
      /\ functions'[inst.value] = inst
      /\ \A n \in DOMAIN functions : functions'[n] = functions[n]
      /\ Made' = Made \cup {inst}
  BY MadeIs
<1>2. \A n \in DOMAIN functions' : functions'[n].value = n
  BY <1>1 DEF Recorded
<1>3. pending \in Seq(Made) /\ pending \in Seq(Made')
  <2>1. pending \in Seq(Made)
    BY DEF Listed
  <2>2. Made \subseteq Made'
    BY <1>1
  <2> HIDE DEF L
  <2> QED BY <2>1, <2>2
<1>4. /\ L \in Nat /\ DOMAIN pending = 1 .. L
      /\ pending' \in Seq(Made') /\ DOMAIN pending' = 1 .. L + 1
      /\ \A j \in 1 .. L : pending'[j] = pending[j]
      /\ pending'[L + 1] = inst
  <2>1. inst \in Made'
    BY <1>1
  <2> QED BY <1>3, <2>1
<1> HIDE DEF L
<1>5. \A j : j \in 1 .. L + 1 <=> j \in 1 .. L \/ j = L + 1
  BY <1>4
<1>6. Waiting' = Waiting \cup {inst.value}
  BY <1>4, <1>5 DEF Waiting
<1>7. inst.value \notin Waiting /\ inst.value \notin bodies
  BY DEF Listed
<1>8. \A j, k \in DOMAIN pending' : pending'[j].value = pending'[k].value => j = k
  <2> TAKE j, k \in DOMAIN pending'
  <2>1. CASE j \in 1 .. L /\ k \in 1 .. L
    BY <1>4, <2>1 DEF Listed
  <2>2. CASE j = L + 1 /\ k = L + 1
    BY <2>2
  <2>3. CASE j \in 1 .. L /\ k = L + 1
    BY <1>4, <1>7, <2>3 DEF Waiting
  <2>4. CASE j = L + 1 /\ k \in 1 .. L
    BY <1>4, <1>7, <2>4 DEF Waiting
  <2> QED BY <1>4, <1>5, <2>1, <2>2, <2>3, <2>4
<1>9. bodies' \cup Waiting' = DOMAIN functions' /\ bodies' \cap Waiting' = {}
  BY <1>1, <1>6, <1>7 DEF Listed
<1>10. Listed'
  BY <1>4, <1>8, <1>9 DEF Listed
<1> QED BY <1>1, <1>2, <1>10

\* The last of the list is the only one of its name.
LEMMA TakeFacts ==
    ASSUME Listed, pending # <<>>
    PROVE  /\ Last(pending) \in Made /\ Last(pending).value \in Waiting
           /\ Front(pending) \in Seq(Made)
           /\ {Front(pending)[j].value : j \in DOMAIN Front(pending)} = Waiting \ {Last(pending).value}
           /\ \A j, k \in DOMAIN Front(pending) : Front(pending)[j].value = Front(pending)[k].value => j = k
<1> DEFINE L == Len(pending)
           front == Front(pending)
<1>1. pending \in Seq(Made)
  BY DEF Listed
<1>2. L \in Nat \ {0} /\ DOMAIN pending = 1 .. L /\ pending[L] \in Made /\ Last(pending) = pending[L]
  BY <1>1 DEF Last
<1>3. /\ front \in Seq(Made) /\ DOMAIN front = 1 .. L - 1
      /\ \A j \in 1 .. L - 1 : front[j] = pending[j]
  <2>1. front = SubSeq(pending, 1, L - 1)
    BY DEF Front
  <2>2. L - 1 \in Nat /\ L - 1 <= Len(pending)
    BY <1>2
  <2> HIDE DEF front, L
  <2> QED BY <1>1, <2>1, <2>2
<1> HIDE DEF L, front
<1>4. /\ L \in 1 .. L /\ \A j : j \in 1 .. L <=> j \in 1 .. L - 1 \/ j = L
      /\ \A j \in 1 .. L - 1 : j # L
  BY <1>2
<1>5. \A j, k \in 1 .. L : pending[j].value = pending[k].value => j = k
  BY <1>2 DEF Listed
<1>6. Last(pending).value \in Waiting
  BY <1>2, <1>4 DEF Waiting
<1>7. {front[j].value : j \in DOMAIN front} = Waiting \ {Last(pending).value}
  <2>1. \A j \in 1 .. L - 1 : front[j].value \in Waiting /\ front[j].value # pending[L].value
    BY <1>2, <1>3, <1>4, <1>5 DEF Waiting
  <2>2. \A v \in Waiting : v # pending[L].value => \E j \in 1 .. L - 1 : front[j].value = v
    BY <1>2, <1>3, <1>4 DEF Waiting
  <2> QED BY <1>2, <1>3, <2>1, <2>2
<1>8. \A j, k \in DOMAIN front : front[j].value = front[k].value => j = k
  BY <1>3, <1>4, <1>5
<1> QED BY <1>2, <1>3, <1>6, <1>7, <1>8 DEF front

-----------------------------------------------------------------------------
(* The steps *)

LEMMA InitInv == Init => IInv
<1> SUFFICES ASSUME Init PROVE IInv
  OBVIOUS
<1>1. /\ program \in Programs /\ functions = <<>> /\ bodies = {} /\ asked = {} /\ pending = <<>>
      /\ unit = 0 /\ entries = <<>> /\ pc = "codegen"
  BY DEF Init
<1>2. DOMAIN functions = {} /\ DOMAIN pending = {} /\ ToSet(entries) = {} /\ 1 .. 0 = {}
  BY <1>1 DEF ToSet
<1>3. Len(program.roots) \in Nat
  BY <1>1, RootsAssumption
<1>4. Recorded
  BY <1>1, <1>2, <1>3 DEF Recorded
<1>5. Listed
  BY <1>1, <1>2 DEF Listed, Waiting
<1> QED BY <1>4, <1>5 DEF IInv

\* The entry of a module is a new function.
LEMMA BeginInv ==
    ASSUME IInv, Begin
    PROVE  IInv'
<1> DEFINE inst == Entry(program, unit + 1)
<1>1. Recorded /\ Listed
  BY DEF IInv
<1>2. /\ pc = "codegen" /\ pending = <<>> /\ unit < Len(program.roots)
      /\ functions' = WithFunction(inst)
      /\ pending' = <<inst>> /\ entries' = Append(entries, inst.value)
      /\ unit' = unit + 1 /\ UNCHANGED <<program, bodies, asked, pc>>
  BY DEF Begin, Idle
<1>3. /\ Len(program.roots) \in Nat /\ DOMAIN program.roots = 1 .. Len(program.roots)
      /\ \A u, v \in DOMAIN program.roots : program.roots[u] = program.roots[v] => u = v
  BY <1>1, RootsAssumption DEF Recorded
<1>4. /\ unit \in Nat /\ unit + 1 \in DOMAIN program.roots
      /\ \A u \in 1 .. unit : u \in DOMAIN program.roots /\ u # unit + 1
      /\ \A u : u \in 1 .. unit + 1 <=> u \in 1 .. unit \/ u = unit + 1
  BY <1>1, <1>2, <1>3 DEF Recorded
<1>5. \A u : Entry(program, u).value = <<program.roots[u], "entry">>
  BY DEF Entry
<1>6. inst.value \notin DOMAIN functions
  <2>1. \A u \in 1 .. unit : Entry(program, u).value # Entry(program, unit + 1).value
    BY <1>3, <1>4, <1>5
  <2> QED BY <1>1, <1>4, <2>1 DEF Recorded
<1> HIDE DEF inst
<1>7. pending' = Append(pending, inst)
  BY <1>2
<1>8. /\ Listed' /\ DOMAIN functions' = DOMAIN functions \cup {inst.value}
      /\ \A n \in DOMAIN functions' : functions'[n].value = n
  BY <1>1, <1>2, <1>6, <1>7, CreateKeeps
<1>9. entries' \in Seq(DOMAIN functions') /\ ToSet(entries') = ToSet(entries) \cup {inst.value}
  <2>1. entries \in Seq(DOMAIN functions)
    BY <1>1 DEF Recorded
  <2>2. entries \in Seq(DOMAIN functions') /\ inst.value \in DOMAIN functions'
    BY <1>8, <2>1
  <2>3. /\ entries' \in Seq(DOMAIN functions') /\ Len(entries) \in Nat
        /\ DOMAIN entries = 1 .. Len(entries) /\ DOMAIN entries' = 1 .. Len(entries) + 1
        /\ \A j \in 1 .. Len(entries) : entries'[j] = entries[j]
        /\ entries'[Len(entries) + 1] = inst.value
    BY <1>2, <2>2
  <2>4. \A j : j \in 1 .. Len(entries) + 1 <=> j \in 1 .. Len(entries) \/ j = Len(entries) + 1
    BY <2>3
  <2> QED BY <2>3, <2>4 DEF ToSet
<1>10. ToSet(entries') = {Entry(program', u).value : u \in 1 .. unit'}
  BY <1>1, <1>2, <1>4, <1>9 DEF Recorded, inst
<1>11. unit' \in 0 .. Len(program'.roots)
  BY <1>2, <1>3, <1>4
<1>12. DOMAIN functions' = {a.name : a \in asked'} \cup ToSet(entries')
  BY <1>1, <1>2, <1>8, <1>9 DEF Recorded
<1>13. \A a \in asked' : \A u \in DOMAIN program'.roots : a.name # Entry(program', u).value
  BY <1>1, <1>2 DEF Recorded
<1>14. program' \in Programs /\ pc' = "codegen"
  BY <1>1, <1>2 DEF Recorded
<1>15. Recorded'
  BY <1>8, <1>9, <1>10, <1>11, <1>12, <1>13, <1>14 DEF Recorded
<1> QED BY <1>8, <1>15 DEF IInv

\* Who is taken from the list has no body yet.
LEMMA FunctionInv ==
    ASSUME IInv, codegenFunction
    PROVE  IInv'
<1> DEFINE inst == Last(pending)
<1>1. Recorded /\ Listed
  BY DEF IInv
<1>2. /\ pc = "codegen" /\ pending # <<>>
      /\ pending' = Front(pending) /\ bodies' = bodies \cup {inst.value}
      /\ inst.value \notin bodies => pc' = pc
      /\ UNCHANGED <<program, functions, unit, entries, asked>>
  BY DEF codegenFunction, Idle
<1>3. /\ inst.value \in Waiting
      /\ pending' \in Seq(Made) /\ Waiting' = Waiting \ {inst.value}
      /\ \A j, k \in DOMAIN pending' : pending'[j].value = pending'[k].value => j = k
  BY <1>1, <1>2, TakeFacts DEF Waiting
<1>4. inst.value \notin bodies /\ pc' = "codegen"
  BY <1>1, <1>2, <1>3 DEF Listed
<1> HIDE DEF inst
<1>5. Made' = Made
  BY <1>2 DEF Made
<1>6. bodies' \cup Waiting' = DOMAIN functions' /\ bodies' \cap Waiting' = {}
  <2>1. bodies \cup Waiting = DOMAIN functions /\ bodies \cap Waiting = {}
    BY <1>1 DEF Listed
  <2>2. bodies' = bodies \cup {inst.value} /\ DOMAIN functions' = DOMAIN functions
    BY <1>2
  <2> QED BY <1>3, <2>1, <2>2, Zenon
<1>7. Listed'
  BY <1>3, <1>5, <1>6 DEF Listed
<1>8. Recorded'
  BY <1>1, <1>2, <1>4 DEF Recorded
<1> QED BY <1>7, <1>8 DEF IInv

\* A reference gets a function that is there, or makes one.
LEMMA DeclInv ==
    ASSUME IInv, NamesFree, codegenFunctionDecl
    PROVE  IInv'
<1> DEFINE ref == Head(todo)
           inst == Requested(program, currentFunction, ref)
           answer == [meaning |-> Meaning(program, currentFunction, ref), name |-> inst.value]
<1>1. Recorded /\ Listed
  BY DEF IInv
<1>2. /\ pc = "codegen" /\ todo # <<>> /\ Outcome(program, currentFunction, ref) = "codegen"
      /\ GetOrCreate(inst) /\ asked' = asked \cup {answer}
      /\ UNCHANGED <<program, bodies, unit, entries, pc>>
  BY DEF codegenFunctionDecl
<1>3. \A u \in DOMAIN program.roots : inst.value # Entry(program, u).value
  BY <1>2 DEF NamesFree
<1>4. answer.name = inst.value
  OBVIOUS
<1> HIDE DEF ref, inst, answer
<1>5. {a.name : a \in asked'} = {a.name : a \in asked} \cup {inst.value}
  BY <1>2, <1>4
<1>6. /\ Listed' /\ DOMAIN functions' = DOMAIN functions \cup {inst.value}
      /\ \A n \in DOMAIN functions' : functions'[n].value = n
  <2>1. CASE inst.value \in DOMAIN functions
    <3>1. UNCHANGED <<functions, pending, bodies>>
      BY <1>2, <2>1 DEF GetOrCreate
    <3>2. Listed'
      BY <1>1, <3>1 DEF Listed, Made, Waiting
    <3> QED BY <1>1, <2>1, <3>1, <3>2 DEF Recorded
  <2>2. CASE inst.value \notin DOMAIN functions
    <3>1. functions' = WithFunction(inst) /\ pending' = Append(pending, inst)
      BY <1>2, <2>2 DEF GetOrCreate
    <3> QED BY <1>1, <1>2, <2>2, <3>1, CreateKeeps
  <2> QED BY <2>1, <2>2
<1>7. entries' \in Seq(DOMAIN functions')
  <2>1. entries \in Seq(DOMAIN functions) /\ DOMAIN functions \subseteq DOMAIN functions'
    BY <1>1, <1>6 DEF Recorded
  <2> QED BY <1>2, <2>1
<1>8. \A a \in asked' : \A u \in DOMAIN program'.roots : a.name # Entry(program', u).value
  BY <1>1, <1>2, <1>3, <1>4 DEF Recorded
<1>9. ToSet(entries') = ToSet(entries) /\ ToSet(entries') = {Entry(program', u).value : u \in 1 .. unit'}
  BY <1>1, <1>2 DEF Recorded
<1>10. Recorded'
  BY <1>1, <1>2, <1>5, <1>6, <1>7, <1>8, <1>9 DEF Recorded
<1> QED BY <1>6, <1>10 DEF IInv

\* Nothing is made or generated.
LEMMA OtherInv ==
    ASSUME IInv, NamesFree, Stop \/ codegenMain \/ UNCHANGED vars
    PROVE  IInv'
<1>1. Recorded /\ Listed
  BY DEF IInv
<1>2. UNCHANGED <<program, functions, bodies, pending, unit, entries, asked>>
  BY DEF Stop, codegenMain, vars
<1>3. pc' \in {"codegen", "done", "ICE", "cut"} /\ (pc' = "done" => pending' = <<>>)
  <2>1. CASE Stop
    <3>1. pc' \in {"ICE", "cut"}
      BY <2>1 DEF Stop, NamesFree
    <3> QED BY <3>1
  <2>2. CASE codegenMain
    BY <1>2, <2>2 DEF codegenMain, Idle
  <2>3. CASE UNCHANGED vars
    BY <1>1, <2>3 DEF vars, Recorded
  <2> QED BY <2>1, <2>2, <2>3
<1>4. Recorded'
  BY <1>1, <1>2, <1>3 DEF Recorded
<1>5. Listed'
  BY <1>1, <1>2 DEF Listed, Made, Waiting
<1> QED BY <1>4, <1>5 DEF IInv

LEMMA NextInv == IInv /\ NamesFree /\ [Next]_vars => IInv'
BY BeginInv, FunctionInv, DeclInv, OtherInv DEF Next, Ended

-----------------------------------------------------------------------------
(* What the work list promises *)

\* codegenFunction never meets a body (its assert), and when code generation
\* ends every function that is referred to from any module and every entry has
\* one, as long as no mangled name is the name of an entry (NamesFree).
THEOREM GeneratesEverything == Spec /\ []NamesFree => []EverythingGenerated
<1>1. IInv => EverythingGenerated
  <2> SUFFICES ASSUME Recorded, Listed PROVE EverythingGenerated
    BY DEF IInv
  <2>1. TypeOK
    <3>1. bodies \subseteq DOMAIN functions /\ ToSet(entries) \subseteq DOMAIN functions
      BY DEF Recorded, Listed
    <3>2. \A j \in DOMAIN pending : pending[j].value \in DOMAIN functions
      BY DEF Listed, Waiting
    <3> QED BY <3>1, <3>2 DEF TypeOK, Recorded
  <2>2. ASSUME pc = "done"
        PROVE  {a.name : a \in asked} \cup ToSet(entries) \cup DOMAIN functions = bodies
    <3>1. pending = <<>>
      BY <2>2 DEF Recorded
    <3>2. Waiting = {}
      BY <3>1 DEF Waiting
    <3>3. DOMAIN functions = bodies
      BY <3>2 DEF Listed
    <3> QED BY <3>3 DEF Recorded
  <2> QED BY <2>1, <2>2 DEF EverythingGenerated, Recorded
<1> QED BY InitInv, NextInv, <1>1, PTL DEF Spec
=============================================================================
