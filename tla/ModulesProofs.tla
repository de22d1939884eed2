--------------------------- MODULE ModulesProofs ---------------------------
(***************************************************************************)
(* Proofs about Modules.tla, for every set of names, file system and       *)
(* command line: the invariants that MCModules checks on small import      *)
(* graphs.                                                                 *)
(*                                                                         *)
(* The inductive invariant IInv has a part for each phase.  Loading says   *)
(* that what is loaded or awaited is between the inputs and their closure. *)
(* Scanning and Partitioned describe the compaction of pending in place.   *)
(* Ordering carries acyclicity along as a fact about the visited modules,  *)
(* which one more ready module cannot break, so no induction on the graph  *)
(* is needed; Searching does the same for reachability along the path.     *)
(***************************************************************************)
EXTENDS Modules, TLAPS

PendingNames == {pendingModules[k].name : k \in 1 .. Len(pendingModules)}

Sorting == pc \in {"sort", "find"}
Sorted  == pc \in {"sort", "find", "compile", "done"}

\* Nothing is sorted while modules are loaded.
Fresh ==
    /\ moduleMap = [n \in {} |-> 0]
    /\ errors = 0
    /\ reported = {}
    /\ pending = <<>>
    /\ scan = 1
    /\ write = 0
    /\ visited = {}
    /\ result = <<>>
    /\ entries = <<>>

\* Loading: names are unique, nothing needed is forgotten, and nothing is
\* loaded or awaited that is not needed.
Loading ==
    /\ \A j, k \in 1 .. Len(modules) : modules[j].name = modules[k].name => j = k
    /\ pc # "failed" =>
          /\ InputNames \subseteq Names(modules) \cup PendingNames
          /\ \A k \in 1 .. Len(modules) : Imports(k) \subseteq Names(modules) \cup PendingNames
          /\ \A T \in SUBSET Name : InputNames \subseteq T /\ Closed(T)
                => Names(modules) \cup PendingNames \subseteq T
    /\ pc = "load" => Fresh
    /\ Sorted => pendingModules = <<>>

\* moduleMap is the inverse of the modules' names.
Mapping ==
    Sorted => /\ DOMAIN moduleMap = Names(modules)
              /\ \A n \in Names(modules) : modules[moduleMap[n]].name = n

\* The names of the modules emitted so far.
Emitted == {modules[result[k]].name : k \in 1 .. Len(result)}

\* The scan: where it is, and that nothing before it was ready if it has kept
\* everything.
Scanning ==
    /\ Sorting => /\ Range(pending) \subseteq Names(modules)
                  /\ scan \in 1 .. Len(pending) + 1
                  /\ write < scan
                  /\ write = scan - 1 => \A j \in 1 .. write : ~ moduleIsReady(pending[j])
    /\ pc = "find" => scan = Len(pending) + 1 /\ write = Len(pending)
    /\ Sorted => Emitted \subseteq visited /\ visited \subseteq Names(modules)

\* The places of pending that hold modules to be looked at or kept.
Todo == (1 .. write) \cup (scan .. Len(pending))

\* EmittedOnce by names: each module is in one place of pending or result.
Partitioned ==
    /\ \A j, k \in 1 .. Len(result) : result[j] = result[k] => j = k
    /\ Sorting =>
          /\ \A j, k \in Todo : pending[j] = pending[k] => j = k
          /\ \A j \in Todo : pending[j] \notin Emitted
          /\ \A n \in Names(modules) : n \in Emitted \/ \E j \in Todo : pending[j] = n
    /\ pc \in {"compile", "done"} => Names(modules) \subseteq Emitted

\* Every module emitted comes after its imports.
InOrder ==
    \A k \in 1 .. Len(result) : \A m \in Imports(result[k]) :
        \E j \in 1 .. k - 1 : modules[result[j]].name = m

\* Without an error what is visited is what was emitted, every module emitted
\* after its imports; with one, there is a cycle.
Ordering ==
    Sorted =>
        /\ errors = 0 =>
              /\ visited = Emitted
              /\ InOrder
              /\ ~ CyclicAmong(visited)
        /\ errors # 0 => CyclicAmong(Names(modules))

\* The search: frame i + 1 is the import that frame i is at, so it is in every
\* closed set with the imports of an earlier frame; and no import that a frame
\* has done with is pending.
Searching ==
    pc = "find" =>
        /\ path # <<>>
        /\ pending # <<>> /\ path[1].name = pending[1]
        /\ \A i \in 1 .. Len(path) : path[i].name \in Names(modules)
        /\ \A i \in 1 .. Len(path) : path[i].pos <= Len(importsOf(path[i].name)) + 1
        /\ seen \subseteq {path[i].name : i \in 1 .. Len(path)}
        /\ \A i \in 1 .. Len(path) - 1 :
              /\ path[i].pos > 1
              /\ importsOf(path[i].name)[path[i].pos - 1] = path[i + 1].name
        /\ \A i, j \in 1 .. Len(path) : i < j =>
              \A T \in SUBSET Names(modules) :
                  Range(importsOf(path[i].name)) \subseteq T /\ Closed(T) => path[j].name \in T
        /\ \A i \in 1 .. Len(path) : \A k \in 1 .. path[i].pos - 1 :
              \/ i < Len(path) /\ k = path[i].pos - 1
              \/ importsOf(path[i].name)[k] \notin Range(pending)

\* Compilation follows the order and happens only without errors.
Compiling ==
    /\ Sorting => entries = <<>>
    /\ Sorted => /\ Len(entries) <= Len(result)
                 /\ \A k \in 1 .. Len(entries) : entries[k] = result[k]
                 /\ entries # <<>> => errors = 0

\* The inductive invariant.
IInv ==
    /\ TypeOK /\ Loading /\ Mapping /\ Scanning /\ Partitioned /\ Ordering
    /\ Searching /\ Compiling /\ CompiledAfterImports /\ ReportedOnCycle
-----------------------------------------------------------------------------
\* The elements of a sequence.
LEMMA RangeOfSeq ==
    ASSUME NEW S, NEW s \in Seq(S)
    PROVE  Range(s) = {s[k] : k \in 1 .. Len(s)} /\ Range(s) \subseteq S
BY DEF Range

\* The head and the tail of a sequence that is not empty.
LEMMA HeadTail ==
    ASSUME NEW S, NEW s \in Seq(S), s # <<>>
    PROVE  /\ Len(s) \in Nat \ {0}
           /\ Head(s) = s[1]
           /\ Head(s) \in S
           /\ Tail(s) \in Seq(S)
           /\ Len(Tail(s)) = Len(s) - 1
           /\ \A k \in 1 .. Len(s) - 1 : Tail(s)[k] = s[k + 1]
<1>1. Len(s) \in Nat \ {0}
  OBVIOUS
<1>2. Head(s) = s[1] /\ Head(s) \in S
  BY <1>1
<1>3. Tail(s) \in Seq(S) /\ Len(Tail(s)) = Len(s) - 1
  BY <1>1
<1>4. \A k \in 1 .. Len(s) - 1 : Tail(s)[k] = s[k + 1]
  BY <1>1
<1> QED  BY <1>1, <1>2, <1>3, <1>4

\* What Append does at each index.
LEMMA AppendFacts ==
    ASSUME NEW S, NEW s \in Seq(S), NEW x \in S
    PROVE  /\ Len(s) \in Nat
           /\ Append(s, x) \in Seq(S)
           /\ Len(Append(s, x)) = Len(s) + 1
           /\ \A k \in 1 .. Len(s) : Append(s, x)[k] = s[k] /\ s[k] \in S
           /\ Append(s, x)[Len(s) + 1] = x
OBVIOUS

\* What concatenation does at each index.
LEMMA ConcatFacts ==
    ASSUME NEW S, NEW s \in Seq(S), NEW t \in Seq(S)
    PROVE  /\ Len(s) \in Nat /\ Len(t) \in Nat
           /\ s \o t \in Seq(S)
           /\ Len(s \o t) = Len(s) + Len(t)
           /\ \A k \in 1 .. Len(s) : (s \o t)[k] = s[k]
           /\ \A k \in 1 .. Len(t) : (s \o t)[Len(s) + k] = t[k]
<1>1. /\ Len(s) \in Nat /\ Len(t) \in Nat
      /\ s \o t \in Seq(S)
      /\ Len(s \o t) = Len(s) + Len(t)
  OBVIOUS
<1>2. \A k \in 1 .. Len(s) : (s \o t)[k] = s[k]
  BY <1>1
<1>3. \A k \in 1 .. Len(t) : (s \o t)[Len(s) + k] = t[k]
  BY <1>1
<1> QED  BY <1>1, <1>2, <1>3

\* The names in a concatenation of pending modules.
LEMMA ConcatNames ==
    ASSUME NEW S, NEW s \in Seq(S), NEW t \in Seq(S)
    PROVE  Names(s \o t) = Names(s) \cup Names(t)
<1> PICK l : l = Len(s)
  OBVIOUS
<1> PICK i : i = Len(t)
  OBVIOUS
<1> PICK u : u = s \o t
  OBVIOUS
<1>1. /\ l \in Nat /\ i \in Nat
      /\ Len(u) = l + i
      /\ \A k \in 1 .. l : u[k] = s[k]
      /\ \A k \in 1 .. i : u[l + k] = t[k]
  BY ConcatFacts
<1>2. ASSUME NEW m \in Names(u)
      PROVE  m \in Names(s) \cup Names(t)
  <2>1. PICK k \in 1 .. l + i : m = u[k].name
    BY <1>1, <1>2 DEF Names
  <2>2. CASE k \in 1 .. l
    BY <1>1, <2>1, <2>2 DEF Names
  <2>3. CASE k \notin 1 .. l
    <3>1. k - l \in 1 .. i /\ l + (k - l) = k
      BY <1>1, <2>1, <2>3
    <3>2. u[k] = t[k - l]
      BY <1>1, <3>1
    <3> QED  BY <2>1, <3>1, <3>2 DEF Names
  <2> QED  BY <2>2, <2>3
<1>3. ASSUME NEW k \in 1 .. l PROVE s[k].name \in Names(u)
  <2>1. k \in 1 .. l + i
    BY <1>1
  <2> QED  BY <1>1, <2>1 DEF Names
<1>4. ASSUME NEW k \in 1 .. i PROVE t[k].name \in Names(u)
  <2>1. l + k \in 1 .. l + i
    BY <1>1
  <2> QED  BY <1>1, <2>1 DEF Names
<1>5. Names(s) \cup Names(t) \subseteq Names(u)
  BY <1>3, <1>4 DEF Names
<1> QED  BY <1>2, <1>5

\* A function on 1 .. n is a sequence.
LEMMA FunctionIsSeq ==
    ASSUME NEW S, NEW n \in Nat, NEW f \in [1 .. n -> S]
    PROVE  f \in Seq(S) /\ Len(f) = n
OBVIOUS

\* The invariant holds when compileModules starts.
LEMMA InitIInv == Init => IInv
<1> SUFFICES ASSUME Init PROVE IInv
  OBVIOUS
<1> USE NameAssumption, NamingAssumption, InputAssumption
<1>1. /\ inputs \in Seq(Path)
      /\ pc = "load"
      /\ modules = <<>>
      /\ result = <<>>
      /\ entries = <<>>
      /\ reported = {}
      /\ Names(modules) = {}
  BY DEF Init, Names
<1>2. TypeOK
  <2>1. pendingModules \in Seq([name : Name, path : Path])
    BY <1>1 DEF Init
  <2> QED  BY <1>1, <2>1 DEF Init, TypeOK
<1>3. Loading
  <2>1. PendingNames = InputNames
    <3>1. /\ Len(pendingModules) = Len(inputs)
          /\ \A k \in 1 .. Len(inputs) : pendingModules[k].name = ModuleName[inputs[k]]
      BY <1>1 DEF Init
    <3> QED  BY <3>1 DEF PendingNames, InputNames
  <2>2. Fresh
    BY DEF Init, Fresh
  <2> QED  BY <1>1, <2>1, <2>2 DEF Loading, Sorted
<1>4. Mapping /\ Scanning /\ Ordering /\ Searching /\ Compiling
  BY <1>1 DEF Mapping, Scanning, Ordering, Searching, Compiling, Sorted, Sorting
<1>5. Partitioned /\ CompiledAfterImports /\ ReportedOnCycle
  BY <1>1 DEF Partitioned, Sorting, CompiledAfterImports, ReportedOnCycle
<1> QED  BY <1>2, <1>3, <1>4, <1>5 DEF IInv
-----------------------------------------------------------------------------
(* Loading.                                                                *)

\* The names that are awaited when the first pending module is taken off.
LEMMA TakePending ==
    ASSUME TypeOK, pendingModules # <<>>
    PROVE  /\ Head(pendingModules) \in [name : Name, path : Path]
           /\ Tail(pendingModules) \in Seq([name : Name, path : Path])
           /\ PendingNames = {Head(pendingModules).name} \cup
                 {Tail(pendingModules)[k].name : k \in 1 .. Len(Tail(pendingModules))}
<1> PICK n : n = Len(pendingModules)
  OBVIOUS
<1>0. pendingModules \in Seq([name : Name, path : Path])
  BY DEF TypeOK
<1>1. /\ n \in Nat \ {0}
      /\ Head(pendingModules) = pendingModules[1]
      /\ Head(pendingModules) \in [name : Name, path : Path]
      /\ Len(Tail(pendingModules)) = n - 1
      /\ \A k \in 1 .. n - 1 : Tail(pendingModules)[k] = pendingModules[k + 1]
      /\ Tail(pendingModules) \in Seq([name : Name, path : Path])
  BY <1>0, HeadTail
<1>2. \A k \in 1 .. n : k = 1 \/ (k - 1 \in 1 .. n - 1 /\ k = (k - 1) + 1)
  BY <1>1
<1> PICK t : t = Tail(pendingModules)
  OBVIOUS
<1>3. ASSUME NEW m \in PendingNames
      PROVE  m \in {pendingModules[1].name} \cup {t[k].name : k \in 1 .. n - 1}
  <2>1. PICK k \in 1 .. n : m = pendingModules[k].name
    BY <1>3 DEF PendingNames
  <2>2. CASE k = 1
    BY <2>1, <2>2
  <2>3. CASE k - 1 \in 1 .. n - 1
    <3>1. t[k - 1] = pendingModules[k]
      BY <1>1, <2>1, <2>3
    <3> QED  BY <2>1, <2>3, <3>1
  <2> QED  BY <1>2, <2>1, <2>2, <2>3
<1>4. ASSUME NEW m \in {t[k].name : k \in 1 .. n - 1}
      PROVE  m \in PendingNames
  <2>1. PICK k \in 1 .. n - 1 : m = pendingModules[k + 1].name
    BY <1>1, <1>4
  <2>2. k + 1 \in 1 .. n
    BY <1>1, <2>1
  <2> QED  BY <2>1, <2>2 DEF PendingNames
<1>5. pendingModules[1].name \in PendingNames
  BY <1>1 DEF PendingNames
<1>6. PendingNames = {pendingModules[1].name} \cup {t[k].name : k \in 1 .. n - 1}
  BY <1>3, <1>4, <1>5
<1> QED  BY <1>1, <1>6

\* Skipping a module that was loaded before keeps the invariant.
LEMMA LoadAgainIInv == IInv /\ LoadAgain => IInv'
<1> SUFFICES ASSUME IInv, LoadAgain PROVE IInv'
  OBVIOUS
<1>1. TypeOK /\ Loading
  BY DEF IInv
<1>2. /\ pc = "load" /\ pc' = "load"
      /\ pendingModules # <<>>
      /\ Head(pendingModules).name \in Names(modules)
      /\ pendingModules' = Tail(pendingModules)
      /\ UNCHANGED <<modules, errors, entries, envVars, sortVars, findVars>>
  BY DEF LoadAgain
<1>3. TypeOK'
  BY <1>1, <1>2, TakePending DEF TypeOK, envVars, sortVars, findVars
<1>4. Names(modules)' = Names(modules) /\ InputNames' = InputNames
  BY <1>2 DEF Names, InputNames, envVars
<1>5. Names(modules)' \cup PendingNames' = Names(modules) \cup PendingNames
  BY <1>1, <1>2, <1>4, TakePending DEF PendingNames
<1>6. /\ \A k \in 1 .. Len(modules) : Imports(k)' = Imports(k)
      /\ \A T \in SUBSET Name : Closed(T)' <=> Closed(T)
  BY <1>2 DEF Imports, Closed
<1>7. Loading'
  BY <1>1, <1>2, <1>4, <1>5, <1>6 DEF Loading, Fresh, Sorted, sortVars
<1>8. result' = <<>> /\ entries' = <<>> /\ reported' = {}
  BY <1>1, <1>2 DEF Loading, Fresh, sortVars
<1> QED  BY <1>2, <1>3, <1>7, <1>8 DEF IInv, Mapping, Scanning, Ordering, Searching,
            Compiling, Sorted, Sorting, Partitioned, CompiledAfterImports, ReportedOnCycle

\* A file that is missing or malformed ends the process.
LEMMA LoadFailsIInv == IInv /\ (LoadMissing \/ LoadMalformed) => IInv'
<1> SUFFICES ASSUME IInv, LoadMissing \/ LoadMalformed PROVE IInv'
  OBVIOUS
<1>1. TypeOK /\ Loading
  BY DEF IInv
<1>2. /\ pc = "load" /\ pc' = "failed"
      /\ pendingModules # <<>>
      /\ pendingModules' = Tail(pendingModules)
      /\ errors' \in {0, 1}
      /\ UNCHANGED <<modules, entries, envVars, sortVars, findVars>>
  BY <1>1 DEF LoadMissing, LoadMalformed, TypeOK
<1>3. TypeOK'
  BY <1>1, <1>2, TakePending DEF TypeOK, envVars, sortVars, findVars
<1>4. Loading'
  BY <1>1, <1>2 DEF Loading, Sorted
<1>5. result' = <<>> /\ entries' = <<>> /\ reported' = {}
  BY <1>1, <1>2 DEF Loading, Fresh, sortVars
<1> QED  BY <1>2, <1>3, <1>4, <1>5 DEF IInv, Mapping, Scanning, Ordering, Searching,
            Compiling, Sorted, Sorting, Partitioned, CompiledAfterImports, ReportedOnCycle

\* Loading a module puts its imports where its own name was awaited.
LEMMA LoadModuleIInv == IInv /\ LoadModule => IInv'
<1> SUFFICES ASSUME IInv, LoadModule PROVE IInv'
  OBVIOUS
<1> USE NameAssumption, NamingAssumption, InputAssumption
<1> DEFINE pm == Head(pendingModules)
           rest == Tail(pendingModules)
           imp == gatherImports(pm.name, disk[pm.path])
           new == [k \in 1 .. Len(imp) |-> [name |-> imp[k], path |-> ModulePath[imp[k]]]]
           md == [name |-> pm.name, imports |-> imp]
<1>1. TypeOK /\ Loading
  BY DEF IInv
<1>2. /\ pc = "load" /\ pc' = "load"
      /\ pendingModules # <<>>
      /\ pm.name \notin Names(modules)
      /\ pendingModules' = rest \o new
      /\ modules' = Append(modules, md)
      /\ UNCHANGED <<errors, entries, envVars, sortVars, findVars>>
  BY DEF LoadModule
<1>3. /\ pm \in [name : Name, path : Path]
      /\ rest \in Seq([name : Name, path : Path])
      /\ PendingNames = {pm.name} \cup {rest[k].name : k \in 1 .. Len(rest)}
  BY <1>1, <1>2, TakePending
<1>4. imp \in Seq(Name)
  <2>1. disk[pm.path].imports \in Seq(Name)
    BY <1>1, <1>3 DEF TypeOK, File
  <2> QED  BY <2>1 DEF gatherImports
<1>5. /\ new \in Seq([name : Name, path : Path])
      /\ Len(new) = Len(imp)
      /\ \A k \in 1 .. Len(imp) : new[k].name = imp[k]
  <2> HIDE DEF imp
  <2>1. Len(imp) \in Nat /\ \A k \in 1 .. Len(imp) : imp[k] \in Name
    BY <1>4
  <2>2. new \in [1 .. Len(imp) -> [name : Name, path : Path]]
    BY <2>1
  <2> QED  BY <2>1, <2>2, FunctionIsSeq
<1>6. md \in Module /\ md.name = pm.name /\ md.imports = imp
  BY <1>3, <1>4 DEF Module
<1> HIDE DEF imp, new, md, rest, pm
<1> PICK n : n = Len(modules)
  OBVIOUS
<1>7. /\ modules \in Seq(Module) /\ n \in Nat
      /\ modules' \in Seq(Module)
      /\ Len(modules') = n + 1
      /\ \A k \in 1 .. n : modules'[k] = modules[k]
      /\ modules'[n + 1] = md
  <2>1. modules \in Seq(Module)
    BY <1>1 DEF TypeOK
  <2> QED  BY <1>2, <1>6, <2>1, AppendFacts
<1>8. pendingModules' \in Seq([name : Name, path : Path])
  BY <1>2, <1>3, <1>5, ConcatFacts
<1>9. Fresh /\ Fresh'
  BY <1>1, <1>2 DEF Loading, Fresh, sortVars
<1>10. TypeOK'
  <2>1. /\ moduleMap' \in [DOMAIN moduleMap' -> 1 .. Len(modules')]
        /\ DOMAIN moduleMap' \subseteq Name
        /\ result' \in Seq(1 .. Len(modules'))
        /\ entries' \in Seq(1 .. Len(modules'))
    BY <1>9 DEF Fresh
  <2> QED  BY <1>1, <1>2, <1>7, <1>8, <2>1 DEF TypeOK, envVars, sortVars, findVars
<1>11. Names(modules)' = Names(modules) \cup {pm.name}
  <2>1. Names(modules)' = {modules'[k].name : k \in 1 .. n + 1}
    BY <1>7 DEF Names
  <2>2. Names(modules) = {modules'[k].name : k \in 1 .. n}
    BY <1>7 DEF Names
  <2>3. 1 .. n + 1 = (1 .. n) \cup {n + 1}
    BY <1>7
  <2> HIDE DEF Names
  <2> QED  BY <1>6, <1>7, <2>1, <2>2, <2>3
<1>12. /\ \A k \in 1 .. n : Imports(k)' = Imports(k)
       /\ Imports(n + 1)' = Range(imp)
       /\ \A k \in 1 .. Len(imp) : imp[k] \in Range(imp)
  BY <1>4, <1>6, <1>7 DEF Imports, Range
<1>13. PendingNames' = {rest[k].name : k \in 1 .. Len(rest)} \cup Range(imp)
  <2>1. Names(rest \o new) = Names(rest) \cup Names(new)
    <3>1. PICK R : rest \in Seq(R) /\ new \in Seq(R)
      BY <1>3, <1>5
    <3> QED  BY <3>1, ConcatNames
  <2>2. Names(new) = Range(imp)
    <3>1. Names(new) = {imp[k] : k \in 1 .. Len(imp)}
      BY <1>5 DEF Names
    <3> QED  BY <1>4, <3>1, RangeOfSeq
  <2> QED  BY <1>2, <2>1, <2>2 DEF PendingNames, Names
<1>14. Loading'
  <2>1. \A j, k \in 1 .. Len(modules') : modules'[j].name = modules'[k].name => j = k
    <3>1. \A k \in 1 .. n : modules'[k].name \in Names(modules)
      BY <1>7 DEF Names
    <3>2. modules'[n + 1].name \notin Names(modules)
      BY <1>2, <1>6, <1>7
    <3>3. \A j, k \in 1 .. n : modules'[j].name = modules'[k].name => j = k
      BY <1>1, <1>7 DEF Loading
    <3>4. \A k \in 1 .. Len(modules') : k \in 1 .. n \/ k = n + 1
      BY <1>7
    <3> QED  BY <3>1, <3>2, <3>3, <3>4
  <2>2. Names(modules) \cup PendingNames \subseteq Names(modules)' \cup PendingNames'
    BY <1>3, <1>11, <1>13
  <2>3. InputNames' \subseteq Names(modules)' \cup PendingNames'
    BY <1>1, <1>2, <2>2 DEF Loading, InputNames, envVars
  <2>4. \A k \in 1 .. Len(modules') : Imports(k)' \subseteq Names(modules)' \cup PendingNames'
    <3>1. \A k \in 1 .. Len(modules') : k \in 1 .. n \/ k = n + 1
      BY <1>7
    <3>2. \A k \in 1 .. n : Imports(k) \subseteq Names(modules)' \cup PendingNames'
      BY <1>1, <1>2, <2>2 DEF Loading
    <3>3. Range(imp) \subseteq Names(modules)' \cup PendingNames'
      BY <1>13
    <3> QED  BY <1>12, <3>1, <3>2, <3>3
  <2>5. ASSUME NEW T \in SUBSET Name, InputNames' \subseteq T, Closed(T)'
        PROVE  Names(modules)' \cup PendingNames' \subseteq T
    <3>1. Closed(T)
      <4>1. \A k \in 1 .. n : modules'[k].name \in T => Imports(k)' \subseteq T
        BY <1>7, <2>5 DEF Closed
      <4> QED  BY <1>7, <1>12, <4>1 DEF Closed
    <3>2. Names(modules) \cup PendingNames \subseteq T
      BY <1>1, <1>2, <2>5, <3>1 DEF Loading, InputNames, envVars
    <3>3. pm.name \in T
      BY <1>3, <3>2
    <3>4. Range(imp) \subseteq T
      BY <1>6, <1>7, <1>12, <2>5, <3>3 DEF Closed
    <3> QED  BY <1>3, <1>11, <1>13, <3>2, <3>4
  <2> QED  BY <1>2, <1>9, <2>1, <2>3, <2>4, <2>5 DEF Loading, Sorted
<1> QED  BY <1>2, <1>9, <1>10, <1>14 DEF IInv, Fresh, Mapping, Scanning, Ordering, Searching,
            Compiling, Sorted, Sorting, Partitioned, CompiledAfterImports, ReportedOnCycle
-----------------------------------------------------------------------------
(* Sorting.                                                                *)

\* Once modules are sorted moduleMap finds each, and all it imports.
LEMMA MapFacts ==
    ASSUME TypeOK, Loading, Mapping, Sorted
    PROVE  /\ Names(modules) \subseteq Name
           /\ \A n \in Names(modules) :
                 /\ moduleMap[n] \in 1 .. Len(modules)
                 /\ modules[moduleMap[n]].name = n
                 /\ importsOf(n) \in Seq(Name)
                 /\ Imports(moduleMap[n]) = Range(importsOf(n))
                 /\ Range(importsOf(n)) \subseteq Names(modules)
                 /\ \A k \in 1 .. Len(importsOf(n)) : importsOf(n)[k] \in Range(importsOf(n))
           /\ \A k \in 1 .. Len(modules) : /\ modules[k].name \in Names(modules)
                                           /\ moduleMap[modules[k].name] = k
                                           /\ Imports(k) = Range(importsOf(modules[k].name))
<1>1. /\ modules \in Seq(Module)
      /\ \A k \in 1 .. Len(modules) : modules[k] \in Module
  BY DEF TypeOK
<1>2. \A k \in 1 .. Len(modules) : /\ modules[k].name \in Name
                                   /\ modules[k].imports \in Seq(Name)
  BY <1>1 DEF Module
<1>3. PendingNames = {}
  BY DEF Loading, PendingNames
<1>4. \A k \in 1 .. Len(modules) : Imports(k) \subseteq Names(modules)
  BY <1>3 DEF Loading, Sorted
<1>5. ASSUME NEW n \in Names(modules)
      PROVE  /\ moduleMap[n] \in 1 .. Len(modules)
             /\ modules[moduleMap[n]].name = n
             /\ importsOf(n) \in Seq(Name)
             /\ Imports(moduleMap[n]) = Range(importsOf(n))
             /\ Range(importsOf(n)) \subseteq Names(modules)
             /\ \A k \in 1 .. Len(importsOf(n)) : importsOf(n)[k] \in Range(importsOf(n))
  <2>1. moduleMap[n] \in 1 .. Len(modules) /\ modules[moduleMap[n]].name = n
    BY DEF TypeOK, Mapping
  <2>2. importsOf(n) \in Seq(Name) /\ Imports(moduleMap[n]) = Range(importsOf(n))
    BY <1>2, <2>1 DEF importsOf, Imports
  <2>3. \A k \in 1 .. Len(importsOf(n)) : importsOf(n)[k] \in Range(importsOf(n))
    BY <2>2, RangeOfSeq
  <2> QED  BY <1>4, <2>1, <2>2, <2>3
<1>6. ASSUME NEW k \in 1 .. Len(modules)
      PROVE  modules[k].name \in Names(modules) /\ moduleMap[modules[k].name] = k
  <2>1. modules[k].name \in Names(modules)
    BY DEF Names
  <2>2. /\ moduleMap[modules[k].name] \in 1 .. Len(modules)
        /\ modules[moduleMap[modules[k].name]].name = modules[k].name
    BY <1>5, <2>1
  <2> QED  BY <2>1, <2>2 DEF Loading
<1>7. Names(modules) \subseteq Name
  BY <1>2 DEF Names
<1>8. \A k \in 1 .. Len(modules) : Imports(k) = Range(importsOf(modules[k].name))
  BY <1>6 DEF Imports, importsOf
<1> QED  BY <1>5, <1>6, <1>7, <1>8

\* moduleSort and what follows never change what was loaded.
LEMMA Unchanged ==
    ASSUME UNCHANGED <<loadVars, moduleMap, envVars>>
    PROVE  /\ Names(modules)' = Names(modules)
           /\ InputNames' = InputNames
           /\ PendingNames' = PendingNames
           /\ \A k : Imports(k)' = Imports(k)
           /\ \A n : importsOf(n)' = importsOf(n)
           /\ \A T : Closed(T)' <=> Closed(T)
           /\ \A T : CyclicAmong(T)' <=> CyclicAmong(T)
BY DEF loadVars, envVars, Names, InputNames, PendingNames, Imports, importsOf, Closed,
       CyclicAmong

\* What was established by loading stays, once it is complete.
LEMMA LoadingStays ==
    ASSUME Loading, Mapping, Sorted, pc' # "load", UNCHANGED <<loadVars, moduleMap, envVars>>
    PROVE  Loading' /\ Mapping'
<1>1. modules' = modules /\ pendingModules' = pendingModules /\ moduleMap' = moduleMap
  BY DEF loadVars
<1>2. pc # "failed"
  BY DEF Sorted
<1>3. Loading'
  BY <1>1, <1>2, Unchanged DEF Loading, Sorted
<1>4. Mapping'
  BY <1>1, Unchanged DEF Mapping, Sorted
<1> QED  BY <1>3, <1>4

\* What was reported and compiled stays.
LEMMA HistoryStays ==
    ASSUME CompiledAfterImports, ReportedOnCycle,
           UNCHANGED <<loadVars, moduleMap, envVars, entries, reported>>
    PROVE  CompiledAfterImports' /\ ReportedOnCycle'
<1>1. modules' = modules /\ moduleMap' = moduleMap /\ entries' = entries /\ reported' = reported
  BY DEF loadVars
<1>2. CompiledAfterImports'
  <2> SUFFICES ASSUME NEW k \in 1 .. Len(entries'), NEW m \in Imports(entries[k])'
               PROVE  \E j \in 1 .. k - 1 : modules'[entries'[j]].name = m
    BY DEF CompiledAfterImports
  <2>1. k \in 1 .. Len(entries) /\ m \in Imports(entries[k])
    BY <1>1 DEF Imports
  <2>2. m \in {modules[entries[j]].name : j \in 1 .. k - 1}
    BY <2>1 DEF CompiledAfterImports
  <2>3. PICK j \in 1 .. k - 1 : modules[entries[j]].name = m
    BY <2>2
  <2> QED  BY <1>1, <2>3
<1>3. ReportedOnCycle'
  BY <1>1, Unchanged DEF ReportedOnCycle
<1> QED  BY <1>2, <1>3

\* A step that emits nothing and reports nothing keeps the order.
LEMMA OrderingStays ==
    ASSUME Ordering, Sorted,
           UNCHANGED <<loadVars, moduleMap, envVars, errors, visited, result>>
    PROVE  Ordering' /\ Emitted' = Emitted
<1>1. /\ modules' = modules /\ errors' = errors /\ visited' = visited
      /\ result' = result
  BY DEF loadVars
<1>2. Emitted' = Emitted
  BY <1>1 DEF Emitted
<1>3. InOrder' <=> InOrder
  BY <1>1 DEF InOrder, Imports
<1>4. /\ CyclicAmong(visited)' <=> CyclicAmong(visited)
      /\ CyclicAmong(Names(modules))' <=> CyclicAmong(Names(modules))
  BY <1>1 DEF CyclicAmong, importsOf, Names
<1> QED  BY <1>1, <1>2, <1>3, <1>4 DEF Ordering

\* moduleSort starts with every module pending, in order of name.
LEMMA SortBeginIInv == IInv /\ SortBegin => IInv'
<1> SUFFICES ASSUME IInv, SortBegin PROVE IInv'
  OBVIOUS
<1>1. TypeOK /\ Loading
  BY DEF IInv
<1>2. /\ pc = "load" /\ pc' = "sort"
      /\ pendingModules = <<>>
      /\ moduleMap' = [n \in Names(modules) |->
                          CHOOSE k \in 1 .. Len(modules) : modules[k].name = n]
      /\ pending' \in SortedByName
      /\ UNCHANGED <<loadVars, reported, scan, write, visited, result, errors,
                     entries, envVars, findVars>>
  BY DEF SortBegin
<1>3. Fresh
  BY <1>1, <1>2 DEF Loading
<1>4. /\ modules \in Seq(Module) /\ modules' = modules /\ pendingModules' = pendingModules
      /\ Len(modules) \in Nat
  BY <1>1, <1>2 DEF TypeOK, loadVars
<1>5. /\ \A k \in 1 .. Len(modules) : modules[k].name \in Name
      /\ Names(modules) \subseteq Name
  <2>1. \A k \in 1 .. Len(modules) : modules[k] \in Module
    BY <1>4
  <2>2. \A k \in 1 .. Len(modules) : modules[k].name \in Name
    BY <2>1 DEF Module
  <2> QED  BY <2>2 DEF Names
<1>6. \A n \in Names(modules) : /\ moduleMap'[n] \in 1 .. Len(modules)
                                /\ modules[moduleMap'[n]].name = n
  <2> SUFFICES ASSUME NEW n \in Names(modules)
               PROVE  moduleMap'[n] \in 1 .. Len(modules) /\ modules[moduleMap'[n]].name = n
    OBVIOUS
  <2>1. \E k \in 1 .. Len(modules) : modules[k].name = n
    BY DEF Names
  <2>2. moduleMap'[n] = CHOOSE k \in 1 .. Len(modules) : modules[k].name = n
    BY <1>2
  <2> QED  BY <2>1, <2>2
<1>7. Names(modules)' = Names(modules)
  BY <1>4 DEF Names
<1>8. Mapping' /\ DOMAIN moduleMap' = Names(modules)
  BY <1>2, <1>4, <1>6, <1>7 DEF Mapping
<1>9. /\ pending' \in [1 .. Len(modules) -> Names(modules)]
      /\ Range(pending') = Names(modules)
      /\ \A j, k \in 1 .. Len(modules) : j < k => pending'[j] < pending'[k]
      /\ pending' \in Seq(Names(modules))
      /\ pending' \in Seq(Name)
      /\ Len(pending') = Len(modules)
  <2>1. /\ pending' \in [1 .. Len(modules) -> Names(modules)]
        /\ Range(pending') = Names(modules)
        /\ \A j, k \in 1 .. Len(modules) : j < k => pending'[j] < pending'[k]
    BY <1>2 DEF SortedByName
  <2>2. pending' \in [1 .. Len(modules) -> Name]
    BY <1>5, <2>1
  <2> QED  BY <1>4, <2>1, <2>2, FunctionIsSeq
<1>10. TypeOK'
  <2>1. moduleMap' \in [DOMAIN moduleMap' -> 1 .. Len(modules)]
    BY <1>2, <1>6
  <2> QED  BY <1>1, <1>2, <1>4, <1>5, <1>8, <1>9, <2>1 DEF TypeOK, loadVars, envVars, findVars
<1>11. Loading'
  <2>1. /\ InputNames' = InputNames
        /\ PendingNames' = PendingNames
        /\ \A k : Imports(k)' = Imports(k)
        /\ \A T : Closed(T)' <=> Closed(T)
    BY <1>2, <1>4 DEF InputNames, PendingNames, Imports, Closed, envVars
  <2> QED  BY <1>1, <1>2, <1>4, <1>7, <2>1 DEF Loading
<1>12. Scanning'
  <2>1. Range(pending') \subseteq Names(modules)' /\ scan' = 1 /\ write' = 0
    BY <1>2, <1>3, <1>7, <1>9 DEF Fresh
  <2>2. Emitted' = {} /\ visited' = {}
    BY <1>2, <1>3 DEF Fresh, Emitted
  <2> QED  BY <1>2, <1>4, <1>9, <2>1, <2>2 DEF Scanning, Sorting, Sorted
<1>13. Partitioned'
  <2> PICK n : n = Len(modules)
    OBVIOUS
  <2>1. Todo' = 1 .. n /\ result' = <<>> /\ Emitted' = {}
    BY <1>2, <1>3, <1>4, <1>9 DEF Fresh, Todo, Emitted
  <2>2. \A j, k \in 1 .. n : pending'[j] = pending'[k] => j = k
    <3>1. \A j, k \in 1 .. n : j < k \/ k < j \/ j = k
      BY <1>4
    <3>2. \A j \in 1 .. n : pending'[j] \in Nat
      BY <1>5, <1>9, NameAssumption
    <3> QED  BY <1>9, <3>1, <3>2
  <2>3. \A m \in Names(modules) : \E j \in 1 .. n : pending'[j] = m
    BY <1>9 DEF Range
  <2> QED  BY <1>2, <1>7, <2>1, <2>2, <2>3 DEF Partitioned
<1>14. Ordering'
  <2>1. errors' = 0 /\ visited' = {} /\ Emitted' = {} /\ result' = <<>>
    BY <1>2, <1>3 DEF Fresh, Emitted
  <2>2. ~ CyclicAmong(visited)'
    BY <2>1 DEF CyclicAmong
  <2>3. InOrder'
    BY <2>1 DEF InOrder
  <2> QED  BY <2>1, <2>2, <2>3 DEF Ordering
<1>15. Searching' /\ Compiling' /\ CompiledAfterImports' /\ ReportedOnCycle'
  BY <1>2, <1>3 DEF Fresh, Searching, Compiling, CompiledAfterImports, ReportedOnCycle
<1> QED  BY <1>8, <1>10, <1>11, <1>12, <1>13, <1>14, <1>15 DEF IInv

\* A module whose imports are all among modules without a cycle, it not being
\* one of them, adds no cycle.
LEMMA NoNewCycle ==
    ASSUME NEW S, NEW p, p \notin S,
           Range(importsOf(p)) \subseteq S,
           \A n \in S : Range(importsOf(n)) \subseteq S,
           ~ CyclicAmong(S)
    PROVE  ~ CyclicAmong(S \cup {p})
<1> SUFFICES ASSUME NEW T \in SUBSET (S \cup {p}), T # {},
                    \A n \in T : \E m \in T : m \in Range(importsOf(n))
             PROVE  FALSE
  BY DEF CyclicAmong
<1> DEFINE U == T \ {p}
<1>1. U # {}
  <2>1. PICK n \in T : TRUE
    OBVIOUS
  <2>2. PICK m \in T : m \in Range(importsOf(n))
    BY <2>1
  <2>3. m \in S
    BY <2>1, <2>2
  <2> QED  BY <2>3
<1>2. \A n \in U : \E m \in U : m \in Range(importsOf(n))
  OBVIOUS
<1>3. U \in SUBSET S
  OBVIOUS
<1> QED  BY <1>1, <1>2, <1>3 DEF CyclicAmong

\* Emitting a module that is ready moves it from pending to result.
LEMMA EmitReadyIInv == IInv /\ EmitReady => IInv'
<1> SUFFICES ASSUME IInv, EmitReady PROVE IInv'
  OBVIOUS
<1>1. /\ TypeOK /\ Loading /\ Mapping /\ Scanning /\ Partitioned /\ Ordering
      /\ Compiling /\ CompiledAfterImports /\ ReportedOnCycle
  BY DEF IInv
<1> PICK p : p = pending[scan]
  OBVIOUS
<1> PICK r : r = moduleMap[p]
  OBVIOUS
<1> PICK n : n = Len(result)
  OBVIOUS
<1>2. /\ pc = "sort" /\ pc' = "sort"
      /\ scan \in 1 .. Len(pending)
      /\ moduleIsReady(p)
      /\ result' = Append(result, r)
      /\ visited' = visited \cup {p}
      /\ scan' = scan + 1
      /\ UNCHANGED <<moduleMap, reported, pending, write, loadVars, errors,
                     entries, envVars, findVars>>
  BY DEF EmitReady
<1>3. Sorted /\ Sorting /\ Sorted' /\ Sorting'
  BY <1>2 DEF Sorted, Sorting
<1>4. Loading' /\ Mapping'
  BY <1>1, <1>2, <1>3, LoadingStays
<1>5. /\ modules' = modules
      /\ Names(modules)' = Names(modules)
      /\ \A k : Imports(k)' = Imports(k)
      /\ \A m : importsOf(m)' = importsOf(m)
      /\ \A T : Closed(T)' <=> Closed(T)
      /\ \A T : CyclicAmong(T)' <=> CyclicAmong(T)
  BY <1>2, Unchanged DEF loadVars
<1>6. /\ p \in Names(modules)
      /\ r \in 1 .. Len(modules)
      /\ modules[r].name = p
      /\ Imports(r) = Range(importsOf(p))
  <2>1. p \in Range(pending)
    BY <1>1, <1>2, RangeOfSeq DEF TypeOK
  <2>2. p \in Names(modules)
    BY <1>1, <1>3, <2>1 DEF Scanning
  <2> QED  BY <1>1, <1>3, <2>2, MapFacts
<1>7. /\ n \in Nat
      /\ result \in Seq(1 .. Len(modules))
      /\ result' \in Seq(1 .. Len(modules))
      /\ Len(result') = n + 1
      /\ \A k \in 1 .. n : result'[k] = result[k] /\ result[k] \in 1 .. Len(modules)
      /\ result'[n + 1] = r
  <2>1. result \in Seq(1 .. Len(modules))
    BY <1>1 DEF TypeOK
  <2> QED  BY <1>2, <1>6, <2>1, AppendFacts, SMTT(20)
<1>8. TypeOK'
  <2>1. visited' \subseteq Name /\ scan' \in Nat
    <3>1. p \in Name
      BY <1>1, <1>3, <1>6, MapFacts
    <3> QED  BY <1>1, <1>2, <3>1 DEF TypeOK
  <2> QED  BY <1>1, <1>2, <1>5, <1>7, <2>1 DEF TypeOK, loadVars, envVars, findVars
<1>9. Emitted' = Emitted \cup {p}
  <2>1. Emitted' = {modules[result'[k]].name : k \in 1 .. n + 1}
    BY <1>5, <1>7 DEF Emitted
  <2>2. Emitted = {modules[result'[k]].name : k \in 1 .. n}
    BY <1>7 DEF Emitted
  <2>3. 1 .. n + 1 = (1 .. n) \cup {n + 1}
    BY <1>7
  <2> QED  BY <1>6, <1>7, <2>1, <2>2, <2>3
<1>10. /\ write \in Nat /\ scan \in Nat /\ Len(pending) \in Nat /\ write < scan
       /\ Todo = Todo' \cup {scan}
       /\ scan \notin Todo'
  <2>1. write \in Nat /\ scan \in Nat /\ Len(pending) \in Nat /\ write < scan
    BY <1>1, <1>3 DEF TypeOK, Scanning
  <2>2. Todo' = (1 .. write) \cup (scan + 1 .. Len(pending))
    BY <1>2 DEF Todo
  <2> QED  BY <1>2, <2>1, <2>2 DEF Todo
<1>11. p \notin Emitted
  BY <1>1, <1>3, <1>10 DEF Partitioned
<1>12. Scanning'
  <2>1. Emitted \subseteq visited /\ visited \subseteq Names(modules)
    BY <1>1, <1>3 DEF Scanning
  <2>2. /\ scan' \in 1 .. Len(pending') + 1
        /\ write' < scan'
        /\ write' # scan' - 1
    BY <1>2, <1>10
  <2>3. Range(pending') \subseteq Names(modules)'
    BY <1>1, <1>2, <1>3, <1>5 DEF Scanning
  <2> QED  BY <1>2, <1>5, <1>6, <1>9, <2>1, <2>2, <2>3 DEF Scanning
<1>13. Partitioned'
  <2>1. \A j, k \in 1 .. n + 1 : result'[j] = result'[k] => j = k
    <3>1. \A k \in 1 .. n : result[k] # r
      BY <1>6, <1>11 DEF Emitted
    <3>2. \A k \in 1 .. n + 1 : k \in 1 .. n \/ k = n + 1
      BY <1>7
    <3>3. \A j, k \in 1 .. n : result[j] = result[k] => j = k
      BY <1>1 DEF Partitioned
    <3> SUFFICES ASSUME NEW j \in 1 .. n + 1, NEW k \in 1 .. n + 1, result'[j] = result'[k]
                 PROVE  j = k
      OBVIOUS
    <3>4. CASE j \in 1 .. n /\ k \in 1 .. n
      BY <1>7, <3>3, <3>4
    <3>5. CASE j = n + 1 \/ k = n + 1
      BY <1>7, <3>1, <3>2, <3>5
    <3> QED  BY <3>2, <3>4, <3>5
  <2>2. \A j, k \in Todo' : pending'[j] = pending'[k] => j = k
    BY <1>1, <1>2, <1>3, <1>10 DEF Partitioned
  <2>3. \A j \in Todo' : pending'[j] \notin Emitted'
    <3>1. \A j \in Todo' : pending[j] # p
      BY <1>1, <1>3, <1>10 DEF Partitioned
    <3>2. \A j \in Todo' : pending[j] \notin Emitted
      BY <1>1, <1>3, <1>10 DEF Partitioned
    <3> QED  BY <1>2, <1>9, <3>1, <3>2
  <2>4. \A m \in Names(modules) : m \in Emitted' \/ \E j \in Todo' : pending'[j] = m
    BY <1>1, <1>2, <1>3, <1>9, <1>10 DEF Partitioned
  <2> QED  BY <1>2, <1>5, <1>7, <2>1, <2>2, <2>3, <2>4 DEF Partitioned
<1>14. Ordering'
  <2>1. errors' = errors
    BY <1>2
  <2>2. CASE errors = 0
    <3>1. visited = Emitted /\ InOrder /\ ~ CyclicAmong(visited)
      BY <1>1, <1>3, <2>2 DEF Ordering
    <3>2. Range(importsOf(p)) \subseteq visited
      <4>1. importsOf(p) \in Seq(Name)
        BY <1>1, <1>3, <1>6, MapFacts
      <4>2. Range(importsOf(p)) = {importsOf(p)[k] : k \in 1 .. Len(importsOf(p))}
        BY <4>1, RangeOfSeq
      <4> QED  BY <1>2, <4>2 DEF moduleIsReady
    <3>3. \A m \in visited : Range(importsOf(m)) \subseteq visited
      <4> SUFFICES ASSUME NEW m \in visited PROVE Range(importsOf(m)) \subseteq visited
        OBVIOUS
      <4>1. PICK k \in 1 .. n : m = modules[result[k]].name
        BY <3>1 DEF Emitted
      <4>2. Range(importsOf(m)) = Imports(result[k])
        BY <1>1, <1>3, <1>7, <4>1, MapFacts
      <4>3. 1 .. k - 1 \subseteq 1 .. n
        BY <1>7, <4>1
      <4>4. \A j \in 1 .. k - 1 : modules[result[j]].name \in visited
        BY <3>1, <4>3 DEF Emitted
      <4> QED  BY <3>1, <4>1, <4>2, <4>4 DEF InOrder
    <3>4. ~ CyclicAmong(visited \cup {p})
      BY <1>11, <3>1, <3>2, <3>3, NoNewCycle
    <3>5. ~ CyclicAmong(visited)'
      BY <1>2, <1>5, <3>4 DEF CyclicAmong
    <3>6. ASSUME NEW k \in 1 .. n + 1, NEW m \in Imports(result'[k])
          PROVE  \E j \in 1 .. k - 1 : modules[result'[j]].name = m
      <4>1. \A j \in 1 .. k - 1 : j \in 1 .. n /\ result'[j] = result[j]
        BY <1>7
      <4>2. CASE k \in 1 .. n
        <5>1. m \in Imports(result[k])
          BY <1>7, <3>6, <4>2
        <5>2. PICK j \in 1 .. k - 1 : modules[result[j]].name = m
          BY <3>1, <4>2, <5>1 DEF InOrder
        <5> QED  BY <4>1, <5>2
      <4>3. CASE k = n + 1
        <5>1. m \in visited
          BY <1>6, <1>7, <3>2, <3>6, <4>3
        <5>2. PICK j \in 1 .. n : modules[result[j]].name = m
          BY <3>1, <5>1 DEF Emitted
        <5>3. j \in 1 .. k - 1
          BY <1>7, <4>3, <5>2
        <5> QED  BY <4>1, <5>2, <5>3
      <4> QED  BY <1>7, <4>2, <4>3
    <3>7. InOrder'
      BY <1>5, <1>7, <3>6 DEF InOrder
    <3> QED  BY <1>2, <1>9, <2>1, <2>2, <3>1, <3>5, <3>7 DEF Ordering
  <2>3. CASE errors # 0
    <3>1. CyclicAmong(Names(modules))
      BY <1>1, <1>3, <2>3 DEF Ordering
    <3>2. CyclicAmong(Names(modules))'
      BY <1>5, <3>1 DEF CyclicAmong
    <3> QED  BY <2>1, <2>3, <3>2 DEF Ordering
  <2> QED  BY <2>2, <2>3
<1>15. Searching' /\ Compiling'
  BY <1>1, <1>2, <1>3, <1>7 DEF Searching, Compiling, Sorting, Sorted
<1>16. CompiledAfterImports' /\ ReportedOnCycle'
  BY <1>1, <1>2, HistoryStays
<1> QED  BY <1>4, <1>8, <1>12, <1>13, <1>14, <1>15, <1>16 DEF IInv

\* pending[write++] = m moves a module to a place that is free.
LEMMA KeepPendingIInv == IInv /\ KeepPending => IInv'
<1> SUFFICES ASSUME IInv, KeepPending PROVE IInv'
  OBVIOUS
<1>1. /\ TypeOK /\ Loading /\ Mapping /\ Scanning /\ Partitioned /\ Ordering
      /\ Searching /\ Compiling /\ CompiledAfterImports /\ ReportedOnCycle
  BY DEF IInv
<1> PICK l : l = Len(pending)
  OBVIOUS
<1>2. /\ pc = "sort" /\ pc' = "sort"
      /\ scan \in 1 .. l
      /\ ~ moduleIsReady(pending[scan])
      /\ pending' = [pending EXCEPT ![write + 1] = pending[scan]]
      /\ write' = write + 1
      /\ scan' = scan + 1
      /\ UNCHANGED <<moduleMap, reported, visited, result, loadVars, errors,
                     entries, envVars, findVars>>
  BY DEF KeepPending
<1>3. Sorted /\ Sorting /\ Sorted' /\ Sorting'
  BY <1>2 DEF Sorted, Sorting
<1>4. Loading' /\ Mapping'
  BY <1>1, <1>2, <1>3, LoadingStays
<1>5. Ordering' /\ Emitted' = Emitted
  BY <1>1, <1>2, <1>3, OrderingStays
<1>6. CompiledAfterImports' /\ ReportedOnCycle'
  BY <1>1, <1>2, HistoryStays
<1>7. /\ write \in Nat /\ scan \in Nat /\ l \in Nat
      /\ write < scan
      /\ pending \in Seq(Name)
      /\ \A j \in 1 .. l : pending[j] \in Names(modules)
  <2>1. write \in Nat /\ scan \in Nat /\ l \in Nat /\ pending \in Seq(Name)
    BY <1>1 DEF TypeOK
  <2>2. write < scan /\ Range(pending) \subseteq Names(modules)
    BY <1>1, <1>3 DEF Scanning
  <2> QED  BY <2>1, <2>2, RangeOfSeq
<1>8. /\ pending' \in Seq(Name) /\ Len(pending') = l
      /\ write + 1 \in 1 .. l
      /\ pending'[write + 1] = pending[scan]
      /\ \A j \in 1 .. l : j # write + 1 => pending'[j] = pending[j]
  <2>1. write + 1 \in 1 .. l
    BY <1>2, <1>7
  <2>2. pending' \in [1 .. l -> Name]
    BY <1>2, <1>7
  <2>3. pending' \in Seq(Name) /\ Len(pending') = l
    BY <1>7, <2>2, FunctionIsSeq
  <2>4. /\ pending'[write + 1] = pending[scan]
        /\ \A j \in 1 .. l : j # write + 1 => pending'[j] = pending[j]
    BY <1>2, <1>7, <2>1
  <2> QED  BY <2>1, <2>3, <2>4
<1>9. TypeOK'
  BY <1>1, <1>2, <1>7, <1>8 DEF TypeOK, loadVars, envVars, findVars
<1>10. modules' = modules /\ Names(modules)' = Names(modules)
  BY <1>2, Unchanged DEF loadVars
<1>11. Scanning'
  <2>1. Range(pending') \subseteq Names(modules)'
    <3>1. \A j \in 1 .. l : pending'[j] \in Names(modules)
      BY <1>2, <1>7, <1>8
    <3> QED  BY <1>8, <1>10, <3>1, RangeOfSeq
  <2>2. scan' \in 1 .. Len(pending') + 1 /\ write' < scan'
    BY <1>2, <1>7, <1>8
  <2>3. \A m : moduleIsReady(m)' <=> moduleIsReady(m)
    BY <1>2, Unchanged DEF moduleIsReady
  <2>4. ASSUME write' = scan' - 1, NEW j \in 1 .. write'
        PROVE  ~ moduleIsReady(pending[j])'
    <3>1. write = scan - 1 /\ j \in 1 .. l
      BY <1>2, <1>7, <2>4
    <3>2. CASE j = write + 1
      <4>1. pending'[j] = pending[scan]
        BY <1>8, <3>2
      <4> QED  BY <1>2, <2>3, <4>1
    <3>3. CASE j # write + 1
      <4>1. j \in 1 .. write /\ pending'[j] = pending[j]
        BY <1>2, <1>7, <1>8, <3>1, <3>3
      <4>2. ~ moduleIsReady(pending[j])
        BY <1>1, <1>3, <3>1, <4>1 DEF Scanning
      <4> QED  BY <2>3, <4>1, <4>2
    <3> QED  BY <3>2, <3>3
  <2>5. Emitted' \subseteq visited' /\ visited' \subseteq Names(modules)'
    BY <1>1, <1>2, <1>3, <1>5, <1>10 DEF Scanning
  <2> QED  BY <1>2, <2>1, <2>2, <2>4, <2>5 DEF Scanning
<1>12. Partitioned'
  <2> DEFINE g(j) == IF j = write + 1 THEN scan ELSE j
  <2>1. Todo = (1 .. write) \cup (scan .. l) /\ Todo' = (1 .. write + 1) \cup (scan + 1 .. l)
    BY <1>2, <1>8 DEF Todo
  <2>2. \A j \in Todo' : g(j) \in Todo /\ pending'[j] = pending[g(j)]
    BY <1>2, <1>7, <1>8, <2>1
  <2>3. \A j, k \in Todo' : g(j) = g(k) => j = k
    BY <1>2, <1>7, <2>1
  <2>4. \A k \in Todo : \E j \in Todo' : g(j) = k
    <3> SUFFICES ASSUME NEW k \in Todo PROVE \E j \in Todo' : g(j) = k
      OBVIOUS
    <3>1. CASE k = scan
      <4>1. write + 1 \in Todo' /\ g(write + 1) = k
        BY <1>7, <2>1, <3>1
      <4> QED  BY <4>1
    <3>2. CASE k # scan
      <4>1. k \in Todo' /\ g(k) = k
        BY <1>2, <1>7, <2>1, <3>2
      <4> QED  BY <4>1
    <3> QED  BY <3>1, <3>2
  <2> HIDE DEF g
  <2>5. /\ \A j, k \in Todo : pending[j] = pending[k] => j = k
        /\ \A j \in Todo : pending[j] \notin Emitted
        /\ \A n \in Names(modules) : n \in Emitted \/ \E j \in Todo : pending[j] = n
    BY <1>1, <1>3 DEF Partitioned
  <2>6. \A j, k \in Todo' : pending'[j] = pending'[k] => j = k
    BY <2>2, <2>3, <2>5
  <2>7. \A j \in Todo' : pending'[j] \notin Emitted'
    BY <1>5, <2>2, <2>5
  <2>8. \A n \in Names(modules)' : n \in Emitted' \/ \E j \in Todo' : pending'[j] = n
    BY <1>5, <1>10, <2>2, <2>4, <2>5
  <2> QED  BY <1>1, <1>2, <2>6, <2>7, <2>8 DEF Partitioned
<1>13. Searching' /\ Compiling'
  BY <1>1, <1>2, <1>3 DEF Searching, Compiling, Sorting, Sorted
<1> QED  BY <1>4, <1>5, <1>6, <1>9, <1>11, <1>12, <1>13 DEF IInv

\* pending.resize(write) drops only what was emitted.
LEMMA NextRoundIInv == IInv /\ NextRound => IInv'
<1> SUFFICES ASSUME IInv, NextRound PROVE IInv'
  OBVIOUS
<1>1. /\ TypeOK /\ Loading /\ Mapping /\ Scanning /\ Partitioned /\ Ordering
      /\ Searching /\ Compiling /\ CompiledAfterImports /\ ReportedOnCycle
  BY DEF IInv
<1>2. /\ pc = "sort" /\ pc' = "sort"
      /\ scan = Len(pending) + 1
      /\ pending' = SubSeq(pending, 1, write)
      /\ scan' = 1
      /\ write' = 0
      /\ UNCHANGED <<moduleMap, reported, visited, result, loadVars, errors,
                     entries, envVars, findVars>>
  BY DEF NextRound
<1>3. Sorted /\ Sorting /\ Sorted' /\ Sorting'
  BY <1>2 DEF Sorted, Sorting
<1>4. Loading' /\ Mapping'
  BY <1>1, <1>2, <1>3, LoadingStays
<1>5. Ordering' /\ Emitted' = Emitted
  BY <1>1, <1>2, <1>3, OrderingStays
<1>6. CompiledAfterImports' /\ ReportedOnCycle'
  BY <1>1, <1>2, HistoryStays
<1>7. /\ write \in Nat /\ Len(pending) \in Nat
      /\ write <= Len(pending)
      /\ pending \in Seq(Name)
      /\ \A j \in 1 .. Len(pending) : pending[j] \in Names(modules)
  <2>1. write \in Nat /\ Len(pending) \in Nat /\ pending \in Seq(Name)
    BY <1>1 DEF TypeOK
  <2>2. write < scan /\ Range(pending) \subseteq Names(modules)
    BY <1>1, <1>3 DEF Scanning
  <2> QED  BY <1>2, <2>1, <2>2, RangeOfSeq
<1>8. /\ pending' \in Seq(Name) /\ Len(pending') = write
      /\ \A j \in 1 .. write : pending'[j] = pending[j]
  BY <1>2, <1>7
<1>9. TypeOK'
  BY <1>1, <1>2, <1>7, <1>8 DEF TypeOK, loadVars, envVars, findVars
<1>10. modules' = modules /\ Names(modules)' = Names(modules)
  BY <1>2, Unchanged DEF loadVars
<1>11. Scanning'
  <2>1. Range(pending') \subseteq Names(modules)'
    <3>1. \A j \in 1 .. write : pending'[j] \in Names(modules)
      BY <1>7, <1>8
    <3> QED  BY <1>8, <1>10, <3>1, RangeOfSeq
  <2>2. Emitted' \subseteq visited' /\ visited' \subseteq Names(modules)'
    BY <1>1, <1>2, <1>3, <1>5, <1>10 DEF Scanning
  <2> QED  BY <1>2, <1>7, <1>8, <2>1, <2>2 DEF Scanning
<1>12. Partitioned'
  <2>1. Todo = 1 .. write /\ Todo' = 1 .. write
    BY <1>2, <1>7, <1>8 DEF Todo
  <2> QED  BY <1>1, <1>2, <1>3, <1>5, <1>8, <1>10, <2>1 DEF Partitioned
<1>13. Searching' /\ Compiling'
  BY <1>1, <1>2, <1>3 DEF Searching, Compiling, Sorting, Sorted
<1> QED  BY <1>4, <1>5, <1>6, <1>9, <1>11, <1>12, <1>13 DEF IInv

\* A scan that kept everything starts the search: nothing was ready.
LEMMA FindBeginIInv == IInv /\ FindBegin => IInv'
<1> SUFFICES ASSUME IInv, FindBegin PROVE IInv'
  OBVIOUS
<1>1. /\ TypeOK /\ Loading /\ Mapping /\ Scanning /\ Partitioned /\ Ordering
      /\ Searching /\ Compiling /\ CompiledAfterImports /\ ReportedOnCycle
  BY DEF IInv
<1>2. /\ pc = "sort" /\ pc' = "find"
      /\ pending # <<>>
      /\ scan = Len(pending) + 1
      /\ write = Len(pending)
      /\ path' = <<[name |-> pending[1], pos |-> 1]>>
      /\ seen' = {pending[1]}
      /\ UNCHANGED <<moduleMap, reported, pending, scan, write, visited, result,
                     loadVars, errors, entries, envVars>>
  BY DEF FindBegin, sortVars
<1>3. Sorted /\ Sorting /\ Sorted' /\ Sorting'
  BY <1>2 DEF Sorted, Sorting
<1>4. Loading' /\ Mapping'
  BY <1>1, <1>2, <1>3, LoadingStays
<1>5. Ordering' /\ Emitted' = Emitted
  BY <1>1, <1>2, <1>3, OrderingStays
<1>6. CompiledAfterImports' /\ ReportedOnCycle'
  BY <1>1, <1>2, HistoryStays
<1>7. /\ modules' = modules /\ Names(modules)' = Names(modules)
      /\ \A n : importsOf(n)' = importsOf(n)
  BY <1>2, Unchanged DEF loadVars
<1>8. /\ pending[1] \in Names(modules)
      /\ pending[1] \in Name
      /\ importsOf(pending[1]) \in Seq(Name)
  <2>1. pending[1] \in Range(pending)
    <3>1. pending \in Seq(Name)
      BY <1>1 DEF TypeOK
    <3>2. 1 \in 1 .. Len(pending)
      BY <1>2, <3>1, HeadTail
    <3> QED  BY <3>1, <3>2, RangeOfSeq
  <2> QED  BY <1>1, <1>3, <2>1, MapFacts DEF Scanning
<1>9. /\ path' \in Seq(Frame) /\ Len(path') = 1
      /\ path'[1].name = pending[1] /\ path'[1].pos = 1
  <2>1. [name |-> pending[1], pos |-> 1] \in Frame
    BY <1>8 DEF Frame
  <2> QED  BY <1>2, <2>1
<1>10. TypeOK'
  BY <1>1, <1>2, <1>8, <1>9 DEF TypeOK, loadVars, envVars
<1>11. Scanning'
  <2>1. \A m : moduleIsReady(m)' <=> moduleIsReady(m)
    BY <1>2, Unchanged DEF moduleIsReady
  <2> QED  BY <1>1, <1>2, <1>3, <1>5, <1>7, <2>1 DEF Scanning
<1>12. Partitioned'
  <2>1. Todo' = Todo
    BY <1>2 DEF Todo
  <2> QED  BY <1>1, <1>2, <1>3, <1>5, <1>7, <2>1 DEF Partitioned
<1>13. Searching'
  <2>1. Len(importsOf(pending[1])) \in Nat
    BY <1>8
  <2> QED  BY <1>2, <1>7, <1>8, <1>9, <2>1 DEF Searching
<1>14. Compiling'
  BY <1>1, <1>2, <1>3 DEF Compiling, Sorting, Sorted
<1> QED  BY <1>4, <1>5, <1>6, <1>10, <1>11, <1>12, <1>13, <1>14 DEF IInv

\* With nothing pending everything is emitted.
LEMMA SortEndIInv == IInv /\ SortEnd => IInv'
<1> SUFFICES ASSUME IInv, SortEnd PROVE IInv'
  OBVIOUS
<1>1. /\ TypeOK /\ Loading /\ Mapping /\ Scanning /\ Partitioned /\ Ordering
      /\ Searching /\ Compiling /\ CompiledAfterImports /\ ReportedOnCycle
  BY DEF IInv
<1>2. /\ pc = "sort" /\ pc' = "compile"
      /\ pending = <<>>
      /\ UNCHANGED <<moduleMap, reported, pending, scan, write, visited, result,
                     path, seen, loadVars, errors, entries, envVars>>
  BY DEF SortEnd, sortVars, findVars
<1>3. Sorted /\ Sorting /\ Sorted' /\ ~ Sorting'
  BY <1>2 DEF Sorted, Sorting
<1>4. Loading' /\ Mapping'
  BY <1>1, <1>2, <1>3, LoadingStays
<1>5. Ordering' /\ Emitted' = Emitted
  BY <1>1, <1>2, <1>3, OrderingStays
<1>6. CompiledAfterImports' /\ ReportedOnCycle'
  BY <1>1, <1>2, HistoryStays
<1>7. modules' = modules /\ Names(modules)' = Names(modules)
  BY <1>2, Unchanged DEF loadVars
<1>8. TypeOK'
  BY <1>1, <1>2 DEF TypeOK, loadVars, envVars
<1>9. Scanning'
  BY <1>1, <1>2, <1>3, <1>5, <1>7 DEF Scanning
<1>10. Partitioned'
  <2>1. Todo = {}
    <3>1. scan \in 1 .. 1 /\ write \in Nat /\ write < scan /\ Len(pending) = 0
      BY <1>1, <1>2, <1>3 DEF Scanning, TypeOK
    <3> QED  BY <3>1 DEF Todo
  <2> QED  BY <1>1, <1>2, <1>3, <1>5, <1>7, <2>1 DEF Partitioned
<1>11. Searching' /\ Compiling'
  BY <1>1, <1>2, <1>3 DEF Searching, Compiling
<1> QED  BY <1>4, <1>5, <1>6, <1>8, <1>9, <1>10, <1>11 DEF IInv
-----------------------------------------------------------------------------
(* The search for a cycle.                                                 *)

\* When nothing is ready every pending module imports a pending module.
LEMMA StuckImports ==
    ASSUME IInv, pc = "find", NEW n \in Range(pending)
    PROVE  \E k \in 1 .. Len(importsOf(n)) : importsOf(n)[k] \in Range(pending)
<1>1. /\ TypeOK /\ Loading /\ Mapping /\ Scanning /\ Partitioned /\ Sorted /\ Sorting
  BY DEF IInv, Sorted, Sorting
<1>2. /\ pending \in Seq(Name) /\ Len(pending) \in Nat
      /\ Range(pending) = {pending[j] : j \in 1 .. Len(pending)}
  BY <1>1, RangeOfSeq DEF TypeOK
<1>3. PICK j \in 1 .. Len(pending) : n = pending[j]
  BY <1>2
<1>4. scan = Len(pending) + 1 /\ write = Len(pending) /\ write = scan - 1
  BY <1>1, <1>2 DEF Scanning
<1>5. ~ moduleIsReady(n)
  BY <1>1, <1>3, <1>4 DEF Scanning
<1>6. PICK k \in 1 .. Len(importsOf(n)) : importsOf(n)[k] \notin visited
  BY <1>5 DEF moduleIsReady
<1>7. n \in Names(modules)
  BY <1>1 DEF Scanning
<1>8. importsOf(n)[k] \in Names(modules)
  BY <1>1, <1>7, MapFacts
<1>9. importsOf(n)[k] \notin Emitted
  BY <1>1, <1>6 DEF Scanning
<1>10. PICK i \in Todo : pending[i] = importsOf(n)[k]
  BY <1>1, <1>8, <1>9 DEF Partitioned
<1>11. i \in 1 .. Len(pending)
  BY <1>2, <1>4 DEF Todo
<1> QED  BY <1>2, <1>10, <1>11

\* What the search is at: its innermost call, and the import that it follows.
LEMMA SearchFacts ==
    ASSUME IInv, pc = "find"
    PROVE  /\ path \in Seq(Frame)
           /\ Len(path) \in Nat \ {0}
           /\ \A i \in 1 .. Len(path) : path[i].pos \in Nat \ {0}
           /\ Top = path[Len(path)]
           /\ Top.name \in Names(modules)
           /\ importsOf(Top.name) \in Seq(Name)
           /\ Len(importsOf(Top.name)) \in Nat
           /\ ~ Exhausted => /\ Followed \in Names(modules)
                             /\ Followed \in Range(importsOf(Top.name))
                             /\ Followed \in Name
<1>1. TypeOK /\ Loading /\ Mapping /\ Searching /\ Sorted
  BY DEF IInv, Sorted
<1>2. path \in Seq(Frame) /\ Len(path) \in Nat \ {0}
  <2>1. path \in Seq(Frame) /\ path # <<>>
    BY <1>1 DEF TypeOK, Searching
  <2> QED  BY <2>1, HeadTail
<1>3. \A i \in 1 .. Len(path) : path[i].pos \in Nat \ {0}
  <2>1. \A i \in 1 .. Len(path) : path[i] \in Frame
    BY <1>2
  <2> QED  BY <2>1 DEF Frame
<1>4. Top = path[Len(path)]
  BY DEF Top
<1>5. Top.name \in Names(modules)
  BY <1>1, <1>2, <1>4 DEF Searching
<1>6. importsOf(Top.name) \in Seq(Name) /\ Len(importsOf(Top.name)) \in Nat
  BY <1>1, <1>5, MapFacts
<1>7. ASSUME ~ Exhausted
      PROVE  /\ Followed \in Names(modules)
             /\ Followed \in Range(importsOf(Top.name))
             /\ Followed \in Name
  <2>1. Top.pos \in 1 .. Len(importsOf(Top.name))
    BY <1>2, <1>3, <1>4, <1>6, <1>7 DEF Exhausted
  <2>2. Followed \in Range(importsOf(Top.name))
    BY <1>6, <2>1, RangeOfSeq DEF Followed
  <2> QED  BY <1>1, <1>5, <2>2, MapFacts
<1> QED  BY <1>2, <1>3, <1>4, <1>5, <1>6, <1>7

\* The search changes nothing but its own variables.
LEMMA SearchStep ==
    ASSUME IInv, pc = "find", pc' = "find", path' \in Seq(Frame), seen' \subseteq Name,
           UNCHANGED <<sortVars, loadVars, errors, entries, envVars>>, Searching'
    PROVE  IInv'
<1>1. /\ TypeOK /\ Loading /\ Mapping /\ Scanning /\ Partitioned /\ Ordering
      /\ Searching /\ Compiling /\ CompiledAfterImports /\ ReportedOnCycle
  BY DEF IInv
<1>2. UNCHANGED <<moduleMap, reported, pending, scan, write, visited, result,
                  loadVars, errors, entries, envVars>>
  BY DEF sortVars
<1>3. Sorted /\ Sorting /\ Sorted' /\ Sorting'
  BY DEF Sorted, Sorting
<1>4. Loading' /\ Mapping'
  BY <1>1, <1>2, <1>3, LoadingStays
<1>5. Ordering' /\ Emitted' = Emitted
  BY <1>1, <1>2, <1>3, OrderingStays
<1>6. CompiledAfterImports' /\ ReportedOnCycle'
  BY <1>1, <1>2, HistoryStays
<1>7. modules' = modules /\ Names(modules)' = Names(modules)
  BY <1>2, Unchanged DEF loadVars
<1>8. TypeOK'
  BY <1>1, <1>2 DEF TypeOK, loadVars, envVars
<1>9. Scanning'
  <2>1. \A m : moduleIsReady(m)' <=> moduleIsReady(m)
    BY <1>2, Unchanged DEF moduleIsReady
  <2> QED  BY <1>1, <1>2, <1>3, <1>5, <1>7, <2>1 DEF Scanning
<1>10. Partitioned'
  <2>1. Todo' = Todo
    BY <1>2 DEF Todo
  <2> QED  BY <1>1, <1>2, <1>3, <1>5, <1>7, <2>1 DEF Partitioned
<1>11. Compiling'
  BY <1>1, <1>2, <1>3 DEF Compiling
<1> QED  BY <1>4, <1>5, <1>6, <1>8, <1>9, <1>10, <1>11 DEF IInv

\* The recursive call extends the path by an import of its last module.
LEMMA FindDescendIInv == IInv /\ FindDescend => IInv'
<1> SUFFICES ASSUME IInv, FindDescend PROVE IInv'
  OBVIOUS
<1> PICK l : l = Len(path)
  OBVIOUS
<1> PICK f : f = Followed
  OBVIOUS
<1> PICK t : t = Top.name
  OBVIOUS
<1> PICK p : p = Top.pos
  OBVIOUS
<1>1. /\ pc = "find" /\ pc' = "find"
      /\ ~ Exhausted
      /\ seen' = seen \cup {f}
      /\ path' = Append([path EXCEPT ![l].pos = @ + 1], [name |-> f, pos |-> 1])
      /\ UNCHANGED <<sortVars, loadVars, errors, entries, envVars>>
  BY DEF FindDescend
<1>2. /\ path \in Seq(Frame) /\ l \in Nat \ {0}
      /\ \A i \in 1 .. l : path[i].pos \in Nat \ {0}
      /\ path[l].name = t /\ path[l].pos = p
      /\ t \in Names(modules)
      /\ importsOf(t) \in Seq(Name) /\ Len(importsOf(t)) \in Nat
      /\ f \in Names(modules) /\ f \in Range(importsOf(t)) /\ f \in Name
  BY <1>1, SearchFacts
<1>3. p \in 1 .. Len(importsOf(t)) /\ f = importsOf(t)[p]
  BY <1>1, <1>2 DEF Exhausted, Followed
<1>4. /\ path' \in Seq(Frame) /\ Len(path') = l + 1
      /\ \A i \in 1 .. l - 1 : path'[i] = path[i]
      /\ \A i \in 1 .. l : path'[i].name = path[i].name
      /\ path'[l].pos = p + 1
      /\ path'[l + 1].name = f /\ path'[l + 1].pos = 1
  <2> DEFINE up == [path EXCEPT ![l].pos = @ + 1]
             nf == [name |-> f, pos |-> 1]
  <2>1. nf \in Frame
    BY <1>2 DEF Frame
  <2>2. \A i \in 1 .. l : path[i] \in [name : Name, pos : Nat \ {0}]
    <3>1. \A i \in 1 .. l : path[i] \in Frame
      BY <1>2
    <3> QED  BY <3>1 DEF Frame
  <2>3. up \in [1 .. l -> Frame]
    <3>1. \A i \in 1 .. l : up[i] \in [name : Name, pos : Nat \ {0}]
      BY <1>2, <2>2
    <3>2. \A i \in 1 .. l : up[i] \in Frame
      BY <3>1 DEF Frame
    <3>3. path \in [1 .. l -> Frame]
      BY <1>2
    <3> QED  BY <3>2, <3>3
  <2>4. /\ \A i \in 1 .. l - 1 : up[i] = path[i]
        /\ \A i \in 1 .. l : up[i].name = path[i].name
        /\ up[l].pos = p + 1
    BY <1>2, <2>2
  <2>5. up \in Seq(Frame) /\ Len(up) = l
    BY <1>2, <2>3, FunctionIsSeq
  <2> HIDE DEF up, nf
  <2>6. /\ Append(up, nf) \in Seq(Frame)
        /\ Len(Append(up, nf)) = l + 1
        /\ \A i \in 1 .. l : Append(up, nf)[i] = up[i]
        /\ Append(up, nf)[l + 1] = nf
    BY <2>1, <2>5, AppendFacts
  <2>7. path' = Append(up, nf)
    BY <1>1 DEF up, nf
  <2>8. nf.name = f /\ nf.pos = 1
    BY DEF nf
  <2> QED  BY <1>2, <2>4, <2>6, <2>7, <2>8
<1>5. /\ TypeOK /\ Loading /\ Mapping /\ Searching /\ Sorted
      /\ \A i \in 1 .. l : path[i].name \in Names(modules)
  BY <1>1 DEF IInv, Sorted, Searching
<1>6. /\ Names(modules)' = Names(modules) /\ pending' = pending
      /\ \A n : importsOf(n)' = importsOf(n)
      /\ \A T : Closed(T)' <=> Closed(T)
  BY <1>1, Unchanged DEF sortVars
<1>7. Searching'
  <2>1. path' # <<>> /\ pending' # <<>> /\ path'[1].name = pending'[1]
    BY <1>1, <1>2, <1>4, <1>5, <1>6 DEF Searching
  <2>2. \A i \in 1 .. l + 1 : i \in 1 .. l - 1 \/ i = l \/ i = l + 1
    BY <1>2
  <2>3. \A i \in 1 .. l + 1 : path'[i].name \in Names(modules)
    BY <1>2, <1>4, <1>5, <2>2
  <2>4. \A i \in 1 .. l + 1 : path'[i].pos <= Len(importsOf(path'[i].name)) + 1
    <3>1. \A i \in 1 .. l - 1 : path'[i].pos <= Len(importsOf(path'[i].name)) + 1
      BY <1>1, <1>2, <1>4, <1>5, SMTT(20) DEF Searching
    <3>2. path'[l].pos <= Len(importsOf(path'[l].name)) + 1
      BY <1>2, <1>3, <1>4
    <3>3. Len(importsOf(f)) \in Nat
      BY <1>2, <1>5, MapFacts
    <3>4. path'[l + 1].pos <= Len(importsOf(path'[l + 1].name)) + 1
      BY <1>4, <3>3
    <3> QED  BY <2>2, <3>1, <3>2, <3>4
  <2>5. seen' \subseteq {path'[i].name : i \in 1 .. l + 1}
    <3>1. seen \subseteq {path[i].name : i \in 1 .. l}
      BY <1>1, <1>5 DEF Searching
    <3>2. 1 .. l \subseteq 1 .. l + 1 /\ l + 1 \in 1 .. l + 1
      BY <1>2
    <3> QED  BY <1>1, <1>4, <3>1, <3>2
  <2>6. \A i \in 1 .. l : /\ path'[i].pos > 1
                          /\ importsOf(path'[i].name)[path'[i].pos - 1] = path'[i + 1].name
    <3> SUFFICES ASSUME NEW i \in 1 .. l
                 PROVE  /\ path'[i].pos > 1
                        /\ importsOf(path'[i].name)[path'[i].pos - 1] = path'[i + 1].name
      OBVIOUS
    <3>1. CASE i = l
      BY <1>2, <1>3, <1>4, <3>1
    <3>2. CASE i \in 1 .. l - 1
      <4>1. /\ path[i].pos > 1
            /\ importsOf(path[i].name)[path[i].pos - 1] = path[i + 1].name
        BY <1>1, <1>5, <3>2 DEF Searching
      <4>2. path'[i] = path[i] /\ path'[i + 1].name = path[i + 1].name
        BY <1>2, <1>4, <3>2
      <4> QED  BY <4>1, <4>2
    <3> QED  BY <1>2, <3>1, <3>2
  <2>7. ASSUME NEW i \in 1 .. l + 1, NEW j \in 1 .. l + 1, i < j,
               NEW T \in SUBSET Names(modules),
               Range(importsOf(path'[i].name)) \subseteq T, Closed(T)
        PROVE  path'[j].name \in T
    <3>1. i \in 1 .. l /\ path'[i].name = path[i].name
      BY <1>2, <1>4, <2>7
    <3>2. \A k \in 1 .. l : i < k => path[k].name \in T
      BY <1>1, <1>5, <2>7, <3>1 DEF Searching
    <3>3. CASE j \in 1 .. l
      BY <1>4, <2>7, <3>2, <3>3
    <3>4. CASE j = l + 1
      <4>1. Range(importsOf(t)) \subseteq T
        <5>1. CASE i = l
          BY <1>2, <2>7, <3>1, <5>1
        <5>2. CASE i < l
          <6>1. t \in T
            BY <1>2, <3>2, <5>2
          <6>2. /\ moduleMap[t] \in 1 .. Len(modules) /\ modules[moduleMap[t]].name = t
                /\ Imports(moduleMap[t]) = Range(importsOf(t))
            BY <1>2, <1>5, MapFacts
          <6> QED  BY <2>7, <6>1, <6>2 DEF Closed
        <5> QED  BY <1>2, <3>1, <5>1, <5>2
      <4> QED  BY <1>2, <1>4, <3>4, <4>1
    <3> QED  BY <1>2, <3>3, <3>4
  <2>8. ASSUME NEW i \in 1 .. l + 1, NEW k \in 1 .. path'[i].pos - 1
        PROVE  \/ i < l + 1 /\ k = path'[i].pos - 1
               \/ importsOf(path'[i].name)[k] \notin Range(pending)
    <3>1. CASE i \in 1 .. l - 1
      <4>1. k \in 1 .. path[i].pos - 1 /\ path'[i] = path[i] /\ i \in 1 .. l
        BY <1>2, <1>4, <2>8, <3>1
      <4>2. \/ i < l /\ k = path[i].pos - 1
            \/ importsOf(path[i].name)[k] \notin Range(pending)
        BY <1>1, <1>5, <4>1 DEF Searching
      <4> QED  BY <1>2, <4>1, <4>2
    <3>2. CASE i = l
      <4>1. CASE k = p
        BY <1>2, <1>3, <1>4, <3>2, <4>1
      <4>2. CASE k # p
        <5>1. k \in 1 .. path[l].pos - 1 /\ l \in 1 .. l
          BY <1>2, <1>3, <1>4, <2>8, <3>2, <4>2
        <5>2. importsOf(path[l].name)[k] \notin Range(pending)
          BY <1>1, <1>2, <1>5, <5>1, SMTT(20) DEF Searching
        <5> QED  BY <1>2, <1>4, <3>2, <5>2
      <4> QED  BY <4>1, <4>2
    <3>3. CASE i = l + 1
      BY <1>4, <2>8, <3>3
    <3> QED  BY <2>2, <3>1, <3>2, <3>3
  <2>9. Len(path') - 1 = l /\ Len(path') = l + 1
    BY <1>2, <1>4
  <2> QED  BY <1>6, <2>1, <2>3, <2>4, <2>5, <2>6, <2>7, <2>8, <2>9 DEF Searching
<1>8. seen' \subseteq Name
  BY <1>1, <1>2, <1>5 DEF TypeOK
<1> QED  BY <1>1, <1>4, <1>7, <1>8, SearchStep

\* A call that returns without a cycle was made for no pending module.
LEMMA FindBacktrackIInv == IInv /\ FindBacktrack => IInv'
<1> SUFFICES ASSUME IInv, FindBacktrack PROVE IInv'
  OBVIOUS
<1> PICK l : l = Len(path)
  OBVIOUS
<1> PICK t : t = Top.name
  OBVIOUS
<1>1. /\ pc = "find" /\ pc' = "find"
      /\ Exhausted
      /\ l > 1
      /\ seen' = seen \ {t}
      /\ path' = SubSeq(path, 1, l - 1)
      /\ UNCHANGED <<sortVars, loadVars, errors, entries, envVars>>
  BY DEF FindBacktrack
<1>2. /\ path \in Seq(Frame) /\ l \in Nat \ {0}
      /\ \A i \in 1 .. l : path[i].pos \in Nat \ {0}
      /\ path[l].name = t /\ path[l] = Top
      /\ t \in Names(modules)
      /\ importsOf(t) \in Seq(Name) /\ Len(importsOf(t)) \in Nat
  BY <1>1, SearchFacts
<1>3. path' \in Seq(Frame) /\ Len(path') = l - 1 /\ \A i \in 1 .. l - 1 : path'[i] = path[i]
  BY <1>1, <1>2
<1>4. TypeOK /\ Searching
  BY <1>1 DEF IInv
<1>5. /\ Names(modules)' = Names(modules) /\ pending' = pending
      /\ \A n : importsOf(n)' = importsOf(n)
      /\ \A T : Closed(T)' <=> Closed(T)
  BY <1>1, Unchanged DEF sortVars
<1>6. t \notin Range(pending)
  <2>1. \A k \in 1 .. Len(importsOf(t)) : k \in 1 .. path[l].pos - 1
    BY <1>1, <1>2 DEF Exhausted
  <2>2. \A k \in 1 .. Len(importsOf(t)) : importsOf(t)[k] \notin Range(pending)
    <3>1. \A i \in 1 .. l : \A k \in 1 .. path[i].pos - 1 :
              \/ i < l /\ k = path[i].pos - 1
              \/ importsOf(path[i].name)[k] \notin Range(pending)
      BY <1>1, <1>4 DEF Searching
    <3>2. l \in 1 .. l /\ ~ (l < l)
      BY <1>2
    <3>3. \A k \in 1 .. path[l].pos - 1 : importsOf(t)[k] \notin Range(pending)
      BY <1>2, <3>1, <3>2
    <3> QED  BY <2>1, <3>3
  <2> QED  BY <1>1, <2>2, StuckImports
<1>7. Searching'
  <2>1. 1 .. l - 1 \subseteq 1 .. l /\ 1 \in 1 .. l - 1 /\ path' # <<>>
    <3>1. 1 .. l - 1 \subseteq 1 .. l /\ 1 \in 1 .. l - 1 /\ l - 1 # 0
      BY <1>1, <1>2
    <3>2. path' # <<>>
      BY <1>3, <3>1
    <3> QED  BY <3>1, <3>2
  <2>2. /\ pending' # <<>> /\ path'[1].name = pending'[1]
        /\ \A i \in 1 .. l - 1 : path'[i].name \in Names(modules)
        /\ \A i \in 1 .. l - 1 : path'[i].pos <= Len(importsOf(path'[i].name)) + 1
    BY <1>1, <1>3, <1>4, <1>5, <2>1 DEF Searching
  <2>3. seen' \subseteq {path'[i].name : i \in 1 .. l - 1}
    <3> SUFFICES ASSUME NEW m \in seen, m # t
                 PROVE  \E i \in 1 .. l - 1 : path'[i].name = m
      BY <1>1
    <3>1. PICK i \in 1 .. l : path[i].name = m
      BY <1>1, <1>4 DEF Searching
    <3>2. i \in 1 .. l - 1
      BY <1>2, <3>1
    <3> QED  BY <1>3, <3>1, <3>2
  <2>4. \A i \in 1 .. l - 1 - 1 :
            /\ path'[i].pos > 1
            /\ importsOf(path'[i].name)[path'[i].pos - 1] = path'[i + 1].name
    <3> SUFFICES ASSUME NEW i \in 1 .. l - 1 - 1
                 PROVE  /\ path'[i].pos > 1
                        /\ importsOf(path'[i].name)[path'[i].pos - 1] = path'[i + 1].name
      OBVIOUS
    <3>1. i \in 1 .. l - 1 /\ i + 1 \in 1 .. l - 1
      BY <1>2
    <3> QED  BY <1>1, <1>3, <1>4, <3>1 DEF Searching
  <2>5. \A i, j \in 1 .. l - 1 : i < j =>
            \A T \in SUBSET Names(modules) :
                Range(importsOf(path'[i].name)) \subseteq T /\ Closed(T) => path'[j].name \in T
    BY <1>1, <1>3, <1>4, <2>1 DEF Searching
  <2>6. ASSUME NEW i \in 1 .. l - 1, NEW k \in 1 .. path'[i].pos - 1
        PROVE  \/ i < l - 1 /\ k = path'[i].pos - 1
               \/ importsOf(path'[i].name)[k] \notin Range(pending)
    <3>1. i \in 1 .. l /\ path'[i] = path[i] /\ k \in 1 .. path[i].pos - 1
      BY <1>3, <2>1, <2>6
    <3>2. \/ i < l /\ k = path[i].pos - 1
          \/ importsOf(path[i].name)[k] \notin Range(pending)
      BY <1>1, <1>4, <3>1 DEF Searching
    <3>3. CASE i = l - 1 /\ k = path[i].pos - 1
      <4>1. importsOf(path[i].name)[path[i].pos - 1] = path[i + 1].name /\ i + 1 = l
        BY <1>1, <1>2, <1>4, <3>3 DEF Searching
      <4>2. importsOf(path[i].name)[k] = t
        BY <1>2, <3>3, <4>1
      <4> QED  BY <1>6, <3>1, <4>2
    <3>4. CASE i # l - 1 \/ k # path[i].pos - 1
      <4>1. i \in Nat /\ l \in Nat /\ i <= l - 1
        BY <1>2, <2>6
      <4>2. i # l - 1 => i < l - 1
        BY <4>1
      <4> QED  BY <3>1, <3>2, <3>4, <4>2
    <3> QED  BY <3>3, <3>4
  <2> QED  BY <1>3, <1>5, <2>1, <2>2, <2>3, <2>4, <2>5, <2>6 DEF Searching
<1>8. seen' \subseteq Name
  BY <1>1, <1>4 DEF TypeOK
<1> QED  BY <1>1, <1>3, <1>7, <1>8, SearchStep

\* The import reported closes a cycle on the path.
LEMMA BreakCycleIInv == IInv /\ BreakCycle => IInv'
<1> SUFFICES ASSUME IInv, BreakCycle PROVE IInv'
  OBVIOUS
<1> PICK l : l = Len(path)
  OBVIOUS
<1> PICK f : f = Followed
  OBVIOUS
<1> PICK t : t = Top.name
  OBVIOUS
<1>1. /\ TypeOK /\ Loading /\ Mapping /\ Scanning /\ Partitioned /\ Ordering
      /\ Searching /\ Compiling /\ CompiledAfterImports /\ ReportedOnCycle
  BY DEF IInv
<1>2. /\ pc = "find" /\ pc' = "sort"
      /\ ~ Exhausted
      /\ f \in seen
      /\ reported' = reported \cup {f}
      /\ errors' = 1
      /\ visited' = visited \cup {f}
      /\ path' = <<>> /\ seen' = {}
      /\ scan' = 1 /\ write' = 0
      /\ UNCHANGED <<moduleMap, pending, result, loadVars, entries, envVars>>
  BY DEF BreakCycle
<1>3. Sorted /\ Sorting /\ Sorted' /\ Sorting'
  BY <1>2 DEF Sorted, Sorting
<1>4. /\ path \in Seq(Frame) /\ l \in Nat \ {0}
      /\ path[l].name = t
      /\ t \in Names(modules)
      /\ f \in Names(modules) /\ f \in Range(importsOf(t)) /\ f \in Name
  BY <1>2, SearchFacts
<1>5. Loading' /\ Mapping'
  BY <1>1, <1>2, <1>3, LoadingStays
<1>6. /\ modules' = modules /\ Names(modules)' = Names(modules)
      /\ \A n : importsOf(n)' = importsOf(n)
      /\ \A T : Closed(T)' <=> Closed(T)
  BY <1>2, Unchanged DEF loadVars
<1>7. TypeOK'
  BY <1>1, <1>2, <1>4 DEF TypeOK, loadVars, envVars
<1>8. Emitted' = Emitted
  BY <1>2, <1>6 DEF Emitted
<1>9. Scanning'
  <2>1. Len(pending) \in Nat
    BY <1>1 DEF TypeOK
  <2>2. /\ Range(pending') \subseteq Names(modules)'
        /\ Emitted' \subseteq visited' /\ visited' \subseteq Names(modules)'
    BY <1>1, <1>2, <1>3, <1>4, <1>6, <1>8 DEF Scanning
  <2> QED  BY <1>2, <2>1, <2>2 DEF Scanning
<1>10. Partitioned'
  <2>1. Todo' = Todo
    <3>1. scan = Len(pending) + 1 /\ write = Len(pending) /\ Len(pending) \in Nat
      BY <1>1, <1>2 DEF Scanning, TypeOK
    <3> QED  BY <1>2, <3>1 DEF Todo
  <2> QED  BY <1>1, <1>2, <1>3, <1>6, <1>8, <2>1 DEF Partitioned
<1>11. PICK i \in 1 .. l : path[i].name = f
  BY <1>1, <1>2 DEF Searching
<1>12. Ordering'
  <2> DEFINE T == {path[j].name : j \in i .. l}
  <2>1. T \subseteq Names(modules) /\ T # {}
    BY <1>1, <1>2, <1>4, <1>11 DEF Searching
  <2>2. ASSUME NEW n \in T PROVE \E m \in T : m \in Range(importsOf(n))
    <3>1. PICK j \in i .. l : n = path[j].name
      OBVIOUS
    <3>2. CASE j = l
      <4>1. f \in T
        BY <1>4, <1>11
      <4> QED  BY <1>4, <3>1, <3>2, <4>1
    <3>3. CASE j < l
      <4>1. j \in 1 .. l - 1 /\ j \in 1 .. l /\ j + 1 \in i .. l
        BY <1>4, <1>11, <3>3
      <4>2. /\ path[j].pos > 1
            /\ path[j].pos <= Len(importsOf(n)) + 1
            /\ importsOf(n)[path[j].pos - 1] = path[j + 1].name
        BY <1>1, <1>2, <3>1, <4>1 DEF Searching
      <4>3. path[j].pos \in Nat /\ n \in Names(modules)
        BY <1>1, <1>2, <2>1, <4>1, SearchFacts
      <4>4. importsOf(n) \in Seq(Name) /\ Len(importsOf(n)) \in Nat
        BY <1>1, <1>3, <4>3, MapFacts
      <4>5. path[j].pos - 1 \in 1 .. Len(importsOf(n))
        BY <4>2, <4>3, <4>4
      <4>6. path[j + 1].name \in Range(importsOf(n))
        BY <4>2, <4>4, <4>5, RangeOfSeq
      <4> QED  BY <4>1, <4>6
    <3> QED  BY <1>4, <3>2, <3>3
  <2> HIDE DEF T
  <2>3. CyclicAmong(Names(modules))
    BY <2>1, <2>2 DEF CyclicAmong
  <2>4. CyclicAmong(Names(modules))'
    BY <1>6, <2>3 DEF CyclicAmong
  <2> QED  BY <1>2, <2>4 DEF Ordering
<1>13. ReportedOnCycle'
  <2> SUFFICES ASSUME NEW n \in reported', NEW T \in SUBSET Names(modules),
                      Range(importsOf(n)) \subseteq T, Closed(T)
               PROVE  n \in T
    BY <1>6 DEF ReportedOnCycle
  <2>1. CASE n \in reported
    BY <1>1, <2>1 DEF ReportedOnCycle
  <2>2. CASE n = f
    <3>1. CASE i = l
      BY <1>4, <1>11, <2>2, <3>1
    <3>2. CASE i < l
      <4>1. t \in T
        <5>1. \A j \in 1 .. l : i < j => path[j].name \in T
          BY <1>1, <1>2, <1>11, <2>2 DEF Searching
        <5>2. l \in 1 .. l
          BY <1>4
        <5> QED  BY <1>4, <3>2, <5>1, <5>2
      <4>2. /\ moduleMap[t] \in 1 .. Len(modules) /\ modules[moduleMap[t]].name = t
            /\ Imports(moduleMap[t]) = Range(importsOf(t))
        BY <1>1, <1>3, <1>4, MapFacts
      <4>3. Range(importsOf(t)) \subseteq T
        BY <4>1, <4>2 DEF Closed
      <4> QED  BY <1>4, <2>2, <4>3
    <3> QED  BY <1>4, <1>11, <3>1, <3>2
  <2> QED  BY <1>2, <2>1, <2>2
<1>14. Searching' /\ Compiling' /\ CompiledAfterImports'
  <2>1. Searching'
    BY <1>2 DEF Searching
  <2>2. entries = <<>> /\ entries' = <<>>
    BY <1>1, <1>2, <1>3 DEF Compiling
  <2>3. Len(result') \in Nat
    BY <1>7 DEF TypeOK
  <2> QED  BY <2>1, <2>2, <2>3 DEF Compiling, CompiledAfterImports
<1> QED  BY <1>5, <1>7, <1>9, <1>10, <1>12, <1>13, <1>14 DEF IInv
-----------------------------------------------------------------------------
(* Compiling.                                                              *)

\* Compilation takes the next module of the order.
LEMMA CompileModuleIInv == IInv /\ CompileModule => IInv'
<1> SUFFICES ASSUME IInv, CompileModule PROVE IInv'
  OBVIOUS
<1> PICK n : n = Len(entries)
  OBVIOUS
<1>1. /\ TypeOK /\ Loading /\ Mapping /\ Scanning /\ Partitioned /\ Ordering
      /\ Searching /\ Compiling /\ CompiledAfterImports /\ ReportedOnCycle
  BY DEF IInv
<1>2. /\ pc = "compile" /\ pc' = "compile"
      /\ n < Len(result)
      /\ errors = 0
      /\ entries' = Append(entries, result[n + 1])
      /\ UNCHANGED <<moduleMap, reported, pending, scan, write, visited, result,
                     path, seen, loadVars, errors, envVars>>
  BY DEF CompileModule, sortVars, findVars
<1>3. Sorted /\ ~ Sorting /\ Sorted' /\ ~ Sorting'
  BY <1>2 DEF Sorted, Sorting
<1>4. Loading' /\ Mapping'
  BY <1>1, <1>2, <1>3, LoadingStays
<1>5. Ordering' /\ Emitted' = Emitted
  BY <1>1, <1>2, <1>3, OrderingStays
<1>6. /\ modules' = modules /\ Names(modules)' = Names(modules)
      /\ \A k : Imports(k)' = Imports(k)
      /\ \A m : importsOf(m)' = importsOf(m)
      /\ \A T : Closed(T)' <=> Closed(T)
  BY <1>2, Unchanged DEF loadVars
<1>7. /\ n \in Nat /\ Len(result) \in Nat
      /\ n + 1 \in 1 .. Len(result)
      /\ entries' \in Seq(1 .. Len(modules))
      /\ Len(entries') = n + 1
      /\ \A k \in 1 .. n : entries'[k] = entries[k]
      /\ entries'[n + 1] = result[n + 1]
  <2>1. /\ entries \in Seq(1 .. Len(modules)) /\ n \in Nat
        /\ result \in Seq(1 .. Len(modules)) /\ Len(result) \in Nat
    BY <1>1 DEF TypeOK
  <2>2. n + 1 \in 1 .. Len(result)
    BY <1>2, <2>1
  <2>3. result[n + 1] \in 1 .. Len(modules)
    BY <2>1, <2>2
  <2> QED  BY <1>2, <2>1, <2>2, <2>3, AppendFacts
<1>8. TypeOK'
  BY <1>1, <1>2, <1>6, <1>7 DEF TypeOK, loadVars, envVars
<1>9. \A k \in 1 .. n + 1 : entries'[k] = result[k] /\ k \in 1 .. Len(result)
  <2>1. \A k \in 1 .. n : entries[k] = result[k]
    BY <1>1, <1>3 DEF Compiling
  <2>2. \A k \in 1 .. n + 1 : (k \in 1 .. n \/ k = n + 1) /\ k \in 1 .. Len(result)
    BY <1>7
  <2> QED  BY <1>7, <2>1, <2>2
<1>10. Compiling'
  BY <1>2, <1>3, <1>7, <1>9 DEF Compiling
<1>11. CompiledAfterImports'
  <2> SUFFICES ASSUME NEW k \in 1 .. n + 1, NEW m \in Imports(entries'[k])
               PROVE  \E j \in 1 .. k - 1 : modules[entries'[j]].name = m
    BY <1>6, <1>7 DEF CompiledAfterImports
  <2>1. m \in Imports(result[k]) /\ k \in 1 .. Len(result)
    BY <1>9
  <2>2. PICK j \in 1 .. k - 1 : modules[result[j]].name = m
    BY <1>1, <1>2, <1>3, <2>1 DEF Ordering, InOrder
  <2>3. j \in 1 .. n + 1
    BY <1>7, <2>2
  <2> QED  BY <1>9, <2>2, <2>3
<1>12. ReportedOnCycle'
  BY <1>1, <1>2, <1>6 DEF ReportedOnCycle
<1>13. Scanning' /\ Searching'
  BY <1>1, <1>2, <1>3, <1>5, <1>6 DEF Scanning, Searching
<1>14. Partitioned'
  BY <1>1, <1>2, <1>3, <1>5, <1>6 DEF Partitioned
<1> QED  BY <1>4, <1>5, <1>8, <1>10, <1>11, <1>12, <1>13, <1>14 DEF IInv

\* The end of compilation, or its first error.
LEMMA CompileStopsIInv == IInv /\ (CompileFails \/ CompileEnd) => IInv'
<1> SUFFICES ASSUME IInv, CompileFails \/ CompileEnd PROVE IInv'
  OBVIOUS
<1>1. /\ TypeOK /\ Loading /\ Mapping /\ Scanning /\ Partitioned /\ Ordering
      /\ Searching /\ Compiling /\ CompiledAfterImports /\ ReportedOnCycle
  BY DEF IInv
<1>2. /\ pc = "compile" /\ pc' \in {"done", "failed"}
      /\ pc' = "done" => errors' = errors
      /\ errors' \in {0, 1}
      /\ UNCHANGED <<moduleMap, reported, pending, scan, write, visited, result,
                     path, seen, loadVars, entries, envVars>>
  BY <1>1 DEF CompileFails, CompileEnd, sortVars, findVars, TypeOK
<1>3. Sorted /\ ~ Sorting /\ ~ Sorting' /\ (Sorted' => pc' = "done")
  BY <1>2 DEF Sorted, Sorting
<1>4. Loading' /\ Mapping'
  BY <1>1, <1>2, <1>3, LoadingStays
<1>5. Ordering' /\ Emitted' = Emitted
  <2>1. CASE pc' = "done"
    BY <1>1, <1>2, <1>3, <2>1, OrderingStays
  <2>2. CASE pc' # "done"
    BY <1>2, <1>3, <2>2 DEF Ordering, Emitted, loadVars
  <2> QED  BY <2>1, <2>2
<1>6. CompiledAfterImports' /\ ReportedOnCycle'
  BY <1>1, <1>2, HistoryStays
<1>7. modules' = modules /\ Names(modules)' = Names(modules)
  BY <1>2, Unchanged DEF loadVars
<1>8. TypeOK'
  BY <1>1, <1>2 DEF TypeOK, loadVars, envVars
<1>9. Scanning' /\ Searching'
  BY <1>1, <1>2, <1>3, <1>5, <1>7 DEF Scanning, Searching
<1>10. Partitioned'
  BY <1>1, <1>2, <1>3, <1>5, <1>7 DEF Partitioned
<1>11. Compiling'
  BY <1>1, <1>2, <1>3 DEF Compiling
<1> QED  BY <1>4, <1>5, <1>6, <1>8, <1>9, <1>10, <1>11 DEF IInv

\* A step that changes nothing.
LEMMA StutterIInv == IInv /\ UNCHANGED vars => IInv'
<1> SUFFICES ASSUME IInv, UNCHANGED vars PROVE IInv'
  OBVIOUS
<1>1. /\ TypeOK /\ Loading /\ Mapping /\ Scanning /\ Partitioned /\ Ordering
      /\ Searching /\ Compiling /\ CompiledAfterImports /\ ReportedOnCycle
  BY DEF IInv
<1>2. /\ UNCHANGED <<loadVars, moduleMap, envVars, entries, reported>>
      /\ pc' = pc /\ modules' = modules /\ pendingModules' = pendingModules
      /\ moduleMap' = moduleMap /\ errors' = errors /\ reported' = reported
      /\ pending' = pending /\ scan' = scan /\ write' = write /\ visited' = visited
      /\ result' = result /\ path' = path /\ seen' = seen /\ entries' = entries
  BY DEF vars, loadVars, sortVars, findVars
<1>3. TypeOK'
  BY <1>1, <1>2 DEF TypeOK, envVars
<1>4. /\ Names(modules)' = Names(modules)
      /\ InputNames' = InputNames
      /\ PendingNames' = PendingNames
      /\ \A k : Imports(k)' = Imports(k)
      /\ \A n : importsOf(n)' = importsOf(n)
      /\ \A T : Closed(T)' <=> Closed(T)
      /\ Todo' = Todo
      /\ Sorted' = Sorted
      /\ Sorting' = Sorting
  BY <1>2, Unchanged DEF Todo, Sorted, Sorting
<1>5. Emitted' = Emitted
  BY <1>2 DEF Emitted
<1>6. Fresh' <=> Fresh
  BY <1>2 DEF Fresh
<1>7. Loading' /\ Mapping'
  BY <1>1, <1>2, <1>4, <1>6 DEF Loading, Mapping
<1>8. Scanning'
  <2>1. \A m : moduleIsReady(m)' <=> moduleIsReady(m)
    BY <1>2, <1>4 DEF moduleIsReady
  <2> QED  BY <1>1, <1>2, <1>4, <1>5, <2>1 DEF Scanning
<1>9. Partitioned'
  BY <1>1, <1>2, <1>4, <1>5 DEF Partitioned
<1>10. Ordering'
  <2>1. CASE Sorted
    <3>1. UNCHANGED <<loadVars, moduleMap, envVars, errors, visited, result>>
      BY <1>2
    <3> QED  BY <1>1, <2>1, <3>1, OrderingStays
  <2>2. CASE ~ Sorted
    BY <1>4, <2>2 DEF Ordering
  <2> QED  BY <2>1, <2>2
<1>11. Searching'
  BY <1>1, <1>2, <1>4 DEF Searching
<1>12. Compiling'
  BY <1>1, <1>2, <1>4 DEF Compiling
<1>13. CompiledAfterImports' /\ ReportedOnCycle'
  BY <1>1, <1>2, HistoryStays
<1> QED  BY <1>3, <1>7, <1>8, <1>9, <1>10, <1>11, <1>12, <1>13 DEF IInv
-----------------------------------------------------------------------------
(* The theorems.                                                           *)

\* Every step of the module driver keeps the invariant.
LEMMA NextIInv == IInv /\ [Next]_vars => IInv'
<1> SUFFICES ASSUME IInv, [Next]_vars PROVE IInv'
  OBVIOUS
<1>1. CASE LoadAgain
  BY <1>1, LoadAgainIInv
<1>2. CASE LoadMissing \/ LoadMalformed
  BY <1>2, LoadFailsIInv
<1>3. CASE LoadModule
  BY <1>3, LoadModuleIInv
<1>4. CASE SortBegin
  BY <1>4, SortBeginIInv
<1>5. CASE EmitReady
  BY <1>5, EmitReadyIInv
<1>6. CASE KeepPending
  BY <1>6, KeepPendingIInv
<1>7. CASE NextRound
  BY <1>7, NextRoundIInv
<1>8. CASE FindBegin
  BY <1>8, FindBeginIInv
<1>9. CASE SortEnd
  BY <1>9, SortEndIInv
<1>10. CASE FindDescend
  BY <1>10, FindDescendIInv
<1>11. CASE FindBacktrack
  BY <1>11, FindBacktrackIInv
<1>12. CASE BreakCycle
  BY <1>12, BreakCycleIInv
<1>13. CASE CompileModule
  BY <1>13, CompileModuleIInv
<1>14. CASE CompileFails \/ CompileEnd
  BY <1>14, CompileStopsIInv
<1>15. CASE Finished \/ UNCHANGED vars
  BY <1>15, StutterIInv DEF Finished
<1> QED  BY <1>1, <1>2, <1>3, <1>4, <1>5, <1>6, <1>7, <1>8, <1>9, <1>10, <1>11, <1>12,
            <1>13, <1>14, <1>15 DEF Next

\* The invariant holds in every state.
LEMMA Invariance == Spec => []IInv
<1> QED  BY InitIInv, NextIInv, PTL DEF Spec

\* The variables of the module driver keep their types: no index that
\* moduleSort computes is out of the range of the modules.
THEOREM TypeCorrect == Spec => []TypeOK
<1>1. IInv => TypeOK
  BY DEF IInv
<1> QED  BY <1>1, Invariance, PTL

\* compileModules loads exactly the import closure of its inputs, each module
\* once, whatever the file system holds.
THEOREM LoadsTheClosure == Spec => []LoadedIsClosure
<1>1. IInv => LoadedIsClosure
  <2> SUFFICES ASSUME IInv, pc \notin {"load", "failed"}
               PROVE  /\ \A j, k \in 1 .. Len(modules) : modules[j].name = modules[k].name => j = k
                      /\ InputNames \subseteq Names(modules)
                      /\ Closed(Names(modules))
                      /\ \A T \in SUBSET Names(modules) :
                            InputNames \subseteq T /\ Closed(T) => T = Names(modules)
    BY DEF LoadedIsClosure
  <2>1. TypeOK /\ Loading /\ Mapping /\ Sorted
    BY DEF IInv, TypeOK, Sorted
  <2>2. PendingNames = {}
    BY <2>1 DEF Loading, PendingNames
  <2>3. Names(modules) \subseteq Name
    BY <2>1, MapFacts
  <2> QED  BY <2>1, <2>2, <2>3 DEF Loading, Closed
<1> QED  BY <1>1, Invariance, PTL

\* The in-place compaction of moduleSort neither loses a module nor emits one
\* twice, for any number of modules and cycles.
THEOREM EmitsOnce == Spec => []EmittedOnce
<1>1. IInv => EmittedOnce
  <2> SUFFICES ASSUME IInv PROVE EmittedOnce
    OBVIOUS
  <2>1. TypeOK /\ Loading /\ Mapping /\ Scanning /\ Partitioned
    BY DEF IInv
  <2>2. /\ result \in Seq(1 .. Len(modules))
        /\ Range(result) = {result[k] : k \in 1 .. Len(result)}
        /\ Range(result) \subseteq 1 .. Len(modules)
    BY <2>1, RangeOfSeq DEF TypeOK
  <2>3. ASSUME Sorted, NEW k \in 1 .. Len(modules), modules[k].name \in Emitted
        PROVE  k \in Range(result)
    <3>1. PICK i \in 1 .. Len(result) : modules[result[i]].name = modules[k].name
      BY <2>3 DEF Emitted
    <3>2. result[i] \in 1 .. Len(modules)
      BY <2>2
    <3>3. result[i] = k
      BY <2>1, <3>1, <3>2 DEF Loading
    <3> QED  BY <2>2, <3>3
  <2>4. ASSUME Sorting
        PROVE  /\ \A j, k \in Todo : pending[j] = pending[k] => j = k
               /\ {moduleMap[pending[j]] : j \in Todo} \cap Range(result) = {}
               /\ {moduleMap[pending[j]] : j \in Todo} \cup Range(result) = 1 .. Len(modules)
    <3>1. Sorted
      BY <2>4 DEF Sorting, Sorted
    <3>2. \A j \in Todo : pending[j] \in Names(modules)
      <4>1. /\ scan \in 1 .. Len(pending) + 1 /\ write \in Nat /\ write < scan
            /\ pending \in Seq(Name) /\ Len(pending) \in Nat
            /\ Range(pending) \subseteq Names(modules)
        BY <2>1, <2>4 DEF Scanning, TypeOK
      <4>2. Todo \subseteq 1 .. Len(pending)
        BY <4>1 DEF Todo
      <4> QED  BY <4>1, <4>2, RangeOfSeq
    <3>3. \A j \in Todo : /\ moduleMap[pending[j]] \in 1 .. Len(modules)
                          /\ modules[moduleMap[pending[j]]].name = pending[j]
      BY <2>1, <3>1, <3>2, MapFacts
    <3>4. \A j \in Todo : moduleMap[pending[j]] \notin Range(result)
      <4> SUFFICES ASSUME NEW j \in Todo, NEW k \in 1 .. Len(result),
                          moduleMap[pending[j]] = result[k]
                   PROVE  FALSE
        BY <2>2
      <4>1. pending[j] \in Emitted
        BY <3>3 DEF Emitted
      <4> QED  BY <2>1, <2>4, <4>1 DEF Partitioned
    <3>5. ASSUME NEW k \in 1 .. Len(modules)
          PROVE  k \in Range(result) \/ \E j \in Todo : moduleMap[pending[j]] = k
      <4>1. modules[k].name \in Names(modules) /\ moduleMap[modules[k].name] = k
        BY <2>1, <3>1, MapFacts
      <4>2. CASE modules[k].name \in Emitted
        BY <2>3, <3>1, <4>2
      <4>3. CASE modules[k].name \notin Emitted
        BY <2>1, <2>4, <4>1, <4>3 DEF Partitioned
      <4> QED  BY <4>2, <4>3
    <3>6. \A j, k \in Todo : pending[j] = pending[k] => j = k
      BY <2>1, <2>4 DEF Partitioned
    <3> QED  BY <2>2, <3>3, <3>4, <3>5, <3>6, SMTT(20)
  <2>5. ASSUME pc \in {"compile", "done"}
        PROVE  Range(result) = 1 .. Len(modules)
    <3>1. Sorted /\ Names(modules) \subseteq Emitted
      BY <2>1, <2>5 DEF Sorted, Partitioned
    <3>2. \A k \in 1 .. Len(modules) : modules[k].name \in Emitted
      BY <3>1 DEF Names
    <3> QED  BY <2>2, <2>3, <3>1, <3>2
  <2>6. \A j, k \in 1 .. Len(result) : result[j] = result[k] => j = k
    BY <2>1 DEF Partitioned
  <2> QED  BY <2>4, <2>5, <2>6 DEF EmittedOnce, Sorting, Todo
<1> QED  BY <1>1, Invariance, PTL

\* Every module is compiled after all that it imports, cycles or not.
THEOREM CompilesAfterImports == Spec => []CompiledAfterImports
<1>1. IInv => CompiledAfterImports
  BY DEF IInv
<1> QED  BY <1>1, Invariance, PTL

\* When moduleSort returns, it has reported a circular dependency just when
\* the modules have one.
THEOREM ReportsExactlyCycles == Spec => []CircularIffCyclic
<1>1. IInv => CircularIffCyclic
  <2> SUFFICES ASSUME IInv, pc = "compile"
               PROVE  errors # 0 <=> CyclicAmong(Names(modules))
    BY DEF CircularIffCyclic
  <2>1. Scanning /\ Partitioned /\ Ordering /\ Sorted
    BY DEF IInv, Sorted
  <2>2. errors = 0 => visited = Names(modules)
    BY <2>1 DEF Scanning, Partitioned, Ordering
  <2> QED  BY <2>1, <2>2 DEF Ordering
<1> QED  BY <1>1, Invariance, PTL

\* A module that is said to import itself transitively does.
THEOREM ReportsOnCycle == Spec => []ReportedOnCycle
<1>1. IInv => ReportedOnCycle
  BY DEF IInv
<1> QED  BY <1>1, Invariance, PTL

\* The asserts of moduleSort and findCircularDependencyRec never fail: when no
\* module is ready, the first pending one leads to a cycle.
THEOREM FindsACycle == Spec => []CycleFound
<1>1. IInv => CycleFound
  <2> SUFFICES ASSUME IInv, pc = "find"
               PROVE  /\ path # <<>>
                      /\ Len(path) = 1 => ~ Exhausted
                      /\ ~ Exhausted => Followed \in DOMAIN moduleMap
    BY DEF CycleFound
  <2>1. TypeOK /\ Mapping /\ Searching /\ Sorted
    BY DEF IInv, Sorted
  <2>2. ~ Exhausted => Followed \in DOMAIN moduleMap
    BY <2>1, SearchFacts DEF Mapping
  <2>3. ASSUME Len(path) = 1, Exhausted PROVE FALSE
    <3>1. /\ Top = path[1] /\ Top.name = pending[1]
          /\ importsOf(Top.name) \in Seq(Name) /\ Len(importsOf(Top.name)) \in Nat
          /\ path[1].pos \in Nat
      BY <2>1, <2>3, SearchFacts DEF Searching
    <3>2. \A k \in 1 .. Len(importsOf(Top.name)) : k \in 1 .. path[1].pos - 1
      BY <2>3, <3>1 DEF Exhausted
    <3>3. \A k \in 1 .. Len(importsOf(Top.name)) : importsOf(Top.name)[k] \notin Range(pending)
      BY <2>1, <2>3, <3>1, <3>2 DEF Searching
    <3>4. pending[1] \in Range(pending)
      <4>1. pending \in Seq(Name) /\ pending # <<>>
        BY <2>1 DEF TypeOK, Searching
      <4>2. 1 \in 1 .. Len(pending)
        BY <4>1, HeadTail
      <4> QED  BY <4>1, <4>2, RangeOfSeq
    <3> QED  BY <3>1, <3>3, <3>4, StuckImports
  <2>4. path # <<>>
    BY <2>1 DEF Searching
  <2> QED  BY <2>2, <2>3, <2>4
<1> QED  BY <1>1, Invariance, PTL
=============================================================================
