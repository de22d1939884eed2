------------------------------ MODULE Modules ------------------------------
(***************************************************************************)
(* The module driver of the Aike compiler: compileModules and              *)
(* compileModule (compiler/compiler.cpp) with moduleSort                   *)
(* (compiler/modules.cpp).                                                 *)
(*                                                                         *)
(* Three phases.  Loading reads and parses the input files and, transi-    *)
(* tively, every file they import.  Sorting puts the modules in an order   *)
(* in which each comes after its imports; when nothing is ready it looks   *)
(* for a cycle, reports it and marks the module that closes it as visited. *)
(* Compiling resolves, checks and generates code for each in that order    *)
(* and stops at the first error.                                           *)
(*                                                                         *)
(* A module name is a natural number, its rank in the order of Str; a file *)
(* is abstracted to what the driver sees of it: whether it can be read,    *)
(* whether it parses, and the modules that its import nodes name, in       *)
(* source order.                                                           *)
(***************************************************************************)
EXTENDS Naturals, Sequences, Functions

CONSTANTS
    Name,           \* module names, by rank
    Path,           \* file names
    ModuleName,     \* getModuleName: the name given to an input file
    ModulePath,     \* getModulePath: the file in which an import is looked up
    Prelude,        \* the name std.prelude
    Disks,          \* the contents that the file system may have
    CommandLines    \* the sequences of input files that may be given

FileKind == {"missing", "malformed", "parsed"}
File     == [kind : FileKind, imports : Seq(Name)]

ASSUME NameAssumption == Name \subseteq Nat /\ Prelude \in Name
ASSUME NamingAssumption == ModuleName \in [Path -> Name] /\ ModulePath \in [Name -> Path]
ASSUME InputAssumption == /\ Disks \subseteq [Path -> File]
                          /\ CommandLines \subseteq Seq(Path)

VARIABLES
    pc,             \* what the compiler is executing
    disk, inputs, disablePrelude,       \* its environment; never changes
    pendingModules, \* deque of the modules still to be loaded
    modules,        \* the modules loaded, as [name, imports]
    moduleMap,      \* index in modules of every module name being sorted
    errors,         \* 0, or 1 standing for any positive Output::errors
    reported,       \* history: the modules named by circular dependency errors
    pending,        \* moduleSort: names not yet emitted
    scan, write,    \* moduleSort: the loop's i (from 1) and write
    visited,        \* moduleSort: names taken to be available
    result,         \* moduleSort: indices in emission order
    path, seen,     \* findCircularDependency: call stack and visited set
    entries         \* indices of the modules that have been compiled

envVars  == <<disk, inputs, disablePrelude>>
loadVars == <<pendingModules, modules>>
findVars == <<path, seen>>
sortVars == <<moduleMap, reported, pending, scan, write, visited, result>>
vars     == <<pc, envVars, loadVars, findVars, sortVars, errors, entries>>

Names(ms) == {ms[k].name : k \in 1 .. Len(ms)}

Module == [name : Name, imports : Seq(Name)]
Frame  == [name : Name, pos : Nat \ {0}]    \* pos: the next import to follow

TypeOK ==
    /\ pc \in {"load", "sort", "find", "compile", "done", "failed"}
    /\ disk \in Disks
    /\ inputs \in CommandLines
    /\ disablePrelude \in BOOLEAN
    /\ pendingModules \in Seq([name : Name, path : Path])
    /\ modules \in Seq(Module)
    /\ moduleMap \in [DOMAIN moduleMap -> 1 .. Len(modules)]
    /\ DOMAIN moduleMap \subseteq Name
    /\ errors \in {0, 1}
    /\ reported \subseteq Name
    /\ pending \in Seq(Name)
    /\ scan \in Nat
    /\ write \in Nat
    /\ visited \subseteq Name
    /\ result \in Seq(1 .. Len(modules))
    /\ path \in Seq(Frame)
    /\ seen \subseteq Name
    /\ entries \in Seq(1 .. Len(modules))

Init ==
    /\ pc = "load"
    /\ disk \in Disks
    /\ inputs \in CommandLines
    /\ disablePrelude \in BOOLEAN
    /\ pendingModules = [k \in 1 .. Len(inputs) |->
                            [name |-> ModuleName[inputs[k]], path |-> inputs[k]]]
    /\ modules = <<>>
    /\ moduleMap = [n \in {} |-> 0]
    /\ errors = 0
    /\ reported = {}
    /\ pending = <<>>
    /\ scan = 1
    /\ write = 0
    /\ visited = {}
    /\ result = <<>>
    /\ path = <<>>
    /\ seen = {}
    /\ entries = <<>>
-----------------------------------------------------------------------------
(* Helpers.                                                                *)

\* The imports of a parsed module, as moduleGatherImports enumerates them: the
\* autoimports that compileModules has added come before the import nodes.
gatherImports(name, file) ==
    IF disablePrelude \/ name = Prelude THEN file.imports
    ELSE <<Prelude>> \o file.imports

importsOf(n) == modules[moduleMap[n]].imports

\* What the sort by name in moduleSort makes of the modules.
SortedByName ==
    {s \in [1 .. Len(modules) -> Names(modules)] :
        /\ Range(s) = Names(modules)
        /\ \A j, k \in 1 .. Len(modules) : j < k => s[j] < s[k]}

\* The innermost call of findCircularDependencyRec and the import it is at.
Top == path[Len(path)]
Exhausted == Top.pos > Len(importsOf(Top.name))
Followed == importsOf(Top.name)[Top.pos]
-----------------------------------------------------------------------------
(* Plausible faults in this code, for checking that the properties see them *)

\* compileModules gathers the imports before it adds the autoimport.
LoadModuleNoAutoimport ==
    /\ pc = "load"
    /\ pendingModules # <<>>
    /\ Head(pendingModules).name \notin Names(modules)
    /\ disk[Head(pendingModules).path].kind = "parsed"
    /\ LET pm == Head(pendingModules)
           imports == disk[pm.path].imports
       IN  /\ pendingModules' = Tail(pendingModules) \o
                 [k \in 1 .. Len(imports) |->
                     [name |-> imports[k], path |-> ModulePath[imports[k]]]]
           /\ modules' = Append(modules, [name |-> pm.name,
                             imports |-> gatherImports(pm.name, disk[pm.path])])
    /\ UNCHANGED <<pc, errors, entries, envVars, sortVars, findVars>>

\* moduleIsReady waits for the imports to be emitted, not merely visited.
moduleIsReadyEmitted(n) ==
    \A k \in 1 .. Len(importsOf(n)) : moduleMap[importsOf(n)[k]] \in Range(result)

\* moduleSort compacts pending without skipping what it emitted.
EmitReadyKeeps ==
    /\ pc = "sort"
    /\ scan \in 1 .. Len(pending)
    /\ \A k \in 1 .. Len(importsOf(pending[scan])) :
          importsOf(pending[scan])[k] \in visited
    /\ result' = Append(result, moduleMap[pending[scan]])
    /\ visited' = visited \cup {pending[scan]}
    /\ pending' = [pending EXCEPT ![write + 1] = pending[scan]]
    /\ write' = write + 1
    /\ scan' = scan + 1
    /\ UNCHANGED <<pc, moduleMap, reported, loadVars, errors, entries, envVars,
                   findVars>>

\* compileModule does not look at output.errors.
CompileModuleIgnoresErrors ==
    /\ pc = "compile"
    /\ Len(entries) < Len(result)
    /\ entries' = Append(entries, result[Len(entries) + 1])
    /\ UNCHANGED <<pc, sortVars, findVars, loadVars, errors, envVars>>
-----------------------------------------------------------------------------
(* moduleIsReady: every import is visited.                                 *)

moduleIsReady(n) == \A k \in 1 .. Len(importsOf(n)) : importsOf(n)[k] \in visited
-----------------------------------------------------------------------------
(* Loading.                                                                *)

\* A module of that name has been loaded already.
LoadAgain ==
    /\ pc = "load"
    /\ pendingModules # <<>>
    /\ Head(pendingModules).name \in Names(modules)
    /\ pendingModules' = Tail(pendingModules)
    /\ UNCHANGED <<pc, modules, errors, entries, envVars, sortVars, findVars>>

\* The file cannot be read: "Cannot find module".
LoadMissing ==
    /\ pc = "load"
    /\ pendingModules # <<>>
    /\ Head(pendingModules).name \notin Names(modules)
    /\ disk[Head(pendingModules).path].kind = "missing"
    /\ pendingModules' = Tail(pendingModules)
    /\ errors' = 1
    /\ pc' = "failed"
    /\ UNCHANGED <<modules, entries, envVars, sortVars, findVars>>

\* The tokenizer or the parser meets an error and calls Output::panic, which
\* ends the process.
LoadMalformed ==
    /\ pc = "load"
    /\ pendingModules # <<>>
    /\ Head(pendingModules).name \notin Names(modules)
    /\ disk[Head(pendingModules).path].kind = "malformed"
    /\ pendingModules' = Tail(pendingModules)
    /\ pc' = "failed"
    /\ UNCHANGED <<modules, errors, entries, envVars, sortVars, findVars>>

LoadModule ==
    /\ pc = "load"
    /\ pendingModules # <<>>
    /\ Head(pendingModules).name \notin Names(modules)
    /\ disk[Head(pendingModules).path].kind = "parsed"
    /\ LET pm == Head(pendingModules)
           imports == gatherImports(pm.name, disk[pm.path])
       IN  /\ pendingModules' = Tail(pendingModules) \o
                 [k \in 1 .. Len(imports) |->
                     [name |-> imports[k], path |-> ModulePath[imports[k]]]]
           /\ modules' = Append(modules, [name |-> pm.name, imports |-> imports])
    /\ UNCHANGED <<pc, errors, entries, envVars, sortVars, findVars>>

\* Everything is loaded; moduleSort fills its map and its pending list.  Names
\* are unique by now, so its "Duplicate module name" branch is never taken.
SortBegin ==
    /\ pc = "load"
    /\ pendingModules = <<>>
    /\ moduleMap' = [n \in Names(modules) |->
                        CHOOSE k \in 1 .. Len(modules) : modules[k].name = n]
    /\ pending' \in SortedByName
    /\ pc' = "sort"
    /\ UNCHANGED <<loadVars, reported, scan, write, visited, result, errors,
                   entries, envVars, findVars>>
-----------------------------------------------------------------------------
(* Sorting: one step per iteration of the inner loop.                      *)

EmitReady ==
    /\ pc = "sort"
    /\ scan \in 1 .. Len(pending)
    /\ moduleIsReady(pending[scan])
    /\ result' = Append(result, moduleMap[pending[scan]])
    /\ visited' = visited \cup {pending[scan]}
    /\ scan' = scan + 1
    /\ UNCHANGED <<pc, moduleMap, reported, pending, write, loadVars, errors,
                   entries, envVars, findVars>>

\* pending[write++] = m, in the vector that is being scanned.
KeepPending ==
    /\ pc = "sort"
    /\ scan \in 1 .. Len(pending)
    /\ ~ moduleIsReady(pending[scan])
    /\ pending' = [pending EXCEPT ![write + 1] = pending[scan]]
    /\ write' = write + 1
    /\ scan' = scan + 1
    /\ UNCHANGED <<pc, moduleMap, reported, visited, result, loadVars, errors,
                   entries, envVars, findVars>>

\* The scan emitted something: drop what was emitted and scan again.
NextRound ==
    /\ pc = "sort"
    /\ pending # <<>>
    /\ scan = Len(pending) + 1
    /\ write # Len(pending)
    /\ pending' = SubSeq(pending, 1, write)
    /\ scan' = 1
    /\ write' = 0
    /\ UNCHANGED <<pc, moduleMap, reported, visited, result, loadVars, errors,
                   entries, envVars, findVars>>

\* Nothing was ready: call findCircularDependency on the first pending module.
FindBegin ==
    /\ pc = "sort"
    /\ pending # <<>>
    /\ scan = Len(pending) + 1
    /\ write = Len(pending)
    /\ path' = <<[name |-> pending[1], pos |-> 1]>>
    /\ seen' = {pending[1]}
    /\ pc' = "find"
    /\ UNCHANGED <<sortVars, loadVars, errors, entries, envVars>>

SortEnd ==
    /\ pc = "sort"
    /\ pending = <<>>
    /\ pc' = "compile"
    /\ UNCHANGED <<sortVars, findVars, loadVars, errors, entries, envVars>>
-----------------------------------------------------------------------------
(* findCircularDependencyRec, a depth-first search along imports in which  *)
(* seen holds the modules on the current path.                             *)

\* The recursive call for an import that is not on the path.
FindDescend ==
    /\ pc = "find"
    /\ ~ Exhausted
    /\ Followed \notin seen
    /\ seen' = seen \cup {Followed}
    /\ path' = Append([path EXCEPT ![Len(path)].pos = @ + 1],
                      [name |-> Followed, pos |-> 1])
    /\ UNCHANGED <<pc, sortVars, loadVars, errors, entries, envVars>>

\* No import of this module leads to a cycle: the call returns an empty name.
\* The outermost call must not do so (the assert in moduleSort).
FindBacktrack ==
    /\ pc = "find"
    /\ Exhausted
    /\ Len(path) > 1
    /\ seen' = seen \ {Top.name}
    /\ path' = SubSeq(path, 1, Len(path) - 1)
    /\ UNCHANGED <<pc, sortVars, loadVars, errors, entries, envVars>>

\* An import is on the path: all the calls return it, and moduleSort reports
\* it, marks it visited and scans the unchanged pending list again.
BreakCycle ==
    /\ pc = "find"
    /\ ~ Exhausted
    /\ Followed \in seen
    /\ reported' = reported \cup {Followed}
    /\ errors' = 1
    /\ visited' = visited \cup {Followed}
    /\ path' = <<>>
    /\ seen' = {}
    /\ scan' = 1
    /\ write' = 0
    /\ pc' = "sort"
    /\ UNCHANGED <<moduleMap, pending, result, loadVars, entries, envVars>>
-----------------------------------------------------------------------------
(* Compiling.                                                              *)

\* compileModule succeeds on the next module: resolution, type checking and
\* code generation report no error, and none was reported before.
CompileModule ==
    /\ pc = "compile"
    /\ Len(entries) < Len(result)
    /\ errors = 0
    /\ entries' = Append(entries, result[Len(entries) + 1])
    /\ UNCHANGED <<pc, sortVars, findVars, loadVars, errors, envVars>>

\* compileModule returns null: some pass reports an error, or resolveNames
\* returns to find one that moduleSort had reported.
CompileFails ==
    /\ pc = "compile"
    /\ Len(entries) < Len(result)
    /\ errors' = 1
    /\ pc' = "failed"
    /\ UNCHANGED <<sortVars, findVars, loadVars, entries, envVars>>

CompileEnd ==
    /\ pc = "compile"
    /\ Len(entries) = Len(result)
    /\ pc' = IF errors = 0 THEN "done" ELSE "failed"
    /\ UNCHANGED <<sortVars, findVars, loadVars, errors, entries, envVars>>

\* compileModules has returned, or the process has exited.
Finished == pc \in {"done", "failed"} /\ UNCHANGED vars

Next ==
    \/ LoadAgain
    \/ LoadMissing
    \/ LoadMalformed
    \/ LoadModule
    \/ SortBegin
    \/ EmitReady
    \/ KeepPending
    \/ NextRound
    \/ FindBegin
    \/ SortEnd
    \/ FindDescend
    \/ FindBacktrack
    \/ BreakCycle
    \/ CompileModule
    \/ CompileFails
    \/ CompileEnd
    \/ Finished

Spec == Init /\ [][Next]_vars

\* The compiler is one sequential process that keeps executing.
FairSpec == Spec /\ WF_vars(Next)
-----------------------------------------------------------------------------
(* Properties.                                                             *)

Imports(k) == Range(modules[k].imports)
Closed(T) == \A k \in 1 .. Len(modules) : modules[k].name \in T => Imports(k) \subseteq T
InputNames == {ModuleName[inputs[k]] : k \in 1 .. Len(inputs)}

\* Loading ends with exactly the modules that the inputs need: no name twice,
\* every input, every import of a loaded module (the prelude, too, whoever
\* imports it implicitly), and nothing that is not needed.
LoadedIsClosure ==
    pc \notin {"load", "failed"} =>
        /\ \A j, k \in 1 .. Len(modules) : modules[j].name = modules[k].name => j = k
        /\ InputNames \subseteq Names(modules)
        /\ Closed(Names(modules))
        /\ \A T \in SUBSET Names(modules) :
              InputNames \subseteq T /\ Closed(T) => T = Names(modules)

\* The in-place compaction of pending neither loses nor repeats a module: at
\* every point of the scan each module is either emitted or still to be
\* looked at or kept, once; so when the sort ends the order has every one.
EmittedOnce ==
    /\ \A j, k \in 1 .. Len(result) : result[j] = result[k] => j = k
    /\ pc \in {"sort", "find"} =>
          LET todo == (1 .. write) \cup (scan .. Len(pending)) IN
          /\ \A j, k \in todo : pending[j] = pending[k] => j = k
          /\ {moduleMap[pending[j]] : j \in todo} \cap Range(result) = {}
          /\ {moduleMap[pending[j]] : j \in todo} \cup Range(result) = 1 .. Len(modules)
    /\ pc \in {"compile", "done"} => Range(result) = 1 .. Len(modules)

\* A module is compiled only after every module that it imports: code
\* generation never meets a declaration of an import that has no code.  With
\* circular imports nothing is compiled at all, although moduleSort goes on.
CompiledAfterImports ==
    \A k \in 1 .. Len(entries) :
        Imports(entries[k]) \subseteq {modules[entries[j]].name : j \in 1 .. k - 1}

\* The modules of S import each other in a circle (in a finite graph: there is
\* a cycle in S just when some part of S has no member without an import in it).
CyclicAmong(S) ==
    \E T \in SUBSET S :
        /\ T # {}
        /\ \A n \in T : \E m \in T : m \in Range(importsOf(n))

\* When the sort ends, circular imports were reported just when there are any.
CircularIffCyclic ==
    pc = "compile" => (errors # 0 <=> CyclicAmong(Names(modules)))

\* A module named by "Circular dependency detected: module %s transitively
\* imports itself" does: it is in every set that has its imports and theirs.
ReportedOnCycle ==
    \A n \in reported :
        \A T \in SUBSET Names(modules) :
            Range(importsOf(n)) \subseteq T /\ Closed(T) => n \in T

\* When no module is ready the search from the first pending one finds a cycle
\* (assert(import.first.size) in moduleSort), and all it follows is loaded
\* (assert(it != modules.end()) in findCircularDependencyRec).
CycleFound ==
    pc = "find" => /\ path # <<>>
                   /\ Len(path) = 1 => ~ Exhausted
                   /\ ~ Exhausted => Followed \in DOMAIN moduleMap

\* Once no cycle is left among the modules that are not marked visited, the
\* sort and then the compilation come to an end.
EndsOnceCyclesAreBroken ==
    (pc = "sort" /\ ~ CyclicAmong(Names(modules) \ visited)) ~> pc \in {"done", "failed"}
=============================================================================
