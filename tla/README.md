# A TLA+ verification of the Aike compiler and runtime

Aike is a statically typed language; the repository holds its compiler (C++,
LLVM back end), the runtime that compiled programs are linked with (coroutines,
a conservative garbage collector, console I/O) and a parallel test runner.
This directory models the parts of it whose correctness depends on order,
sharing and history, checks them with TLC and proves the central results with
TLAPS.

## 1. Inventory

### Runtime (`runtime/`, `gjduckgc/`)

| Component | State | Operations | What is hard | What makes it correct |
|---|---|---|---|---|
| Coroutine scheduler `scheduler.cpp`, `context_amd64.s` | intrusive doubly linked ready list, `current`, `cleanup`, `worker` context; per coroutine: block, stack, saved context | `spawn`, `yield`, end of `coroEntry`, worker loop of `schedulerRun` | a coroutine cannot unmap the stack it stands on; contexts are resumed long after they were captured; block addresses are reused | list = queue of ready coroutines, every block has one owner, never execute on unmapped memory, FIFO, no starvation, nothing leaks |
| Stacks and signals `stack_unix.cpp`, `signal_unix.cpp`, `init.cpp` | mapped stacks with a guard page, the alternate signal stack | map, unmap, register, handle a fault, tear down | a fault may be a stack overflow, so the handler must have another stack | a fault always finds the alternate stack mapped |
| Garbage collector `gc.cpp`, `gjduckgc/gc.c`, `gjduckgc/gc.h` | per region: size class, inverse size, freelist, bump pointer, mark bits, lazy sweep window; mark stack | `gcNew`, `gcNewArray`, `gcCollect` | three sources of free cells; lazy sweep across collections; explicit mark stack with entry exchange; conservative roots; 32-bit offsets; division by multiplication; pages shared by live and dead cells | nothing reachable is handed out, garbage is found, a collection ends, every pointer leads to its cell, only dead pages are returned |
| Console I/O, backtrace, `common.cpp` | none of its own | formatting, `printf`, symbol lookup | nothing (pure output) | - |

Everything runs on one thread.  The collector is called by the current
coroutine and scans the stack that the call is on.

### Compiler (`compiler/`)

| Component | State | Operations | What is hard | What makes it correct |
|---|---|---|---|---|
| Module driver `compiler.cpp`, `modules.cpp` | queue of pending modules, loaded modules, in-place `pending` list, `visited`, DFS call stack | load, sort, search for a cycle, compile | cycles and their breaking, in-place compaction, two notions of `visited` | the import closure is loaded once, imports are compiled first, cycles are reported exactly, the sort ends |
| Tokenizer `tokenize.cpp` | cursor, line table, bracket stack | split, locate, bracket matching, newline rule | tokens that span lines, unterminated strings, which line ends end a statement | tokens and what is skipped make up the source, locations are right, brackets pair up |
| Parser `parse.cpp` | token cursor, indentation of the innermost block | recursive descent, priority climbing, blocks by indentation | offside rule, lookahead, associativity, `else` | what is printed is parsed back; blocks are those of the indentation |
| Name resolution `resolve.cpp` | three `NameMap`s: newest binding per name, stack of bindings with shadow chains; stack of functions | bind, look up, open and close scopes, overload sets | a scope restores exactly what it shadowed; loops that bind several declarations | every name refers to its innermost visible definition, or to all overloads in view |
| Type inference `type.cpp`, `typecheck.cpp`, `resolveMembers` | table of constraints, types in the tree, fixpoint over passes | constrain, rewrite, propagate, instantiate, reduce overloads, verify | termination, occurs check, order of constraints, values read in one pass and used in a later one | the most general solution is found or an error is reported; the fixpoint ends |
| Code generation `codegen.cpp`, `mangle.cpp` | insert block, blocks of the function, functions by mangled name, work list | emit expressions, instantiate, mangle | the insert block changes while subexpressions are emitted; recursion through generic instances; names as identity | the LLVM verifier accepts, the code does what the source says, one function per instance, the work list drains |
| Diagnostics, AST support, dumping, target, timers | output buffers | - | nothing stateful | - |

### Test runner (`tests/runner.cpp`)

A thread pool takes tests from an atomic index; each thread pipes, forks and
reads a child's two outputs with `select`.  Hard: `fork` copies the pipe ends
that other threads have open at that instant, `select` drops silent pipes from
a set that is not rebuilt, pipes have a capacity.  Correct: every test is run
and counted once, what a child printed is captured, the runner ends.

### Not of this program

`compiler-rt/GCDAProfiling.c` is a vendored profiling runtime.

The components, with status and reason, are the `components` of
`PROJECT.json`; the places where the code is hard to test are its `hazards`.

## 2. Plan

The order of the modules, the most important behaviour first, and their state:

| Module | Uses | State of the work |
|---|---|---|
| `Scheduler`, `FifoScheduler` | - | checked; everything but liveness proved (`RuntimeProofs`) |
| `GC`, `Runtime` | `Scheduler` | checked; safety proved (`RuntimeProofs`), reachability for programs that collect alone |
| `Regions`, `PageReturn` | `PageReturn` uses `Regions` | checked; safety proved (`RegionsProofs`) |
| `Modules` | - | checked; safety proved (`ModulesProofs`) |
| `TestRunner` | - | checked; safety proved (`TestRunnerProofs`) |
| `Resolve`, `LexicalScope` | - | checked; all of it proved (`ResolveProofs`) |
| `Tokenize` | - | checked; all of it proved (`TokenizeProofs`) |
| `Parse`, `SourceRows` | the newline rule of `Tokenize` | checked (recursive, not for proofs) |
| `Types`, `TypeInfer` | - | checked (recursive) |
| `ControlFlow` | - | checked (recursive) |
| `WorkList` | - | checked and proved (`WorkListProofs`) |
| `Mangle`, `Instances` | `Instances` uses `Mangle`, and gives `WorkList` its constants | checked (recursive) |

The compiler's phases are separate modules: each runs to its end before the
next one starts, `Modules` has their order and what the failure of one means.

## 3. Modules and the code

### `Scheduler.tla`

One thread; `pc` is what it executes and `sp` whose stack it executes on
(`NULL`: the process's own).  Each static pointer of `scheduler.cpp` is a
variable of the same name, and each field of `struct Coro` is a function from
block addresses.  A `Coro` address is any member of the constant `Coro` that is
not allocated, so blocks and stacks are reused after their release and a stale
pointer would meet the new owner's data.  `order` is a history variable: the
queue that the list is meant to be.

| Action | Code |
|---|---|
| `SignalSetup`, `SpawnMain`, `SignalTeardown` | `aikeEntry`, `signalSetup`, `signalTeardown` |
| `Reap` | the body of the worker loop in `schedulerRun`, entered on every resumption of `worker` |
| `Dispatch`, `SchedulerReturns` | `coroDispatch` with and without a ready coroutine |
| `Spawn`, `Yield`, `CoroEntryEnd`, `CoroReturn` | `spawn`, `yield`, the end of `coroEntry`, `coroReturn` |
| `OutOfMemory` | a failed `malloc` or `mmap`, both of which end in `abort` |
| `Fault` | a signal and `signalHandler`, which aborts |

The bodies of coroutines are arbitrary: at `pc = "coro"` any of spawn, yield,
return and fault can come next.  The mutually exclusive branches of
`contextCapture` (captured / resumed) are separate steps: the resumed branch of
`yield` does nothing, that of `schedulerRun` is `Reap`.

### `FifoScheduler.tla`

What the scheduler promises: a queue and a processor.  `Scheduler` implements
it under `ready <- order, running <- current`.

### `GC.tla`, `Runtime.tla`

One region of equal cells (a region is a size class; regions meet only when
the marking follows a pointer from one into another).  A pointer is the number
of the cell it points into, as `gc_objidx` computes it.  `freelist`,
`freeptr`, `markstart`, `markend` and `marked` are the fields of
`struct gc_region_s`; `markStack`, `scanning` and `pushed` are the locals of
`gc_mark`.  Allocation is one step (nothing can interleave with it);
marking is one step per scanned word, because its order, with the exchange of
entries after `GC_MAX_MARK_PUSH` pushes, is what makes it hard.  `frames` is
what a coroutine's stack and registers hold.

`gcNew` and `gcNewArray` clear the bytes asked for, not the cell.  `extent` is
how many words of a cell its block has: the program uses those, `Reachable`
follows those, and `gc_mark` scans the whole cell, with what earlier blocks have
left behind them.  What a collection keeps, `Retained`, may be more than what the
program reaches.  Blocks are whole words in the model; in a block that ends
inside a word the rest of that word is old, too.  A page that a sweep gives back
is read as zeros afterwards, so the code may forget stale words that the model
keeps.

`Runtime` composes `GC` with `Scheduler`: collector operations are calls of
the current coroutine, scheduler steps happen between them, and
`CollectBegin` starts from the roots that the code passes: the stack of the
caller.

### `Modules.tla`

`compileModules` and both `moduleSort`s, `moduleIsReady` and
`findCircularDependencyRec` as one sequential state machine.  The recursion of
the search is the explicit stack `path`; `seen` is its `visited` set and
`visited` that of `moduleSort`.  A file is what the driver sees of it: missing,
malformed (the parser panics and the process exits), or parsed with a sequence
of imports.  `disk`, `inputs` and `disablePrelude` are chosen by `Init` and
never change, so one run covers every import graph within the bounds.
`Output::errors` is abstracted to zero or not.  `CompileFails` is any error
that resolution, checking or code generation reports.

### `Regions.tla`, `PageReturn.tla`

`Regions` has the layout of all regions: `IndexOf` (`GC_malloc`),
`gc_size_index`, the bounds that `GC_init` computes, and the way from a pointer
back to its cell (`gc_index`, `gc_objidx`, `gc_base`), a multiplication by the
rounded inverse of the cell size of which the high word is taken.  Addresses
are numbers and `WordRange` stands for 2^64.  Its actions allocate from the
unused end of the regions, refuse a size without a class and fail in a full
region.

`PageReturn` has the loop of `gc_sweep` over a region that was allocated from,
cell by cell, which `GC.tla` has as one step (`Sweep`): `SweepCutsAsGC` says
that it ends and that the two agree.  Bytes given to `madvise` are the set
`returned`.  Offsets are taken modulo `OffsetRange` (2^32, in the code also the
size of a region), and `ToInt32` is what storing into `freesize` does.
`GC.tla` counts the wrapped end in whole cells, which is exact for sizes that
divide 2^32; `Cut` has it in bytes, for every size.

`Slack` is the number of bytes at the end of a cell of a class that the rounding
of its inverse gives to the next cell.  It is 0 for every class of the code up to
12 MB, and at most 46 for 222 of the larger ones.

### `TestRunner.tla`

Threads and children interleave at every call of `pipe`, `fork`, `close`,
`select`, `read`, `write`, `waitpid` and the increment of the index.  `set` is
the `fd_set` that `select` overwrites; `writers` the holders of each write end,
which `Fork` gives to the child of every thread, and `readers` those of each read
end.  A printed line is an item, and a test file the sequence of its comment
lines by kind.

`SystemFails` (pipe, fork), `ExecFails`, `SelectFails` and `ReadFails` are failed
system calls.  When `select` fails the loop is left with streams in the set, and
a `read` that returns -1 drops its stream like the end of it: either closes a
read end under a child that may still print (`cut` remembers it).  The child then
dies of SIGPIPE (`BrokenPipe`; nothing changes its default action), or blocks if
another child has inherited the read end.

### `Resolve.tla`, `LexicalScope.tla`

`data`, `stack` and the shadow chains are those of `NameMap`; a pointer to a
binding is its place on the stack.  The tree is arbitrary: any well-nested
sequence of opening, binding, looking up and leaving.  `ImplementsLexicalScope`
maps the stack, cut at the offsets that the open scopes remember, to the nested
scopes of `LexicalScope`, which has no chains and nothing to restore.

### `Tokenize.tla`

Each pass of `tokenize` is a loop, one turn of which is an action: a line of
`parseLines`, a token of `parseTokens` (or what is skipped in its place), a
token of `matchBrackets` and of `insertNewline`; the end of each loop is an
action, too.  A token is located when it is cut, which comes to the same, as the
line table is complete by then.  A source is any sequence of characters, of
which one or two stand for each class that the code tells apart.

### `Parse.tla`, `SourceRows.tla`

The productions of `parse.cpp` that read one token after the other are data
(`Rules`), interpreted by `run` and `step`; indentation, lookahead, priorities
and the lowering of operators to calls are operators named after the functions
of the code.  A result is a position and the nodes built, or a panic or a
failed assertion; `indents` and `stream` are what the parser reads of
`Tokens::lines` and `Tokens::tokens`.  `SourceRows` makes tokens of rows of words,
`MCParse` has the printer and `MCParseLayout` the meaning of indentation.

### `Types.tla`, `TypeInfer.tla`

`Types` has unification and the constraint table (`tryAdd`, `rewrite`,
`unify`); `TypeInfer` one operator per typing function of `typecheck.cpp`, from
a state to a state, and one action per call in the `do` loop of
`compileModule`: `typeckPropagate`, `resolveMembers`, and at the end
`typeckVerify`.  A program is its syntax tree by paths.  `Solve` is the
reference: Robinson unification of the program's equations.

### `ControlFlow.tla`

`codegenIf`, `codegenFor`, `codegenWhile`, `codegenBinaryAndOr`, `codegenIndex`
and the rest build instructions in basic blocks with the insert point of the
`IRBuilder`; the resulting function is then executed block by block with any
results for its calls.  `codegenCall` evaluates what is called, then the
arguments; with varargs, `codegenExtra` gives each further argument an allocation
and stores its address in the array that the callee gets (`Given` reads it back
from memory when the call happens).  `Verified` is what LLVM's verifier asks:
terminators, phi nodes with exactly the predecessors, definitions that dominate
uses.  The reference is an evaluator of the syntax tree in `MCControlFlow`.
Left out: the type descriptions next to the extra arguments, which are
constants.

### `WorkList.tla`, `Mangle.tla`, `Instances.tla`

`WorkList` is the loop of `codegen`: references ask for instances,
`codegenFunctionDecl` finds or creates them under their names, the list
`pendingFunctions` generates their bodies, for all modules in turn.  What a
reference asks for is a constant there (`Requested`, `Meaning`, `Outcome`), which
the configuration sets to what `Instances` computes: the generics around a
function, the types of a reference and the mangled name (`InstanceFor`,
`MeaningFor`, `OutcomeFor`).  A mangled name is a sequence of pieces, a declared
name being one with its length in front.

## 4. Runs

| Run | Instance | Result |
|---|---|---|
| `scheduler` | 4 blocks, 5 stacks | ready list, ownership, stacks; refinement of `FifoScheduler`; no starvation |
| `modules` | all graphs of 3 names with up to 2 imports, 0 to 2 inputs, missing and malformed files, with and without prelude | closure, order, no loss in the compaction; the sort ends once the remaining graph has no cycle |
| `runtime` | 1 coroutine that goes on, 3 cells of 1 word, 3 slots, blocks of 0 and 1 words | no cell is handed out twice, a collection keeps exactly what marking can reach and nothing the program uses is available, marking ends |
| `runtime_suspended_roots` | 2 coroutines, 3 cells | **violation**: finding 1 |
| `regions` | 9 regions of 48 bytes, the range of an offset, in 3 size ranges, requests at the limits of the classes; then the sweep of any region, with pages of 4 bytes and every set of marks | blocks are large enough and aligned, pointers lead to their cells; the loop of `gc_sweep` ends, cuts as in `GC`, returns whole dead pages |
| `regions_full` | the same | **violation**: finding 2 |
| `runner` | 2 threads, 4 files, 2 kinds of children, any of pipe, fork, exec, select and read fails, pipes of one item | each test once, exact summary, captures; no pipe closed under a writer while select and read work; what can hang, and nothing else does |
| `resolve` | 2 names, 5 declarations, 2 scopes, 3 bindings at a time | chains, targets, refinement of `LexicalScope` (which has nothing to restore) |
| `front_end` | tokenizer: all sources of up to 5 characters of 11 classes, and of up to 6 with three kinds of brackets; parser: 7328 printed trees, and 17000 sources of up to 4 rows of 8 kinds at 3 indents | cover, longest match, locations, statement ends; exactly nested brackets are accepted; printed trees are parsed back; blocks follow indentation; well laid out sources are accepted |
| `infer` | all bodies of 3 statements of 16, and of 17 others with overloads, generics and structs | inference finds the solution, or an error if there is none; type parameters of functions and structs do not leak, exactly the candidates that do not fit are dropped |
| `codegen` | work list: 3240 programs of 5 functions in 2 modules, type arguments up to depth 4; types of depth 2 and 448 functions for their names; bodies: expressions of depth 2 with computed callees and extra arguments, loops and conditions over 5 void bodies (9 in loops), up to 9 calls | one function per instance, everything generated, asserts, unbounded only under polymorphic recursion; different things have different names; verifier, except for loops over branching expressions; the calls of the source in its order with its values |
| `emit_loop` | the bodies of `codegen` | **violation**: finding 3 |

Two runs have two parts side by side: a behaviour of `MCFrontEnd` is either one
of the tokenizer or one of the parser, whose sources are made of tokens; a
behaviour of `MCCodegen` is either one of the work list or one of a body
(`ControlFlow`, whose state is `bodyVars`).  Neither part of a run looks at the
state of the other.

**Why the bounds are enough.**  Four coroutines give a list with a head, a
tail and two inner nodes, and reused addresses; the branches of the list code
tell apart only lengths 0, 1 and more.  Two imports from three modules give
self-imports, overlapping and disjoint cycles, diamonds and repeated imports.
Three cells fill a freelist of length two and leave one to the bump pointer;
`MaxMarkPush = 0` is the smallest value of that bound and makes the exchange in
`gc_mark` happen as soon as a second pointer is met; with three slots it
happens while a third is still to be scanned.  `OffsetRange` is
`2^32 / size`, one more in `runtime` than the cells there are: the region runs
out of memory before it is full, as `gc_protect_memory` fails.  One coroutine
allocates, stores and collects in any order; it neither yields nor ends
(`BusySpec`), as the scheduler's steps leave the collector's state alone, and
the theorems are about every order (`RuntimeSpec`).  A second coroutine brings in
what `runtime_suspended_roots` shows.

In `regions` the word is narrow enough for inverses to round: those of the cells
of 12, 36 and 54 bytes lose bytes at their ends, the others do not.  Regions
whose base is no multiple of the size of a cell start behind it (36 and 54
bytes), and the last cells of 18, 36 and 54 bytes end behind their region.  A region is as large
as the range of an offset, as in the code, so those
of 6 and 12 bytes (8 and 4 cells) wrap when they are full.  Eight cells of 6 bytes hold runs of more than three pages of 4 bytes
that begin and end inside a page.  Two threads are
enough for a child to inherit a foreign pipe, and a pipe of one item is full
whenever it is not empty.  Three bindings and two scopes let a name be shadowed
in an inner scope, restored and bound again.  Five characters hold a string
over two lines with something behind it.  Three operators tell associativity
and priorities apart, pairwise and nested.  Three statements chain constraints
over both arguments and the result of a function.  Each pass of inference takes
fresh unknowns; `RoundBound` is the number of passes after which a program that
converges has done so, and the loop is cut at `MaxPass`, above it.  `MaxDepth`
of `Instances` is above the depth at which types of programs that converge stop
growing.

**Fairness.**  `FairSpec` of `Scheduler` assumes that the thread keeps
executing and that the program's coroutines give up the processor; nothing in
the runtime preempts them, so starvation freedom cannot be had without the
second.  `FairSpec` of `Modules` and `SweepSpec` of `PageReturn` assume only
that a sequential process keeps running.  `FairSpec` of `TestRunner` is weak
fairness of every thread and every child: the operating system keeps running
what can go on.  Three loops end for a reason that needs no fairness: marking
leaves less to do with every step (`CollectShrinks`), the passes of type
inference are bounded by the size of the program (`SolvableEnds`), and the work
list of instances ends or meets the bound (`EndsUnlessExpansive`).

### Findings

1. A collection does not scan suspended coroutines: `spawn`
   (`scheduler.cpp:90-102`) registers neither their stacks nor their saved
   contexts as roots, although `gc.h:357` asks that of memory that may contain
   pointers.  What only a suspended coroutine refers to is freed by another one's
   `gcCollect` (`runtime_suspended_roots`).
2. `gc_sweep` computes the new end of the used part in 32 bits (`gc.c:806`).  In a
   region that is full to its 4 GB, with a size of cells that divides 2^32 and its
   last cell marked, it wraps to 0: every marked cell lies behind `freeptr`, where
   `gc_mark` takes memory for not allocated yet (`gc.c:721-722`)
   (`regions_full`).  `SweepKeeps` proves that there is no other case.
3. `codegenFor` gives its phi the block from before it generated the expression it
   loops over (`codegen.cpp:1064`).  When that is an index expression or a
   conditional the LLVM verifier refuses the function, and the assertion at
   `compiler.cpp:361` fails (`emit_loop`).

### What the properties exempt

Each of these is a behaviour of the code that the model has and that a property
would not hold of; the property says which case it leaves out.

* `EndsOnceCyclesAreBroken`: `moduleSort` does not end when two cycles are
  reachable from the first pending module and do not share the reported import.
  `findCircularDependency` ignores what was broken already and finds the same
  cycle again (`modules.cpp:108-116`).
* `LoadedIsClosure` is about names: of two input files of one name the second is
  dropped before it is read (`compiler.cpp:266`), so that `Duplicate module name`
  (`modules.cpp:137`) is never reported.
* `ReachableKept`, `CollectExact` (`wrapped`): in a full region whose last cell
  is live, the 32-bit offset in `gc_sweep` wraps to zero and `freeptr` returns to
  the start (finding 2).  `Cut` includes the wrap.
* `CollectExact` is about `Retained`: an object that is dead for the program is
  kept when a stale word in a live cell leads to it, as with any conservative
  collector.
* `PointersFindCells` and `SweepRegion` (`Inside`): the last cells of a full
  region lie in the next one.  `GC_init` counts the region's size from the first
  cell, not from the base (`gc.c:311`), and `GC_malloc_index` compares the start
  of a cell.  In the region of 48-byte cells the last one begins
  16 bytes behind the base of the next region.
* `PointersFindCells` (`Slack`): `GC_base` is to return the start of the object
  for an interior pointer (`gc.h:306-308`).  In 222 of the huge classes (12 MB and
  more) the error of the rounded inverse takes a pointer to one of the last bytes
  of a cell, at most 46, to the next one (`gc.h:300`).  `PointersFound` proves
  that no other pointer into a cell of its region is concerned.
* `SolvableEnds`: the fixpoint loop of type inference does not end on some
  ill-typed programs.  Indexing something that is no array makes a fresh element
  type in every pass (`typecheck.cpp:397`), and a variable that must equal it is
  rewritten each time.
* `InfersTheSolution` (`BodyValueDropped`): `typeFnDecl` does not check the body
  against the result once that is known to be `void`, so whether a value is
  dropped silently depends on the order in which things become known.
* `VerifierAccepts`, `RunsAsWritten` (`BranchingLoop`): loops over expressions
  that branch (finding 3).
* `RunnerEnds` (`OnDroppedPipe`): a child that prints on both streams, and on one
  that `select` dropped more than its pipe holds, is never read
  (`runner.cpp:66`).  So is a child that fills its pipe after a failed `select`
  or `read`, when another child has inherited the read end.
* `ReaderOutlivesChild`, `CaptureComplete` (`cut`): calls of `system` in which a
  `select` or a `read` has failed.  Captures are still prefixes of what was
  printed then.
* `EndsUnlessExpansive`: polymorphic recursion makes the work list of instances
  grow without end; nothing else does.
* `WellLaidAccepted`: an `if` without `else` as the last statement of a branch,
  directly before the `else` of the outer `if`, is refused.
* `NamesApart`: its pools leave out a declared type with
  the name of a built-in one (a TODO at `mangle.cpp:50`), structs of the same
  name in two modules, functions of the same name nested in sibling blocks, and
  overloads that differ in their result only, each of which share a name.

Remarks from reading:

* Parser: a file without lines fails an assertion in `parseIndent`
  (`parse.cpp:225`), one with only a comment does not; at the end of the file
  the indent of the first line is used; the indentation of the top level is not
  checked; there are no reserved words, so an unpaired `else` is an identifier;
  the path of an `import` goes on only on its first line; a literal of a generic
  struct with type arguments, `P.<int>{}`, cannot be parsed.
* Tokenizer: strings that are not terminated are accepted, and adjacent atoms
  merge, as in `a=-1` and in `.<P.<int>>`.  A string over several lines ends its
  statement, whatever follows on its last line (`tokenize.cpp:230`).
* Type inference: omitted type arguments of structs are filled in place.
* Collector: `gc_sweep` sets `returning` for all later regions at the region
  `GC_BIG_IDX_OFFSET` if that is in use, but no size has that class, so that it
  never happens.  On Linux `gc_get_stackbottom` walks up to the first page that
  is not mapped and may run into the guard page of an adjacent mapping; words
  that it scans beyond the stack only add conservative roots.
* Signals and stacks: `signalTeardown` calls `sigaction(id, nullptr, nullptr)`,
  which does not uninstall a handler; `stackCreate` tests `!ret` although `mmap`
  reports failure by `MAP_FAILED` (the following check of `mprotect` catches it).

## 5. Proofs

`RuntimeProofs.tla` proves of the scheduler, for any sets of blocks and stacks
(`NullAssumption`: the null pointer is neither), all that `scheduler`
checks except liveness, and that no assert fails (`AssertionsHold`) and nothing
is left allocated at the end (`NoLeakAtExit`):

* `TypeCorrect`, `ReadyListCorrect`, `Ownership`, `StackSafety`,
  `AssertsNeverFail`, `NothingLeaks`: `Spec => []P` for each invariant;
* `Refinement`: `Spec => ImplementsFifo`.

None of the invariants is inductive alone: the list is only right if what is
appended is not in it (ownership), ownership needs to know which of `current`
and `cleanup` is set at each `pc` (`Control`), and the absence of leaks needs
that every mapped stack belongs to a live block or is the alternate stack
(`MappedOwned`).  `IInv` is the conjunction, `InitIInv` and `NextIInv` its two
halves; `QueueAppends` and `UnlinkTakesHead` say what the list operations do to
the list, and each action's step cites them.  The refinement uses `IInv` to
know that `readyHead` is the head of `order`.

`ModulesProofs.tla` proves the invariants of `modules`, and that cycles are
reported exactly (`CircularIffCyclic`, `ReportedOnCycle`, `CycleFound`), for any names,
file system, command line and import graph (`NameAssumption`,
`NamingAssumption` and `InputAssumption` only give the constants their types):
`TypeCorrect`, `LoadsTheClosure`, `EmitsOnce`, `CompilesAfterImports`,
`ReportsExactlyCycles`, `ReportsOnCycle`, `FindsACycle`.  The inductive
invariant has one part per phase:

* `Loading`: everything that is needed is loaded or awaited, and whatever is
  loaded or awaited is in every closed set with the inputs;
* `Scanning`, `Partitioned`: each module is in exactly one place of `pending` or
  `result` while `pending` is overwritten behind the scan, and a scan that has
  kept everything so far has met nothing that was ready;
* `Ordering`: without an error the visited modules are the emitted ones, in
  order, and have no cycle among them; with an error there is one.  Acyclicity
  is an invariant because a module whose imports are all visited cannot close a
  cycle (`NoNewCycle`), so no induction over the graph is needed;
* `Searching`: each frame of the search imports the next, a frame is in every
  closed set with the imports of an earlier one, and an import that a frame has
  done with is not pending.  When nothing is ready every pending module imports
  a pending one (`StuckImports`), so the first frame, which is pending, cannot
  come to its end.

That moduleSort *ends* is not among the theorems, and is false with two
separate cycles.

`RegionsProofs.tla` proves, for any alignment, number and size of regions
(`RegionsAssumption`: they are positive, there is more than one class in a
range, the memory begins at a multiple of the region size):

* `SizeClasses`: every size up to the largest has a class, whose cells hold it
  with less than a unit to spare, and `GC_malloc` and `GC_realloc` agree on it;
* `BlocksHold`: `Spec => []BlockHolds`.  The invariant `AllocInv` adds that the
  next cell of every region is at a multiple of its size; `CellSizes` makes
  that a multiple of the alignment;
* `PointersFound`: `Spec => []PointersFindCells`, for every class and without an
  assumption about its inverse (`AddressAssumption`: addresses are words).
  `SlackFacts` bounds what the rounding loses in a class, and `Quotient` is the
  argument: the error moves the product by less than what is missing to the next
  multiple.

It also proves of the loop of `gc_sweep`, for every layout in which a region is
not larger than the range of the 32-bit offsets (in the code the two are equal),
any page size and any marks:

* `ReturnsOnlyDead`: `SweepSpec => []ReturnedIsDead`.  The invariant `SweepInv`
  says that `freesize` is the size of a whole number of unmarked cells above
  `ptridx`, as an `int32_t` (`RunOK`); `PagesOfRun` is the arithmetic of rounding
  the begin of a run up and its end down to pages.  A run that is long enough to
  be returned does not begin behind the last cell, so its offset does not wrap;
* `SweepCuts`: at the end the used part is cut where `GC.tla` cuts it, in a full
  region, too (`Cut`);
* `SweepKeeps`: no marked cell is left outside of the used part
  (`UsedPartKeepsMarked`) unless the offset of the region's end wraps.

`RuntimeProofs.tla` goes on to the composition of collector and scheduler, for any
number of coroutines, cells, words, slots and any `MaxMarkPush` and
`FreelistLen`:

* `RuntimeIsScheduler`: every behaviour of the composition is one of
  `Scheduler`, so the theorems about the scheduler hold of it;
* `CellsHandedOutOnce`: `RuntimeSpec => []HandedOutOnce`, from the invariant
  `GInv`.  `ThreadedLists` and `SearchStops` say what the lazy search of the mark
  bits threads and where it stops;
* `CollectionsShrink`: `RuntimeSpec => CollectShrinks`, so marking ends on any
  heap, with any exchange of entries;
* `CollectionsExact`: `RuntimeSpec => CollectExact`, of every program.  The
  invariant is that of a marking collector, `TriColour`, a part of `GInv`: what a
  collection has marked is in `Retained` of the stack it started from, and a word
  of that stack or of a marked cell that points to an unmarked cell lies in a
  range that is still to be scanned.  `SweepExact` goes on from there: the sweep
  makes available exactly what is not retained.  `Retained` is the least set that
  is closed under the words of the used part (`RetainedCloses`, `RetainedLeast`),
  which is all that the proofs use of it, so that no induction over paths is
  needed;
* `LiveCellsKept`: `RuntimeSpec /\ CollectsAlone => []ReachableKept`.  The invariant
  `Kept` says that what the live coroutines reach lies in the used part of the
  heap and is not available between collections; `ReachableRetained` joins the
  two: what the program reaches is retained.

`CollectsAlone` says that a collection begins only when the coroutine calling
`gcCollect` is the only one that exists.  Without it `ReachableKept` is false,
which is what `runtime_suspended_roots` shows.  `OneCoroutine` proves it of every
program that spawns nothing, so the hypothesis is not empty.  Both properties
except a wrapped sweep offset, as the runs do.

`TestRunnerProofs.tla` proves, for any number of threads, any test files and
outputs and any interleaving of threads, children and failing calls
(`InputsAssumption` gives the constants their types): `SummaryIsExact`,
`ReaderStays`, `CaptureIsComplete`.  The invariant `IInv` is `Work` (a file is
not taken yet, in one thread's hands, or counted under its verdict) and
`Plumbing` (who holds which end of which pipe; what a child wrote is what its
thread has read followed by what the pipe still holds).  The last two are about
calls of `system` in which no `select` and no `read` has failed (`~cut`), but for
the prefix part of `CaptureComplete`, which always holds.  The theorems are for
any test files; those of the run have none that is expected to fail (`XFAIL`).

`ResolveProofs.tla` proves all that `resolve` checks, for any names, values and
bounds:

* `NameMapsCorrect`: `Spec => []NameMapOK`.  The invariant `ResInv` is `Latest`
  (a name leads to its last binding, and a binding to the last one before it of
  its name) with the order of the saved tops (`TopsOK`) and the functions and
  generics that are open.  `PopDataKeeps` is the core: the shadow of the lowest
  binding that goes is the last one that stays;
* `TargetsCorrect`: `Spec => []TargetsExact`.  The walk along a shadow chain and
  the selection of functions are recursive functions; that they are defined, and
  what they return (`WalkVisits`, `KeptFunctions`), is shown by a least
  counterexample (`Least` of `IntervalFacts`) in place of an induction;
* `ScopesImplemented`: `Spec => ImplementsLexicalScope`.  `PushDeclares`,
  `OpenOpens` and `LeaveCloses` map the steps; `Scoped` shows that what a map
  finds is the innermost declaration in the abstract scopes.

`TokenizeProofs.tla` proves all that `front_end` checks of the tokenizer, for any
alphabet and any set of sources over it (`SourcesAssumption`).  The invariant has
a part for each pass, which says what the pass has done so far:

* `TokensAreTheSource`: `Spec => []TokensCoverSource`, from `Lined` (the line
  table has the starts of the lines up to the cursor, in order; `Location` makes
  it the number of line ends before an offset) and `Cut` (what is cut and what
  is skipped lies side by side up to the cursor, which may be one behind the end
  of the source after an open string; `Covered`);
* `NestingIsExact`: `Spec => []BracketsNest`.  `Stacked` says that the k-th
  bracket of the stack is at depth k, below which no depth has fallen since, and
  that every other opening bracket so far is closed.  `StackStep` shows that a
  bracket is refused only if the whole source is not nested, `StackEnd` that an
  empty stack at the end means that it is;
* `StatementsEndAtLines`: `Spec => []StatementsEnd`, from `Split`, which is the
  same for what `insertNewline` has put together so far.

`WorkListProofs.tla` proves `GeneratesEverything`: `Spec /\ []NamesFree =>
[]EverythingGenerated`, for any programs with different roots (`RootsAssumption`)
and whatever references ask for.  The invariant `Listed` says that every function
has a body or is on the list, once; `Recorded` that every function was asked for
or is an entry.  `NamesFree` says that no mangled name is that of an entry, and
that code generation ends by a panic where it does not go on; `Mangle` begins
every name with `_Z`, and `codegen` checks it as a part of
`OneFunctionPerMeaning`.

`IntervalFacts.tla` has the facts about finite sets of numbers that these share.

Only model-checked: liveness (`EveryCoroutineRuns`, `EndsOnceCyclesAreBroken`,
`SweepCutsAsGC` beyond `SweepCuts`, `RunnerEnds`), which needs reasoning about
`ENABLED`; and what is computed by recursion over syntax trees, types and the
rows of a source (`Parse`, `TypeInfer`, `ControlFlow`, `Mangle`, `Instances`),
where `RECURSIVE` operators and structural induction are out of the prover's
reach.

## 6. Not modelled

* Console output and backtraces, diagnostics (except the number of errors),
  dumping, timers: formatting only.
* The back end driver and target selection: calls into LLVM and the linker.
* AST support: traversals without state; every pass that uses them is modelled.
* Of code generation: the layout of LLVM types, debug information, inline LLVM
  assembly, arithmetic and builtins, each a call of LLVM without decisions of
  its own.
* Of type inference: filling omitted type arguments of structs in place, and
  the names of types in messages.
* Of the collector: `GC_realloc`, `GC_free`, registered roots and automatic
  collection, which the runtime never uses, the protection of fresh memory, and
  the Windows variants.
* Of the test runner: the walk through directories; the files are an input.
* The vendored profiling runtime.
