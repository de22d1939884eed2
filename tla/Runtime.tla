------------------------------ MODULE Runtime ------------------------------
(***************************************************************************)
(* The runtime as a program meets it: the coroutine scheduler              *)
(* (Scheduler.tla) and the collector (GC.tla) in one process.  Everything  *)
(* the collector does is a call made by the current coroutine, so no       *)
(* coroutine switch happens during a collection; but coroutines switch     *)
(* between any two calls, and the collector scans only the stack it is     *)
(* called on.                                                              *)
(***************************************************************************)
EXTENDS GC

rvars == <<vars, gcVars>>

RuntimeInit == Init /\ GCInit

\* mmap returns zeroed memory: a new stack holds no pointers.
SpawnWithStack ==
    /\ phase = "idle"
    /\ SpawnMain \/ Spawn
    /\ frames' = [c \in Coro |-> IF c \in live' \ live THEN NoSlots ELSE frames[c]]
    /\ UNCHANGED <<heap, extent, heapVars, phase, markVars, wrapped>>

\* The scheduler's other steps do not touch what the collector sees.
SchedulerStep ==
    /\ phase = "idle"
    /\ \/ SignalSetup
       \/ Reap
       \/ Dispatch
       \/ SchedulerReturns
       \/ SignalTeardown
       \/ OutOfMemory
       \/ Yield
       \/ CoroEntryEnd
       \/ CoroReturn
       \/ Fault
       \/ Stopped
    /\ UNCHANGED gcVars

\* A call of gcNew or gcNewArray for slot i of the current stack.
New ==
    /\ pc = "coro"
    /\ \E i \in 1 .. Slots : AllocFromFreelist(i) \/ AllocFromRegion(i)
    /\ UNCHANGED vars

\* gcAlloc's panic when GC_malloc returns NULL.
NewPanics ==
    /\ pc = "coro"
    /\ AllocFails
    /\ pc' = "aborted"
    /\ UNCHANGED <<sp, altStack, rsp, current, cleanup, gcVars>>
    /\ UNCHANGED memVars
    /\ UNCHANGED listVars

\* The program copies and stores pointers.
Mutate ==
    /\ pc = "coro"
    /\ \/ \E i \in 1 .. Slots : Assign(i)
       \/ \E i, j \in 1 .. Slots, w \in 1 .. Words : StoreWord(i, j, w)
    /\ UNCHANGED vars

CollectStep ==
    /\ \/ MarkSkip
       \/ MarkPush
       \/ MarkExchange
       \/ MarkPop
       \/ MarkEnd
       \/ Sweep
    /\ UNCHANGED vars

Collect == pc = "coro" /\ CollectBegin /\ UNCHANGED vars

RuntimeNext ==
    \/ SpawnWithStack
    \/ SchedulerStep
    \/ New
    \/ NewPanics
    \/ Mutate
    \/ Collect
    \/ CollectStep

RuntimeSpec == RuntimeInit /\ [][RuntimeNext]_rvars
-----------------------------------------------------------------------------
(* Properties.                                                             *)

\* No cell can be handed out twice: the freelist has no repetition, and the
\* three sources of GC_malloc_index (freelist, unswept part, unused part) are
\* disjoint, whatever sequence of allocations and collections led here; all of
\* them stay inside the region (GCTypeOK).
HandedOutOnce ==
    /\ TypeOK /\ GCTypeOK
    /\ \A j, k \in 1 .. Len(freelist) : freelist[j] = freelist[k] => j = k
    /\ \A k \in 1 .. Len(freelist) : /\ freelist[k] <= freeptr
                                     /\ freelist[k] \notin markstart + 1 .. markend
    /\ markstart <= markend /\ markend <= freeptr

\* A collection is conservative, and no more than that: it keeps the cells that
\* words of the calling coroutine's stack lead to, through whole cells of the
\* used part and what earlier blocks have left in them, and makes every other
\* cell available again, however the exchange of mark-stack entries orders the
\* marking (as long as no offset in gc_sweep has wrapped).
CollectExact ==
    [][phase = "sweep" /\ ~ wrapped' =>
           Available' = Cell \ Retained(Roots(current))]_rvars

\* No cell that a coroutine which can still run may use is ever available for
\* allocation (as long as no offset in gc_sweep has wrapped).
ReachableKept ==
    phase = "idle" /\ ~ wrapped =>
        \A c \in live \ {cleanup} : Reachable(Roots(c)) \cap Available = {}

\* gc_mark: every step of a collection leaves less to do, so that it ends: a
\* cell is pushed only when it is unmarked, and exchanging entries repeats none.
\* The position behind the last word of a cell is left until its entry is popped.
LeftToMark ==
    [src : Cell \ marked, pos : 1 .. Words + 1]
    \cup UNION {[src : {e.src}, pos : e.pos .. WordsOf(e.src) + 1] : e \in Entries}
CollectShrinks ==
    [][phase = "mark" /\ phase' = "mark" =>
           LeftToMark' \subseteq LeftToMark /\ LeftToMark' # LeftToMark]_rvars
=============================================================================
