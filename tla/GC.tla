--------------------------------- MODULE GC ---------------------------------
(***************************************************************************)
(* The garbage collector of the Aike runtime: runtime/gc.cpp on top of the *)
(* conservative mark-sweep collector in gjduckgc/gc.c.                     *)
(*                                                                         *)
(* The collector has one region per size class; a region is an array of    *)
(* equal cells with its own freelist, bump pointer and mark bits, and      *)
(* regions meet only in the marking of what cells point to.  One region is *)
(* modelled, with its cells numbered from 1, and a pointer anywhere into a *)
(* cell is that cell's number (gc_objidx), 0 being no pointer.             *)
(*                                                                         *)
(* The first word of a cell is never a pointer: it is the type or the      *)
(* count that gcNew and gcNewArray write, or the hidden link of a cell on  *)
(* the freelist.  The words modelled are those behind it.                  *)
(*                                                                         *)
(* This module has the operations, on top of the scheduler's state: they   *)
(* are calls made by the current coroutine, on its stack, and the          *)
(* collector knows no other stack.  Runtime.tla composes the two.          *)
(***************************************************************************)
EXTENDS Scheduler, Integers, FiniteSetsExt

CONSTANTS
    Cells,          \* cells in the region: GC_REGION_SIZE / region->size, or
                    \*   as many as gc_protect_memory gets memory for
    Words,          \* words of a cell behind its first one
    Slots,          \* words of a stack
    FreelistLen,    \* GC_FREELIST_LEN
    MaxMarkPush,    \* GC_MAX_MARK_PUSH
    OffsetRange     \* 2^32 / region->size, for a size that divides 2^32:
                    \*   offsets in gc_sweep are uint32_t.  For another size a
                    \*   wrapped offset is not the start of a cell; there the
                    \*   model stands for a region that ends below 2^32, and
                    \*   OffsetRange is above Cells (PageReturn.tla has the
                    \*   arithmetic of every size)

ASSUME GCAssumption ==
    /\ {Cells, Words, Slots, FreelistLen, OffsetRange} \subseteq Nat \ {0}
    /\ MaxMarkPush \in Nat

VARIABLES
    frames,         \* the words of every coroutine's stack and saved registers
    heap,           \* the words of every cell
    extent,         \* how many of a cell's words the block in it has; the
                    \*   rest of the cell keeps what an earlier block left
    freeptr,        \* cells 1 .. freeptr have been taken from the region
    freelist,       \* region->freelist, first to be allocated first
    markstart,      \* cells 1 .. markstart were searched for free ones, and
    markend,        \*   those up to markend are still to be
    marked,         \* the mark bits
    phase,          \* "idle", or the phase of the collection in progress
    markStack,      \* what gc_mark has still to scan, innermost first
    scanning,       \* what gc_mark scans: a cell (0: the stack) from a word on
    pushed,         \* gc_mark's counter of the same name
    wrapped         \* history: an offset in gc_sweep has wrapped

heapVars  == <<freeptr, freelist, markstart, markend, marked>>
markVars  == <<markStack, scanning, pushed>>
gcVars    == <<frames, heap, extent, heapVars, phase, markVars, wrapped>>

Cell      == 1 .. Cells
Pointer   == 0 .. Cells
Scan      == [src : Pointer, pos : Nat]
NoWords   == [w \in 1 .. Words |-> 0]
NoSlots   == [i \in 1 .. Slots |-> 0]
NoScan    == [src |-> 0, pos |-> 1]

GCTypeOK ==
    /\ frames \in [Coro -> [1 .. Slots -> Pointer]]
    /\ heap \in [Cell -> [1 .. Words -> Pointer]]
    /\ extent \in [Cell -> 0 .. Words]
    /\ freeptr \in 0 .. Cells
    /\ freelist \in Seq(Cell)
    /\ markstart \in Pointer
    /\ markend \in Pointer
    /\ marked \subseteq Cell
    /\ phase \in {"idle", "mark", "sweep"}
    /\ markStack \in Seq(Scan)
    /\ scanning \in Scan
    /\ pushed \in Nat
    /\ wrapped \in BOOLEAN

\* GC_init, called by gcInit, which also disables collection: GC_malloc never
\* collects on its own account.
GCInit ==
    /\ frames = [c \in Coro |-> NoSlots]
    /\ heap = [c \in Cell |-> NoWords]
    /\ extent = [c \in Cell |-> 0]
    /\ freeptr = 0
    /\ freelist = <<>>
    /\ markstart = 0
    /\ markend = 0
    /\ marked = {}
    /\ phase = "idle"
    /\ markStack = <<>>
    /\ scanning = NoScan
    /\ pushed = 0
    /\ wrapped = FALSE
-----------------------------------------------------------------------------
(* Allocation: gcNew, gcNewArray, gcAlloc, GC_malloc_index.                *)

\* The unmarked cells that a search of the mark bits meets up to cell c.
UnmarkedTo(c) == {d \in markstart + 1 .. c : d \notin marked}

\* The lazy sweep of GC_malloc_index: thread up to FreelistLen unmarked cells
\* on the freelist, the last one found first.
Found == {c \in UnmarkedTo(markend) : Cardinality(UnmarkedTo(c)) <= FreelistLen}
SearchedTo == IF Cardinality(Found) < FreelistLen THEN markend ELSE Max(Found)
Threaded == [k \in 1 .. Cardinality(Found) |->
                CHOOSE c \in Found : Cardinality({d \in Found : d >= c}) = k]

\* The search resets nothing and goes on where the previous one stopped.
FreelistAfterSearch == IF freelist # <<>> THEN freelist ELSE Threaded
MarkstartAfterSearch == IF freelist # <<>> THEN markstart ELSE SearchedTo

\* gcNew and gcNewArray write the header and clear the n words asked for, not
\* the rest of the cell, and the address goes to slot i of the stack.
Deliver(cell, i) ==
    /\ \E n \in 0 .. Words :
          /\ heap' = [heap EXCEPT ![cell] = [w \in 1 .. Words |-> IF w <= n THEN 0 ELSE @[w]]]
          /\ extent' = [extent EXCEPT ![cell] = n]
    /\ frames' = [frames EXCEPT ![current][i] = cell]

\* From the freelist, after a search if it was empty.
AllocFromFreelist(i) ==
    /\ phase = "idle"
    /\ FreelistAfterSearch # <<>>
    /\ Deliver(Head(FreelistAfterSearch), i)
    /\ freelist' = Tail(FreelistAfterSearch)
    /\ markstart' = MarkstartAfterSearch
    /\ UNCHANGED <<freeptr, markend, marked, phase, markVars, wrapped>>

\* From the part of the region that has not been used.
AllocFromRegion(i) ==
    /\ phase = "idle"
    /\ FreelistAfterSearch = <<>>
    /\ freeptr < Cells
    /\ Deliver(freeptr + 1, i)
    /\ freeptr' = freeptr + 1
    /\ markstart' = MarkstartAfterSearch
    /\ UNCHANGED <<freelist, markend, marked, phase, markVars, wrapped>>

\* The region or the memory is full: GC_malloc returns NULL, and gcAlloc panics.
AllocFails ==
    /\ phase = "idle"
    /\ FreelistAfterSearch = <<>>
    /\ freeptr = Cells
-----------------------------------------------------------------------------
(* The program's use of pointers (code generated by the compiler).         *)

Roots(c) == {frames[c][i] : i \in 1 .. Slots}

\* Overwrite a slot with a copy of another, with a word of a block that it
\* can reach, or with no pointer.
Assign(i) ==
    /\ phase = "idle"
    /\ \E p \in Pointer :
          /\ \/ p \in {0} \cup Roots(current)
             \/ \E c \in Roots(current) \ {0} : \E w \in 1 .. extent[c] : p = heap[c][w]
          /\ frames' = [frames EXCEPT ![current][i] = p]
    /\ UNCHANGED <<heap, extent, heapVars, phase, markVars, wrapped>>

\* Store a slot into a word of a block.
StoreWord(i, j, w) ==
    /\ phase = "idle"
    /\ frames[current][j] # 0
    /\ w <= extent[frames[current][j]]
    /\ heap' = [heap EXCEPT ![frames[current][j]][w] = frames[current][i]]
    /\ UNCHANGED <<frames, extent, heapVars, phase, markVars, wrapped>>
-----------------------------------------------------------------------------
(* Collection: gcCollect, GC_collect.                                      *)

\* Fault: gc_mark_init does not clear the mark bits.
CollectBeginKeepsMarks ==
    /\ phase = "idle"
    /\ phase' = "mark"
    /\ markStack' = <<>>
    /\ scanning' = NoScan
    /\ pushed' = 0
    /\ UNCHANGED <<frames, heap, extent, heapVars, wrapped>>

\* gc_mark_init clears the mark bits, and gc_mark starts with the only root,
\* the stack that GC_collect itself runs on: the runtime registers no others.
CollectBegin ==
    /\ phase = "idle"
    /\ phase' = "mark"
    /\ marked' = {}
    /\ markStack' = <<>>
    /\ scanning' = NoScan
    /\ pushed' = 0
    /\ UNCHANGED <<frames, heap, extent, freeptr, freelist, markstart, markend, wrapped>>

WordsOf(src) == IF src = 0 THEN Slots ELSE Words
WordAt(src, pos) == IF src = 0 THEN frames[current][pos] ELSE heap[src][pos]
ScanEnd == WordsOf(scanning.src)
ScanWord == WordAt(scanning.src, scanning.pos)
ScanRest == [scanning EXCEPT !.pos = @ + 1]
NewScan == [src |-> ScanWord, pos |-> 1]

\* A word that is no pointer into the used part, or points to a marked cell.
MarkSkip ==
    /\ phase = "mark"
    /\ scanning.pos <= ScanEnd
    /\ ScanWord = 0 \/ ScanWord > freeptr \/ ScanWord \in marked
    /\ scanning' = ScanRest
    /\ UNCHANGED <<frames, heap, extent, heapVars, phase, markStack, pushed, wrapped>>

\* A word that points to an unmarked cell: mark it and push it.
MarkPush ==
    /\ phase = "mark"
    /\ scanning.pos <= ScanEnd
    /\ ScanWord \in 1 .. freeptr \ marked
    /\ pushed <= MaxMarkPush
    /\ marked' = marked \cup {ScanWord}
    /\ markStack' = <<NewScan>> \o markStack
    /\ scanning' = ScanRest
    /\ pushed' = pushed + 1
    /\ UNCHANGED <<frames, heap, extent, freeptr, freelist, markstart, markend, phase, wrapped>>

\* Fault: gc_mark goes on with the older entry and forgets the rest.
MarkExchangeLosesRest ==
    /\ phase = "mark"
    /\ scanning.pos <= ScanEnd
    /\ ScanWord \in 1 .. freeptr \ marked
    /\ pushed > MaxMarkPush
    /\ marked' = marked \cup {ScanWord}
    /\ LET stack == <<NewScan>> \o markStack IN
       /\ scanning' = stack[pushed + 1]
       /\ markStack' = [stack EXCEPT ![pushed + 1] = [ScanRest EXCEPT !.pos = Slots + Words]]
    /\ pushed' = 1
    /\ UNCHANGED <<frames, heap, extent, freeptr, freelist, markstart, markend, phase, wrapped>>

\* The same after many pushes: exchange the rest of what is being scanned with
\* an older entry and go on with that, to bound the breadth of the search.
MarkExchange ==
    /\ phase = "mark"
    /\ scanning.pos <= ScanEnd
    /\ ScanWord \in 1 .. freeptr \ marked
    /\ pushed > MaxMarkPush
    /\ marked' = marked \cup {ScanWord}
    /\ LET stack == <<NewScan>> \o markStack IN
       /\ scanning' = stack[pushed + 1]
       /\ markStack' = [stack EXCEPT ![pushed + 1] = ScanRest]
    /\ pushed' = 1
    /\ UNCHANGED <<frames, heap, extent, freeptr, freelist, markstart, markend, phase, wrapped>>

\* Fault: gc_mark reads the entry without stack++.
MarkPopKeeps ==
    /\ phase = "mark"
    /\ scanning.pos > ScanEnd
    /\ markStack # <<>>
    /\ scanning' = Head(markStack)
    /\ pushed' = 0
    /\ UNCHANGED <<frames, heap, extent, heapVars, phase, markStack, wrapped>>

\* Nothing left to scan here: pop the next entry.
MarkPop ==
    /\ phase = "mark"
    /\ scanning.pos > ScanEnd
    /\ markStack # <<>>
    /\ scanning' = Head(markStack)
    /\ markStack' = Tail(markStack)
    /\ pushed' = 0
    /\ UNCHANGED <<frames, heap, extent, heapVars, phase, wrapped>>

MarkEnd ==
    /\ phase = "mark"
    /\ scanning.pos > ScanEnd
    /\ markStack = <<>>
    /\ phase' = "sweep"
    /\ scanning' = NoScan
    /\ pushed' = 0
    /\ UNCHANGED <<frames, heap, extent, heapVars, markStack, wrapped>>

\* gc_sweep gives back the unmarked end of the used part, at most half of it.
SweepTo == Max({(freeptr - 1) \div 2} \cup {c \in marked : c <= freeptr})

\* Fault: gc_sweep keeps the freelist of before the collection.
SweepKeepsFreelist ==
    /\ phase = "sweep"
    /\ phase' = "idle"
    /\ IF freeptr = 0
       THEN UNCHANGED <<freeptr, markstart, markend, wrapped>>
       ELSE /\ freeptr' = SweepTo % OffsetRange
            /\ markstart' = 0
            /\ markend' = SweepTo % OffsetRange
            /\ wrapped' = (wrapped \/ SweepTo >= OffsetRange)
    /\ UNCHANGED <<frames, heap, extent, marked, freelist, markVars>>

\* gc_sweep: drop the freelist and let allocation search what is kept.  The new
\* end of the used part is computed from a 32-bit offset.
Sweep ==
    /\ phase = "sweep"
    /\ phase' = "idle"
    /\ IF freeptr = 0
       THEN UNCHANGED <<freeptr, freelist, markstart, markend, wrapped>>
       ELSE /\ freeptr' = SweepTo % OffsetRange
            /\ freelist' = <<>>
            /\ markstart' = 0
            /\ markend' = SweepTo % OffsetRange
            /\ wrapped' = (wrapped \/ SweepTo >= OffsetRange)
    /\ UNCHANGED <<frames, heap, extent, marked, markVars>>
-----------------------------------------------------------------------------
(* What the properties are stated with.                                    *)

\* What gc_mark has not finished scanning.
Entries == {scanning} \cup {markStack[k] : k \in 1 .. Len(markStack)}

\* The cells that the program can reach from a set of pointers.
Reachable(roots) ==
    LET Closed == {T \in SUBSET Cell :
                      /\ roots \subseteq T \cup {0}
                      /\ \A d \in T : \A w \in 1 .. extent[d] : heap[d][w] \in T \cup {0}}
    IN  {c \in Cell : \A T \in Closed : c \in T}

\* The cells of the used part that words lead to from a set of pointers,
\* whether they are the program's or what an earlier block has left.
Retained(roots) ==
    LET Used == 1 .. freeptr
        Closed == {T \in SUBSET Used :
                      /\ roots \cap Used \subseteq T
                      /\ \A d \in T : \A w \in 1 .. Words : heap[d][w] \in Used => heap[d][w] \in T}
    IN  {c \in Used : \A T \in Closed : c \in T}

\* The cells that allocation can still hand out.
Available ==
    {freelist[k] : k \in 1 .. Len(freelist)}
    \cup {c \in markstart + 1 .. markend : c \notin marked}
    \cup (freeptr + 1 .. Cells)
=============================================================================
