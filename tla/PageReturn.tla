----------------------------- MODULE PageReturn -----------------------------
(***************************************************************************)
(* The loop of gc_sweep (gjduckgc/gc.c) over the cells of a region, from   *)
(* the last one down to the middle: it gives the unmarked end of the used  *)
(* part back to the region and the whole pages of long runs of unmarked    *)
(* cells back to the operating system.  GC.tla has what a sweep does to    *)
(* the region as one step; here is how it gets there, with the addresses   *)
(* of Regions.tla.                                                         *)
(*                                                                         *)
(* The sweep treats one region after the other, so one of them is in use   *)
(* when it begins.  Offsets are uint32_t and freesize is an int32_t: in a  *)
(* region of 2^32 bytes that is full both wrap.                            *)
(***************************************************************************)
EXTENDS Regions, FiniteSetsExt

CONSTANTS
    GC_PAGESIZE,
    OffsetRange     \* 2^32: offsets are uint32_t

ASSUME PageAssumption == {GC_PAGESIZE, OffsetRange} \subseteq Nat \ {0}

VARIABLES
    at,             \* "alloc": before the sweep, "loop" or "done"
    i, last,        \* the region, and its last cell before the sweep
    marked,         \* its marked cells, counted from 0
    returning,      \* the sweep is one that returns memory
    ptridx, freesize, start,
    returned        \* the bytes given back to the operating system

sweepVars == <<at, i, last, marked, returning, ptridx, freesize, start, returned>>
allVars == <<vars, sweepVars>>

SweepInit ==
    /\ Init
    /\ at = "alloc" /\ i = 0 /\ last = 0 /\ marked = {} /\ returning = FALSE
    /\ ptridx = 0 /\ freesize = 0 /\ start = FALSE /\ returned = {}

Allocate == at = "alloc" /\ Next /\ UNCHANGED sweepVars

\* gc_sweep comes to a region that is in use, after any marking.  Its last cell
\* is taken to end in the region.
SweepRegion(idx) ==
    /\ at = "alloc" /\ pc = "run"
    /\ freeptr[idx] # startptr(idx) /\ \A j \in Index \ {idx} : freeptr[j] = startptr(j)
    /\ Inside(idx, freeptr[idx] - CellSize(idx))
    /\ i' = idx
    /\ last' = gc_objidx(freeptr[idx] - CellSize(idx)) - gc_objidx(startptr(idx))
    /\ marked' \in SUBSET (0 .. last') /\ returning' \in BOOLEAN
    /\ ptridx' = last' /\ freesize' = 0 /\ start' = TRUE /\ at' = "loop"
    /\ UNCHANGED <<vars, returned>>

size == CellSize(i)
target == last \div 2

\* The conversion to int32_t.
ToInt32(n) == ((n + (OffsetRange \div 2)) % OffsetRange) - (OffsetRange \div 2)

\* Where the run of unmarked cells above ptridx begins.
Offset == (size * (ptridx + 1)) % OffsetRange

\* The end of a run of unmarked cells.
AtStop == ptridx < target \/ ptridx \in marked

\* Mutant: the run is taken to begin at a page.
ReturnedPagesUnrounded ==
    LET length == freesize - (freesize % GC_PAGESIZE)
        from   == startptr(i) + Offset - (Offset % GC_PAGESIZE)
    IN  IF (from % GC_PAGESIZE) = 0 THEN from .. from + length - 1 ELSE {}

\* The pages of the run; madvise does nothing for an address inside a page.
ReturnedPages ==
    LET diff   == IF (Offset % GC_PAGESIZE) = 0 THEN 0 ELSE GC_PAGESIZE - (Offset % GC_PAGESIZE)
        length == (freesize - diff) - ((freesize - diff) % GC_PAGESIZE)
        from   == startptr(i) + Offset + diff
    IN  IF (from % GC_PAGESIZE) = 0 THEN from .. from + length - 1 ELSE {}

Free ==
    /\ at = "loop" /\ ~AtStop
    /\ freesize' = ToInt32(freesize + size)
    /\ ptridx' = ptridx - 1
    /\ UNCHANGED <<vars, at, i, last, marked, returning, start, returned>>

\* Mutant: the end of a run is not passed.
StopInPlace ==
    /\ at = "loop" /\ AtStop
    /\ freesize' = 0 /\ start' = FALSE
    /\ at' = IF (start /\ ~returning) \/ ptridx < target THEN "done" ELSE at
    /\ UNCHANGED <<vars, i, last, marked, returning, ptridx, returned>>

Stop ==
    /\ at = "loop" /\ AtStop
    /\ returned' = IF freesize >= 3 * GC_PAGESIZE THEN returned \cup ReturnedPages ELSE returned
    /\ freesize' = 0 /\ start' = FALSE
    /\ freeptr' = IF start THEN [freeptr EXCEPT ![i] = startptr(i) + Offset] ELSE freeptr
    /\ IF (start /\ ~returning) \/ ptridx < target THEN at' = "done" /\ UNCHANGED ptridx
       ELSE ptridx' = ptridx - 1 /\ UNCHANGED at
    /\ UNCHANGED <<block, pc, i, last, marked, returning>>

Swept == at = "done" /\ UNCHANGED allVars

SweepNext == Allocate \/ (\E idx \in Index : SweepRegion(idx)) \/ Free \/ Stop \/ Swept

\* The loop is straight-line code of the running thread.
SweepSpec == SweepInit /\ [][SweepNext]_allVars /\ WF_allVars(Free \/ Stop)

-----------------------------------------------------------------------------
(* Properties *)

\* The types; ptridx is at least -1, where the loop ends if nothing is marked.
SweepTypeOK ==
    /\ TypeOK
    /\ at \in {"alloc", "loop", "done"} /\ i \in Index /\ last \in Nat
    /\ marked \subseteq 0 .. last /\ {returning, start} \subseteq BOOLEAN
    /\ ptridx \in -1 .. last /\ freesize \in Int /\ returned \subseteq Nat

\* gc_sweep: only whole pages are given back, and no byte of them is in a cell
\* that is marked or was never in use: runs begin and end inside pages, which
\* they share with live cells.
ReturnedIsDead ==
    /\ SweepTypeOK
    /\ \A b \in returned :
          /\ (b - startptr(i)) \div size \in (0 .. last) \ marked
          /\ \A c \in 0 .. GC_PAGESIZE - 1 : b - (b % GC_PAGESIZE) + c \in returned

\* gc_sweep: the loop, which only its two breaks leave, comes to an end, and has
\* then cut the used part to what GC.tla says (SweepTo): half of what it had, or
\* up to the last marked cell, with an offset that wraps when that is the end of
\* a full region.
Cut == freeptr[i] = startptr(i) + ((size * Max({last \div 2} \cup {c + 1 : c \in marked})) % OffsetRange)
SweepCutsAsGC == at = "loop" ~> (at = "done" /\ Cut)

\* gc_mark takes what lies from freeptr on for "memory that hasn't been
\* allocated yet, or cannot be collected yet": a sweep leaves no marked cell there.
UsedPartKeepsMarked == at = "done" => \A c \in marked : startptr(i) + size * c < freeptr[i]
=============================================================================
