------------------------------ MODULE Regions ------------------------------
(***************************************************************************)
(* How the collector lays out its memory (gjduckgc/gc.h, GC_init and       *)
(* GC_malloc_index in gjduckgc/gc.c): one region of the address space for  *)
(* every size class, cells of that size from the first multiple of the     *)
(* size in it, and the arithmetic that leads from a requested size to a    *)
(* region and from any pointer back to the cell it points into.            *)
(*                                                                         *)
(* GC.tla has the life of the cells of one region.  Here cells are only    *)
(* taken from the unused end of the regions, and addresses are numbers.    *)
(***************************************************************************)
EXTENDS Naturals, Integers

CONSTANTS
    GC_UNIT,        \* the alignment
    Third,          \* GC_NUM_REGIONS / 3
    GC_REGION_SIZE,
    GC_MEMORY,      \* the address of the first region
    WordRange,      \* 2^64
    Requests        \* the sizes that the program asks for, headers included

ASSUME RegionsAssumption ==
    /\ {GC_UNIT, GC_REGION_SIZE, WordRange} \subseteq Nat \ {0}
    /\ Third \in Nat /\ Third > 1
    /\ GC_MEMORY \in Nat /\ (GC_MEMORY % GC_REGION_SIZE) = 0
    /\ Requests \subseteq Nat \ {0}

\* Addresses are words.
ASSUME AddressAssumption == GC_MEMORY + 3 * Third * GC_REGION_SIZE <= WordRange

GC_NUM_REGIONS     == 3 * Third
GC_BIG_UNIT        == Third * GC_UNIT
GC_HUGE_UNIT       == Third * GC_BIG_UNIT
GC_BIG_IDX_OFFSET  == Third
GC_HUGE_IDX_OFFSET == 2 * Third
Index              == 0 .. GC_NUM_REGIONS - 1

-----------------------------------------------------------------------------
(* Size classes *)

gc_index_unit(idx) == IF idx > GC_BIG_IDX_OFFSET
                      THEN IF idx > GC_HUGE_IDX_OFFSET THEN GC_HUGE_UNIT ELSE GC_BIG_UNIT
                      ELSE GC_UNIT
gc_size_unit(size) == IF size > GC_BIG_UNIT
                      THEN IF size > GC_HUGE_UNIT THEN GC_HUGE_UNIT ELSE GC_BIG_UNIT
                      ELSE GC_UNIT
gc_unit_offset(unit) == IF unit = GC_UNIT THEN 0
                        ELSE IF unit = GC_BIG_UNIT THEN GC_BIG_IDX_OFFSET ELSE GC_HUGE_IDX_OFFSET

\* The class of a size, as GC_realloc computes it ...
gc_size_index(size) == ((size - 1) \div gc_size_unit(size)) + gc_unit_offset(gc_size_unit(size))

\* Mutant: the size is not decremented.
IndexOfNoDecrement(size) ==
    IF size < GC_BIG_UNIT THEN size \div GC_UNIT
    ELSE IF size < GC_HUGE_UNIT THEN GC_BIG_IDX_OFFSET + (size \div GC_BIG_UNIT)
    ELSE GC_HUGE_IDX_OFFSET + (size \div GC_HUGE_UNIT)

\* ... and as GC_malloc does.
IndexOf(size) ==
    IF size - 1 < GC_BIG_UNIT THEN (size - 1) \div GC_UNIT
    ELSE IF size - 1 < GC_HUGE_UNIT THEN GC_BIG_IDX_OFFSET + ((size - 1) \div GC_BIG_UNIT)
    ELSE GC_HUGE_IDX_OFFSET + ((size - 1) \div GC_HUGE_UNIT)

-----------------------------------------------------------------------------
(* Regions, as GC_init sets them up *)

RegionBase(idx) == GC_MEMORY + idx * GC_REGION_SIZE
CellSize(idx) == (idx - gc_unit_offset(gc_index_unit(idx))) * gc_index_unit(idx) + gc_index_unit(idx)
inv_size(idx) == ((WordRange - 1) \div CellSize(idx)) + 1

\* Mutant: the first cell is at the base of the region.
startptrBase(idx) == RegionBase(idx)

startptr(idx) == LET offset == RegionBase(idx) % CellSize(idx)
                 IN  IF offset = 0 THEN RegionBase(idx) ELSE RegionBase(idx) + CellSize(idx) - offset
endptr(idx) == startptr(idx) + GC_REGION_SIZE

\* The region of a pointer, and the number of the cell it points into: a
\* multiplication by the inverse of the size, of which the high word is taken.
gc_index(ptr) == (ptr \div GC_REGION_SIZE) - (GC_MEMORY \div GC_REGION_SIZE)
gc_objidx(ptr) == (inv_size(gc_index(ptr)) * ptr) \div WordRange
gc_base(ptr) == gc_objidx(ptr) * CellSize(gc_index(ptr))

-----------------------------------------------------------------------------
(* Allocation *)

VARIABLES
    freeptr,    \* of every region
    block,      \* the last block: its address and the size asked for
    pc          \* "run", "abort" or "panic"

vars == <<freeptr, block, pc>>

NoBlock == [ptr |-> 0, size |-> 0]

Init ==
    /\ freeptr = [idx \in Index |-> startptr(idx)]
    /\ block = NoBlock /\ pc = "run"

\* gcAlloc: GC_malloc, when the freelist is empty and nothing is to be swept.
gcAlloc(size) ==
    /\ pc = "run"
    /\ LET idx == IndexOf(size)
       IN  /\ idx \in Index /\ freeptr[idx] < endptr(idx)
           /\ block' = [ptr |-> freeptr[idx], size |-> size]
           /\ freeptr' = [freeptr EXCEPT ![idx] = @ + CellSize(idx)]
    /\ UNCHANGED pc

\* No size class is large enough.
TooLarge(size) ==
    /\ pc = "run" /\ IndexOf(size) >= GC_NUM_REGIONS
    /\ pc' = "abort"
    /\ UNCHANGED <<freeptr, block>>

\* The region is used up; GC_malloc returns NULL and gcAlloc panics.
RegionFull(size) ==
    /\ pc = "run"
    /\ LET idx == IndexOf(size)
       IN  /\ idx \in Index /\ freeptr[idx] >= endptr(idx)
           /\ freeptr' = [freeptr EXCEPT ![idx] = @ + CellSize(idx)]
    /\ pc' = "panic"
    /\ UNCHANGED block

Ended == pc # "run" /\ UNCHANGED vars

Next == (\E size \in Requests : gcAlloc(size) \/ TooLarge(size) \/ RegionFull(size)) \/ Ended
Spec == Init /\ [][Next]_vars

-----------------------------------------------------------------------------
(* Properties *)

TypeOK ==
    /\ freeptr \in [Index -> Nat]
    /\ block \in [ptr : Nat, size : Nat]
    /\ pc \in {"run", "abort", "panic"}

\* GC_malloc: the block is at the start of a cell that holds what was asked
\* for, is aligned, and GC_realloc finds the same class for its size.
BlockHolds ==
    block # NoBlock =>
        /\ block.size <= CellSize(IndexOf(block.size))
        /\ (block.ptr % CellSize(IndexOf(block.size))) = 0
        /\ (block.ptr % GC_UNIT) = 0
        /\ gc_size_index(block.size) = IndexOf(block.size)

\* The cells that have been taken from a region.
CellsOf(idx) == {c \in startptr(idx) .. freeptr[idx] - 1 : ((c - startptr(idx)) % CellSize(idx)) = 0}
Bytes(idx, c) == c .. c + CellSize(idx) - 1
Inside(idx, c) == c + CellSize(idx) <= RegionBase(idx + 1)

\* The inverse is rounded up.  The error, which grows with the address, carries
\* a pointer into the last Slack bytes of a cell over to the next one; there are
\* none for a size that divides 2^64, and always fewer than the cell has.
Slack(idx) == (RegionBase(idx + 1) * (inv_size(idx) * CellSize(idx) - WordRange)) \div WordRange

\* gc_mark and GC_base: from a pointer into a cell, up to the bytes that the
\* rounding of the inverse loses, the region, the number of the cell and its
\* address are found.
PointersFindCells ==
    \A idx \in Index : \A c \in CellsOf(idx) :
        Inside(idx, c) =>
            \A p \in c .. c + CellSize(idx) - 1 - Slack(idx) :
                /\ gc_index(p) = idx
                /\ gc_base(p) = c
                /\ startptr(idx) + (gc_objidx(p) - gc_objidx(startptr(idx))) * CellSize(idx) = c
=============================================================================
