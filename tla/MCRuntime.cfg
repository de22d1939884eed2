SPECIFICATION BusySpec
CONSTANTS
    Coro = {c1}
    Stack = {s1, s2}
    NULL = NULL
    Cells = 3
    Words = 1
    Slots = 3
    FreelistLen = 2
    MaxMarkPush = 0
    OffsetRange = 4
SYMMETRY AddressSymmetry
INVARIANTS HandedOutOnce ReachableKept
PROPERTIES CollectExact CollectShrinks
