SPECIFICATION RuntimeSpec
CONSTANTS
    Coro = {c1, c2}
    Stack = {s1, s2, s3}
    NULL = NULL
    Cells = 3
    Words = 1
    Slots = 1
    FreelistLen = 2
    MaxMarkPush = 0
    OffsetRange = 3
INVARIANT ReachableKept
