SPECIFICATION SweepSpec
CONSTANTS
    GC_UNIT = 2
    Third = 3
    GC_REGION_SIZE = 48
    GC_MEMORY = 192
    WordRange = 1024
    Requests <- LargeSizes
    GC_PAGESIZE = 4
    OffsetRange = 48
INVARIANT UsedPartKeepsMarked
