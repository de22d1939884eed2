SPECIFICATION FairSpec
CONSTANTS
    Coro = {c1, c2, c3, c4}
    Stack = {s1, s2, s3, s4, s5}
    NULL = NULL
INVARIANTS ReadyListOK OwnedOnce StackSafe
PROPERTIES ImplementsFifo EveryCoroutineRuns
