SPECIFICATION FairSpec
CONSTANTS
    Threads = {t1, t2}
    Runner = Runner
    Files <- MCFiles
    Scripts <- MCScripts
    PipeCap = 1
    ReadMax = 1
INVARIANTS SummaryExact ReaderOutlivesChild CaptureComplete
PROPERTY RunnerEnds
CHECK_DEADLOCK FALSE
