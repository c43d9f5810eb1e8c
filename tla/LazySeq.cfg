SPECIFICATION FairSpec
CONSTANTS
    Threads = {t1, t2}
    l1 = l1
    l2 = l2
    l3 = l3
    Seqs <- MCSeqs
    Pure = {l2}
    Reads <- SelfReading
    Values = {v1, v2}
    None = None
    Raised = Raised
    MaxDepth = 3
INVARIANTS ThunkRunsOnce OneValue
PROPERTIES EveryReadEnds
CHECK_DEADLOCK FALSE
