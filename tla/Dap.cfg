SPECIFICATION FairSpec
CONSTANTS
    Threads = {main, w}
    Main = main
    Places <- TwoLines
    DepthOf <- Depths
    Library <- Core
    Resumes = {"continue", "in", "over", "out"}
    MaxRequests = 2
    Hangup = TRUE
INVARIANTS AnsweredOnce StopsUntilResumed CacheFresh
PROPERTIES DisconnectEnds
CHECK_DEADLOCK FALSE
