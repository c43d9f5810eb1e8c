SPECIFICATION FairSpec
CONSTANTS
    Actors = {a1}
    Workers = {w1, w2}
    Clients = {main}
    Messages = {m1, m2}
    NoActor = NoActor
    NoMsg = NoMsg
    StoreBuffering = FALSE
INVARIANTS
    NoStrandedMessage
    DrainedAtExit
PROPERTIES
    EveryMessageHandled
