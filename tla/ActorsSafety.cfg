SPECIFICATION Spec
CONSTANTS
    Actors = {a1, a2}
    Workers = {w1, w2}
    Clients = {main, fut}
    Messages = {m1, m2, m3}
    NoActor = NoActor
    NoMsg = NoMsg
    StoreBuffering = TRUE
SYMMETRY Symmetry
INVARIANTS
    TypeOK
    SingleMethod
    RealizedIsStored
    NoSleepThroughWork
PROPERTIES
    ImplementsActor
