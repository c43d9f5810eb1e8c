SPECIFICATION Spec
CONSTANTS
    Actors = {a1}
    Workers = {w1}
    Clients = {main}
    Messages = {m1, m2}
    NoActor = NoActor
    NoMsg = NoMsg
    StoreBuffering = TRUE
INVARIANTS
    NoStrandedMessage
