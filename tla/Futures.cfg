SPECIFICATION Spec
CONSTANTS
    Main = Main
    Workers = {w1}
    Tasks = {x1, x2}
    Promises = {p1}
    Values = {v1, v2}
    Nil = Nil
    NoError = NoError
    Pending = Pending
    MaxElements = 2
SYMMETRY Symmetry
CHECK_DEADLOCK FALSE
INVARIANTS DerefExact PmapExact OneDelivery JoinedAtExit WaitsOnlyForTasks
