SPECIFICATION FairSpec
CONSTANTS
    Threads = {t1, t2}
    Ops = {o1, o2, o3}
    Keys = {k1, k2}
    Values <- MCValues
    InitialValue = v0
    F <- MCF
    Calls <- MCCalls
    v0 = v0
    v1 = v1
    k1 = k1
    k2 = k2
    NoCall = NoCall
    NoValue = NoValue
    Pending = Pending
    Thrown = Thrown
    TheAtom = TheAtom
INVARIANTS WatchSeesUpdate NotifiesRegistered
PROPERTIES ImplementsAtomicReference EveryCallReturns
