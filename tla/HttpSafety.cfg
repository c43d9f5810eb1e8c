SPECIFICATION Spec
CONSTANTS
    Conns = {c1, c2}
    Callers = {t1}
    Main = main
    None = none
    Platforms = {"linux", "macos", "windows"}
    StartedByMain = FALSE
    ReadTimeouts = {TRUE}
SYMMETRY Symmetric
INVARIANTS NotReleasedInUse PinnedWhileServing ClosedAtEnd
PROPERTY HandlerKeepsSocket
