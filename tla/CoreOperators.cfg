SPECIFICATION Spec
CONSTANTS
    Threads = {d, e, c}
    Operators = {plus, minus}
    Values = {core, f, g}
    Core = core
SYMMETRY Symmetry
INVARIANTS Conservative CallIsCurrent
