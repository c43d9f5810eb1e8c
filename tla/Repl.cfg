SPECIFICATION Spec
CONSTANTS
    Letters = {"a", "b", "x", "y", "z", "if", "inc", "list", "quit", "time", "load", "nil", "Inf", "fn*", "p", "rest", "__", "quote", "clojure.core/", "user/", "__auto__", "deref", "vector", "hash-map", "hash-set", "concat", "seq", "apply"}
    Open <- MCOpen
    ReadOne <- readOne
    ReadForms <- MCReadForms
    Balance <- scanBalance
    ReadAll <- readAll
    ReadFirst <- readFirstForm
    Specials <- MCSpecials
    Builtins <- MCBuiltins
    Redefined <- MCRedefined
    Keys <- MCKeys
    MaxKeys = 4
    Files <- MCFiles
    Pastes <- MCPastes
    Globals <- MCGlobals
    Samples <- MCSamples
INVARIANTS BalanceAgrees RunsWhatWasTyped PrintedReadsBack SyntaxQuoteBuilds
CHECK_DEADLOCK FALSE
