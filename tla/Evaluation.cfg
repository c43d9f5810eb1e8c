SPECIFICATION Spec
CONSTANTS
    SmallMax = 15
    Half = 4
    Members <- MCMembers
    IsA <- MCIsA
    Aliases <- MCAliases
    Expand <- macroexpandTopLevel
    Compile <- compileTopLevel
    Advance <- Step
    Means <- EvProgram
    Programs <- MCPrograms
    CoreSource <- MCCoreSource
    Builtins <- MCBuiltins
    Objects <- MCObjects
INVARIANTS
    CompiledMeansSame
    NoClearedOperand
    StackWithinBound
    ForetoldRight
    CollectionsAgree
