CONSTANTS
    File <- MCFile
    Root <- MCRoot
    Name <- MCName
    Resolves <- MCResolves
    Texts <- MCTexts
    Missing = Missing
    Broken = Broken
    Unread = Unread
    Inputs <- MCInputs
    Builtin <- MCBuiltin
    Lit <- MCLit
    main = main
    mid = mid
    low = low
    base = base
    T = T
    U = U
    int = int
    string = string
    MaxSchema = 8
    MaxInputs = 2
SPECIFICATION FairSpec
INVARIANTS ImportsAreSound OwnDeclared CompiledOnce MeansWhatItSays
PROPERTIES NoForeignDefinition CompilationEnds
CHECK_DEADLOCK FALSE
