SPECIFICATION Spec
CONSTANTS
    None = None
    Commands <- MCCommands
    Documents <- MCDocuments
    Provided <- MCProvided
    LogOfZero = 0
    WideMask = {}
INVARIANTS CommandUnderstood OutputsWhole NamesResolve FlagsAreSets
CHECK_DEADLOCK FALSE
