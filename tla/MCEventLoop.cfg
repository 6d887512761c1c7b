SPECIFICATION Spec
CONSTANTS
    h1 = h1  h2 = h2  v1 = v1  v2 = v2  v3 = v3
    fd = fd  idle = idle  timer = timer  own = own
    Handles = {h1, h2}
    SourceHandles = {v1, v2, v3}
    Immortal = {v3}
    Loops = {own}
    Default = Default
    Sources = {fd, idle}
    KindOf <- MCKindOf
    None = None
    Null = Null
    Habits = {}
INVARIANTS LoopCounted NothingFreedInUse RemovedOnce
PROPERTIES EverySourceRuns ImplementsSharedObject
CHECK_DEADLOCK FALSE
