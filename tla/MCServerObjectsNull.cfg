SPECIFICATION Spec
CONSTANTS
    Client = c
    Resources = {r1, r2}
    TheirResources = {wl_display, registry}
    WlDisplay = wl_display
    Handles = {h1}
    MaxBlocks = 6
    None = None
    Null = Null
    Theirs = Theirs
    Habits = {"null_object"}
INVARIANT EventsNeedBlock
CHECK_DEADLOCK FALSE
