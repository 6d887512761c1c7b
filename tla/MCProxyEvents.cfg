CONSTANTS
    h1 = h1  h2 = h2  h3 = h3
    o1 = o1  o2 = o2  w1 = w1  w2 = w2  q1 = q1
    Arg = Arg  Target = Target
    Handles = {h1, h2, Arg, Target}
    Display = Display
    Objects = {o1, o2}
    Wrappers = {w1, w2}
    Queues = {}
    Destroyable = {o1}
    None = None
    Careless = {}
    MaxCounter = 6
    Habits = {"their_objects"}
    MaxEvents = 2
SPECIFICATION EvSpec
INVARIANTS NoCompositorLeak HandlerKeepsObjects
PROPERTY ImplementsSharedObject
