CONSTANTS
    h1 = h1  h2 = h2  h3 = h3
    o1 = o1  o2 = o2  w1 = w1  w2 = w2  q1 = q1
    Arg = Arg  Target = Target
    Handles = {h1, h2, Arg, Target}
    Display = Display
    Objects = {o1, o2}
    Wrappers = {}
    Queues = {q1}
    Destroyable = {o1, o2}
    None = None
    Careless = {}
    MaxCounter = 6
    Habits = {"queued_factory"}
    MaxEvents = 1
SPECIFICATION EvSpec
INVARIANT QueueRetained
