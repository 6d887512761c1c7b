CONSTANTS
    h1 = h1  h2 = h2  h3 = h3  h4 = h4
    o1 = o1  o2 = o2  w1 = w1  w2 = w2  q1 = q1
    Handles = {h1, h2, h3}
    Display = Display
    Objects = {o1, o2}
    Wrappers = {w1, w2}
    Queues = {q1}
    Destroyable = {o1}
    None = None
    Careless = {}
    MaxCounter = 6
SPECIFICATION Spec
SYMMETRY HandleSymmetry
INVARIANTS TypeOK Counted NoDangling DestroyedOnce QueueRetained DependantsFirst
PROPERTY ForeignUntouched
