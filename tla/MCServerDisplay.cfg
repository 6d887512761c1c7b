CONSTANTS
    d1 = d1  d2 = d2  k1 = k1  k2 = k2  k3 = k3  g1 = g1  g2 = g2  c1 = c1  c2 = c2
    Handles = {d1, d2}
    GlobalHandles = {k1, k2, k3}
    Globals = {g1, g2}
    Clients = {c1, c2}
    None = None
    Habits = {}
SPECIFICATION Spec
CHECK_DEADLOCK FALSE
INVARIANTS DisplayCounted TornDownOnce GlobalCounted NothingFreedInUse ClientsGoFirst
PROPERTY ImplementsSharedObject
