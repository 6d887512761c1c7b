\* The client may have used all its ids and destroyed all its objects.
SPECIFICATION Spec
CONSTANTS
  Interfaces <- MCInterfaces
  Globals <- MCGlobals
  Protocol <- MCProtocol
  DataOf <- MCDataOf
  Releases = {1, 2}
  MaxObjects = 3
  MaxInFlight = 2
  Habits = {"trust_can"}
INVARIANT EventsKnown
CHECK_DEADLOCK FALSE
