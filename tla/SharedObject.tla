---------------------------- MODULE SharedObject ----------------------------
(***************************************************************************)
(* What proxy_t promises about Wayland objects (README.md, "Each interface *)
(* is represented by a class..."): an object exists as long as copies of   *)
(* its C++ handle exist, and is destroyed once there are none.  A copy is  *)
(* only ever made from a copy, so an object that has lost its last holder  *)
(* can never be taken up again; it is disposed of exactly once and does    *)
(* not stay behind for ever.  One call may move several objects at once    *)
(* (a swap of two handles, a new object that takes a copy of another), so  *)
(* a step of the whole is a step or a stutter of each object.              *)
(* ProxyEvents, ServerDisplay and EventLoop are shown to implement this.   *)
(***************************************************************************)
CONSTANTS
    Objects,
    Holders      \* the variables and members that may hold an object

VARIABLES
    holders,     \* object |-> those that hold it
    exists       \* the objects created and not yet disposed of

vars == <<holders, exists>>

TypeOK == holders \in [Objects -> SUBSET Holders] /\ exists \in SUBSET Objects

Init == holders = [o \in Objects |-> {}] /\ exists = {}

Stays(o) == (o \in exists') = (o \in exists)

\* o is created for its first holder.
Create(o) == /\ o \notin exists /\ o \in exists'
             /\ \E h \in Holders : holders'[o] = {h}

\* A holder makes a copy of itself.
Share(o) == /\ o \in exists /\ holders[o] # {}
            /\ \E h \in Holders \ holders[o] : holders'[o] = holders[o] \cup {h}
            /\ Stays(o)

\* A holder hands o on and keeps no copy.
Pass(o) == /\ o \in exists
           /\ \E g \in holders[o], h \in Holders \ holders[o] :
                 holders'[o] = (holders[o] \ {g}) \cup {h}
           /\ Stays(o)

\* A holder lets go.
Drop(o) == /\ o \in exists
           /\ \E h \in holders[o] : holders'[o] = holders[o] \ {h}
           /\ Stays(o)

\* o is destroyed: only without holders.
Dispose(o) == /\ o \in exists /\ o \notin exists'
              /\ holders[o] = {} /\ holders'[o] = {}

Stutter(o) == holders'[o] = holders[o] /\ Stays(o)

Next == \A o \in Objects :
            Create(o) \/ Share(o) \/ Pass(o) \/ Drop(o) \/ Dispose(o) \/ Stutter(o)

\* Without holders only Dispose is left; it happens.
Live == \A o \in Objects : (o \in exists /\ holders[o] = {}) ~> (o \notin exists)

Spec == Init /\ [][Next]_vars /\ Live
=============================================================================
