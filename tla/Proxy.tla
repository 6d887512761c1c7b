------------------------------- MODULE Proxy -------------------------------
(***************************************************************************)
(* The lifetime of client side Wayland objects: proxy_t, proxy_data_t and  *)
(* event_queue_t (src/wayland-client.cpp, include/wayland-client.hpp).     *)
(*                                                                         *)
(* libwayland owns a wl_proxy per object.  waylandpp hangs a reference     *)
(* counted proxy_data_t on its user data, and every proxy_t pointing to    *)
(* the object holds one reference.  A block may itself contain a proxy_t   *)
(* (wrapped_proxy) and an event_queue_t, so giving up one handle can       *)
(* destroy a chain: wrapper, wrapped object, display connection, queue.    *)
(*                                                                         *)
(* A SLOT is one proxy_t: a variable of the client (Handles), or the       *)
(* member wrapped_proxy of the block of a proxy wrapper, which is named by *)
(* that wrapper.  Only a proxy wrapper's block has a wrapped_proxy.        *)
(* Every handle is used by one thread at a time (C++ requires it);         *)
(* different handles are used by different threads, so all releases are    *)
(* cut into the steps other threads can observe.  Addresses are reused     *)
(* once the memory behind them is gone.                                    *)
(***************************************************************************)
EXTENDS Naturals, FiniteSets

CONSTANTS
    Handles,      \* proxy_t variables of the client
    Display,      \* the wl_display, seen as a wl_proxy
    Objects,      \* wl_proxys of protocol objects
    Wrappers,     \* wl_proxys made by wl_proxy_create_wrapper
    Queues,       \* wl_event_queues
    Destroyable,  \* the Objects whose interface has a request "destroy"
    None,         \* nullptr; as a queue: the default queue
    Careless,     \* usages beyond those the documentation allows, see below
    MaxCounter    \* bound on copies: counter is an unsigned int in the code

Proxies == {Display} \cup Objects \cup Wrappers
Slots   == Handles \cup Wrappers

(***************************************************************************)
(* A disciplined client has Careless = {}.  The others:                    *)
(*   "copy_over"     copy-assigns to a handle that holds an object         *)
(*   "copy_emptied"  copies a handle emptied by proxy_release()            *)
(*   "display_release"  calls proxy_release() on a display_t               *)
(*   "late_queue"    leaves the last reference of an event queue to the    *)
(*                   block of the last display_t or display wrapper        *)
(***************************************************************************)
Usages == {"copy_over", "copy_emptied", "display_release", "late_queue"}

ASSUME AddressAssumption ==
    /\ Display \notin Objects \cup Wrappers /\ Objects \cap Wrappers = {}
    /\ Handles \cap Wrappers = {}
    /\ None \notin Proxies \cup Queues
    /\ Destroyable \subseteq Objects
ASSUME UsageAssumption == Careless \subseteq Usages /\ MaxCounter \in Nat
ASSUME FiniteAssumption == IsFiniteSet(Handles) /\ IsFiniteSet(Wrappers)

VARIABLES
    proxy,        \* slot |-> proxy_t::proxy
    type,         \* slot |-> proxy_t::type
    stage,        \* slot |-> how far its proxy_release() has come
    ending,       \* slots released by the destructor, not by proxy_release()
    allocated,    \* proxies whose user data points to a proxy_data_t
    counter,      \* its counter
    queue,        \* its queue
    has_destroy_opcode,  \* the proxies with the flag set in their block
    live,         \* wl_proxys libwayland has not freed
    wlQueue,      \* the event queue libwayland puts a wl_proxy's events in
    resource,     \* objects the compositor keeps until a destroy request
    foreign,      \* the connection belongs to another library
    queues,       \* wl_event_queues that exist
    held          \* queues for which the client has an event_queue_t

slotVars  == <<proxy, type, stage, ending>>
dataVars  == <<allocated, counter, queue, has_destroy_opcode>>
wlVars    == <<live, wlQueue, resource, foreign>>
queueVars == <<queues, held>>
vars == <<slotVars, dataVars, wlVars, queueVars>>

WrapperTypes == {"standard", "display", "foreign", "proxy_wrapper"}

\* "last": this slot's decrement made the counter 0; "closed": the wl_proxy
\* is destroyed and the members of its block are being destructed.
Stages == {"idle", "last", "closed"}

TypeOK ==
    /\ proxy \in [Slots -> Proxies \cup {None}]
    /\ type \in [Slots -> WrapperTypes]
    /\ stage \in [Slots -> Stages]
    /\ ending \in SUBSET Slots
    /\ allocated \in SUBSET Proxies
    /\ counter \in [Proxies -> Nat]
    /\ queue \in [Proxies -> Queues \cup {None}]
    /\ has_destroy_opcode \in SUBSET Proxies
    /\ live \in SUBSET Proxies
    /\ wlQueue \in [Proxies -> Queues \cup {None}]
    /\ resource \in SUBSET Objects
    /\ foreign \in BOOLEAN
    /\ queues \in SUBSET Queues /\ held \in SUBSET queues

Init ==
    /\ proxy = [s \in Slots |-> None]
    /\ type = [s \in Slots |-> "standard"]
    /\ stage = [s \in Slots |-> "idle"]
    /\ ending = {}
    /\ allocated = {} /\ has_destroy_opcode = {}
    /\ counter = [p \in Proxies |-> 0]
    /\ queue = [p \in Proxies |-> None]
    /\ live = {} /\ resource = {}
    /\ wlQueue = [p \in Proxies |-> None]
    /\ foreign = FALSE
    /\ queues = {} /\ held = {}

-----------------------------------------------------------------------------
(* Helpers *)

Idle(s)  == stage[s] = "idle"
Empty(s) == proxy[s] = None /\ Idle(s)
Full(s)  == proxy[s] # None /\ Idle(s)

\* The member data is set: everything but foreign and empty handles.
HasData(s) == proxy[s] # None /\ type[s] # "foreign"

\* The slots that own a reference to the block of p.
Refs(p) == {s \in Slots : proxy[s] = p /\ type[s] # "foreign" /\ Idle(s)}

\* A wl_proxy address that nothing uses any more.
Unused(p) == p \notin live \cup allocated

\* A handle that can be used: a foreign one only while the other library keeps
\* its connection (to keep and to destruct it is harmless).
Usable(s) == Full(s) /\ (type[s] = "foreign" => foreign)

\* A display_t variable, or a slice of one, for the client's own connection.
DisplayHandle(h) == Full(h) /\ type[h] = "display"
Open == foreign \/ \E h \in Handles : DisplayHandle(h)

\* h is the client's last display_t.  It must outlive everything else.
LastOpen(h) == DisplayHandle(h) /\ \A g \in Handles \ {h} : ~DisplayHandle(g)
EverythingElseGone ==
    /\ allocated \cap Objects = {} /\ held = {}
    /\ queues = {} \/ "late_queue" \in Careless

\* ~shared_ptr<wl_event_queue> of one owner of q: wl_event_queue_destroy when
\* neither an event_queue_t of the client nor a block other than p's is left.
Drop(q, p, keepers) ==
    IF q # None /\ q \notin keepers
       /\ \A r \in allocated \ {p} : queue[r] # q
    THEN queues' = queues \ {q}
    ELSE UNCHANGED queues

\* new proxy_data_t for p, with counter 1.
NewData(p, q, destroyable) ==
    /\ allocated' = allocated \cup {p}
    /\ queue' = [queue EXCEPT ![p] = q]
    /\ has_destroy_opcode' = IF destroyable THEN has_destroy_opcode \cup {p}
                             ELSE has_destroy_opcode \ {p}
-----------------------------------------------------------------------------
(* The connection *)

\* display_t(name), display_t(fd): a connection of our own.
Connect(h) ==
    /\ Empty(h) /\ Unused(Display)
    /\ live' = live \cup {Display}
    /\ wlQueue' = [wlQueue EXCEPT ![Display] = None]
    /\ NewData(Display, None, FALSE)
    /\ counter' = [counter EXCEPT ![Display] = 1]
    /\ proxy' = [proxy EXCEPT ![h] = Display]
    /\ type' = [type EXCEPT ![h] = "display"]
    /\ UNCHANGED <<stage, ending, resource, foreign, queueVars>>

\* Another library connects; the connection is its own.
ForeignConnect ==
    /\ Unused(Display)
    /\ live' = live \cup {Display} /\ foreign' = TRUE
    /\ wlQueue' = [wlQueue EXCEPT ![Display] = None]
    /\ UNCHANGED <<slotVars, dataVars, resource, queueVars>>

\* Mutant: the constructor does not except foreign proxies from reference
\* counting.
WrapForeign_Counted(h) ==
    /\ Empty(h) /\ foreign
    /\ NewData(Display, None, FALSE)
    /\ counter' = [counter EXCEPT ![Display] = 1]
    /\ proxy' = [proxy EXCEPT ![h] = Display]
    /\ type' = [type EXCEPT ![h] = "foreign"]
    /\ UNCHANGED <<stage, ending, wlVars, queueVars>>

\* display_t(wl_display*): no data, no reference.
WrapForeign(h) ==
    /\ Empty(h) /\ foreign
    /\ proxy' = [proxy EXCEPT ![h] = Display]
    /\ type' = [type EXCEPT ![h] = "foreign"]
    /\ UNCHANGED <<stage, ending, dataVars, wlVars, queueVars>>

\* The other library disconnects.  The objects made through it must be gone;
\* display_t variables may be left (include/wayland-client.hpp:525).
ForeignDisconnect ==
    /\ foreign /\ EverythingElseGone
    /\ live' = live \ {Display} /\ foreign' = FALSE
    /\ UNCHANGED <<slotVars, dataVars, wlQueue, resource, queueVars>>
-----------------------------------------------------------------------------
(* Making, copying and moving handles *)

\* Mutant: the new proxy's block does not inherit the queue, as libwayland's
\* wl_proxy does.
Create_QueueNotInherited(g, h, o) ==
    /\ Usable(g) /\ Empty(h) /\ Open /\ Unused(o)
    /\ live' = live \cup {o}
    /\ wlQueue' = [wlQueue EXCEPT ![o] = wlQueue[proxy[g]]]
    /\ NewData(o, None, o \in Destroyable)
    /\ counter' = [counter EXCEPT ![o] = 1]
    /\ resource' = IF o \in Destroyable THEN resource \cup {o} ELSE resource
    /\ proxy' = [proxy EXCEPT ![h] = o]
    /\ type' = [type EXCEPT ![h] = "standard"]
    /\ UNCHANGED <<stage, ending, foreign, queueVars>>

\* Mutant: the typed constructor forgets set_destroy_opcode.
Create_NoDestroyOpcode(g, h, o) ==
    /\ Usable(g) /\ Empty(h) /\ Open /\ Unused(o)
    /\ live' = live \cup {o}
    /\ wlQueue' = [wlQueue EXCEPT ![o] = wlQueue[proxy[g]]]
    /\ NewData(o, IF HasData(g) THEN queue[proxy[g]] ELSE None, FALSE)
    /\ counter' = [counter EXCEPT ![o] = 1]
    /\ resource' = IF o \in Destroyable THEN resource \cup {o} ELSE resource
    /\ proxy' = [proxy EXCEPT ![h] = o]
    /\ type' = [type EXCEPT ![h] = "standard"]
    /\ UNCHANGED <<stage, ending, foreign, queueVars>>

\* A request with a new_id through handle g: marshal_single, the typed
\* constructor the scanner generates for the result, and its set_events and
\* set_destroy_opcode.  libwayland gives the new wl_proxy its parent's queue;
\* the block copies it from the parent's block, if the parent has one.
Create(g, h, o) ==
    /\ Usable(g) /\ Empty(h) /\ Open /\ Unused(o)
    /\ live' = live \cup {o}
    /\ wlQueue' = [wlQueue EXCEPT ![o] = wlQueue[proxy[g]]]
    /\ NewData(o, IF HasData(g) THEN queue[proxy[g]] ELSE None, o \in Destroyable)
    /\ counter' = [counter EXCEPT ![o] = 1]
    /\ resource' = IF o \in Destroyable THEN resource \cup {o} ELSE resource
    /\ proxy' = [proxy EXCEPT ![h] = o]
    /\ type' = [type EXCEPT ![h] = "standard"]
    /\ UNCHANGED <<stage, ending, foreign, queueVars>>

\* A proxy wrapper of handle g, into h: the block takes the parent's queue, and
\* its wrapped_proxy becomes a copy of g (that counts as so many references).
Wrap(g, h, w, references) ==
    /\ Full(g) /\ HasData(g) /\ Empty(h) /\ Unused(w)
    /\ live' = live \cup {w}
    /\ wlQueue' = [wlQueue EXCEPT ![w] = wlQueue[proxy[g]]]
    /\ NewData(w, queue[proxy[g]], FALSE)
    /\ counter' = [counter EXCEPT ![w] = 1, ![proxy[g]] = @ + references]
    /\ proxy' = [proxy EXCEPT ![h] = w, ![w] = proxy[g]]
    /\ type' = [type EXCEPT ![h] = "proxy_wrapper", ![w] = type[g]]
    /\ UNCHANGED <<stage, ending, resource, foreign, queueVars>>

\* Mutants: wrapped_proxy is a plain pointer, or counts twice.
CreateWrapper_NotRetained(g, h, w) == Wrap(g, h, w, 0)
CreateWrapper_RetainedTwice(g, h, w) == Wrap(g, h, w, 2)

\* proxy_create_wrapper()
CreateWrapper(g, h, w) == Wrap(g, h, w, 1)

\* operator=(const proxy_t&), and the copy constructor which calls it: what h
\* held before is overwritten, not released.  Copying an emptied handle of
\* another type than standard throws "Invalid proxy." after the assignments.
Copy(g, h) ==
    /\ g # h /\ Idle(g) /\ Idle(h)
    /\ proxy[h] = None \/ "copy_over" \in Careless
    /\ Full(g) \/ "copy_emptied" \in Careless
    /\ HasData(g) => counter[proxy[g]] < MaxCounter
    /\ proxy' = [proxy EXCEPT ![h] = proxy[g]]
    /\ type' = [type EXCEPT ![h] = type[g]]
    /\ counter' = IF HasData(g) THEN [counter EXCEPT ![proxy[g]] = @ + 1]
                  ELSE counter
    /\ UNCHANGED <<stage, ending, allocated, queue, has_destroy_opcode,
                   wlVars, queueVars>>

\* Mutant: the source keeps its pointers.
Move_Copies(g, h) ==
    /\ g # h /\ Idle(g) /\ Idle(h)
    /\ proxy' = [proxy EXCEPT ![h] = proxy[g]]
    /\ type' = [type EXCEPT ![h] = type[g]]
    /\ UNCHANGED <<stage, ending, dataVars, wlVars, queueVars>>

\* operator=(proxy_t&&): the two handles are swapped.
Move(g, h) ==
    /\ g # h /\ Idle(g) /\ Idle(h)
    /\ proxy' = [proxy EXCEPT ![g] = proxy[h], ![h] = proxy[g]]
    /\ type' = [type EXCEPT ![g] = type[h], ![h] = type[g]]
    /\ UNCHANGED <<stage, ending, dataVars, wlVars, queueVars>>
-----------------------------------------------------------------------------
(* Releasing a handle *)

\* proxy_release() on slot s up to the decrement; the slot that sees the given
\* count goes on to destroy the object, any other is emptied at once.  A
\* foreign handle has nothing to count.
DecrementTo(s, lastCounts) ==
    IF HasData(s)
    THEN /\ counter' = [counter EXCEPT ![proxy[s]] = @ - 1]
         /\ IF counter[proxy[s]] \in lastCounts
            THEN stage' = [stage EXCEPT ![s] = "last"] /\ UNCHANGED proxy
            ELSE proxy' = [proxy EXCEPT ![s] = None] /\ UNCHANGED stage
    ELSE proxy' = [proxy EXCEPT ![s] = None] /\ UNCHANGED <<counter, stage>>

\* Mutant: the decrement and the test for 0 are not one atomic operation, and
\* another thread's decrement comes between them.
Decrement_NotAtomic(s) == DecrementTo(s, {1, 2})

\* --data->counter == 0
Decrement(s) == DecrementTo(s, {1})

\* The client calls proxy_release().  The type stays what it was.
Release(h) ==
    /\ Full(h)
    /\ type[h] = "display" => "display_release" \in Careless
    /\ LastOpen(h) => EverythingElseGone
    /\ Decrement(h)
    /\ UNCHANGED <<type, ending, allocated, queue, has_destroy_opcode, wlVars,
                   queueVars>>

\* The variable goes out of scope: ~proxy_t().  Afterwards the slot stands for
\* a new variable, of type standard.
Destruct(h) ==
    /\ Idle(h)
    /\ LastOpen(h) => EverythingElseGone
    /\ Decrement(h)
    /\ IF stage'[h] = "idle"
       THEN type' = [type EXCEPT ![h] = "standard"] /\ UNCHANGED ending
       ELSE ending' = ending \cup {h} /\ UNCHANGED type
    /\ UNCHANGED <<allocated, queue, has_destroy_opcode, wlVars, queueVars>>

\* Mutant: wl_proxy_destroy is not called for standard proxies.
Close_NotDestroyed(s) ==
    /\ stage[s] = "last"
    /\ stage' = [stage EXCEPT ![s] = "closed"]
    /\ live' = IF type[s] = "standard" THEN live ELSE live \ {proxy[s]}
    /\ resource' = IF type[s] = "standard" /\ proxy[s] \in has_destroy_opcode
                   THEN resource \ {proxy[s]} ELSE resource
    /\ UNCHANGED <<proxy, type, ending, dataVars, wlQueue, foreign, queueVars>>

\* The counter is 0: tell the compositor and have libwayland free the proxy.
Close(s) ==
    /\ stage[s] = "last"
    /\ stage' = [stage EXCEPT ![s] = "closed"]
    /\ live' = live \ {proxy[s]}
    /\ resource' = IF type[s] = "standard" /\ proxy[s] \in has_destroy_opcode
                   THEN resource \ {proxy[s]} ELSE resource
    /\ UNCHANGED <<proxy, type, ending, dataVars, wlQueue, foreign, queueVars>>

\* Mutant: wrapped_proxy is released before the wrapper itself is destroyed.
Unwrap_Early(w) ==
    /\ Full(w)
    /\ \E s \in Slots : ~Idle(s) /\ proxy[s] = w
    /\ Decrement(w)
    /\ UNCHANGED <<type, ending, allocated, queue, has_destroy_opcode, wlVars,
                   queueVars>>

\* "delete data" destructs wrapped_proxy first (it is declared last) ...
Unwrap(w) ==
    /\ Full(w)
    /\ \E s \in Slots : stage[s] = "closed" /\ proxy[s] = w
    /\ Decrement(w)
    /\ UNCHANGED <<type, ending, allocated, queue, has_destroy_opcode, wlVars,
                   queueVars>>

\* ... then its queue, and frees the block; proxy_release() ends.
Free(s) ==
    /\ stage[s] = "closed"
    /\ proxy[s] \in Wrappers => Empty(proxy[s])
    /\ Drop(queue[proxy[s]], proxy[s], held)
    /\ allocated' = allocated \ {proxy[s]}
    /\ proxy' = [proxy EXCEPT ![s] = None]
    /\ stage' = [stage EXCEPT ![s] = "idle"]
    /\ type' = IF s \in ending THEN [type EXCEPT ![s] = "standard"] ELSE type
    /\ ending' = ending \ {s}
    /\ UNCHANGED <<counter, queue, has_destroy_opcode, wlVars, held>>
-----------------------------------------------------------------------------
(* Event queues *)

\* display_t::create_queue()
CreateQueue(g, q) ==
    /\ Usable(g) /\ type[g] \in {"display", "foreign"}
    /\ q \notin queues
    /\ queues' = queues \cup {q} /\ held' = held \cup {q}
    /\ UNCHANGED <<slotVars, dataVars, wlVars>>

\* Mutant: the queue is destroyed although blocks still retain it.
DropQueue_NotShared(q) ==
    /\ q \in held
    /\ held' = held \ {q} /\ queues' = queues \ {q}
    /\ UNCHANGED <<slotVars, dataVars, wlVars>>

\* The client's last event_queue_t for q goes out of scope.
DropQueue(q) ==
    /\ q \in held
    /\ held' = held \ {q}
    /\ Drop(q, None, {})
    /\ UNCHANGED <<slotVars, dataVars, wlVars>>

\* proxy_t::set_queue(): libwayland first, then the block takes the reference
\* and gives up the one it had.  A client does not do this to the proxy of
\* another library, for which no reference could be kept.
SetQueue(g, q) ==
    /\ Full(g) /\ HasData(g) /\ q \in held \cup {None}
    /\ wlQueue' = [wlQueue EXCEPT ![proxy[g]] = q]
    /\ queue' = [queue EXCEPT ![proxy[g]] = q]
    /\ Drop(queue[proxy[g]], proxy[g], held)
    /\ UNCHANGED <<slotVars, allocated, counter, has_destroy_opcode, live,
                   resource, foreign, held>>
-----------------------------------------------------------------------------
\* What a client does with its handles H.
Client(H) ==
    \E h \in H :
        \/ Connect(h) \/ WrapForeign(h) \/ Release(h) \/ Destruct(h)
        \/ \E g \in H :
              \/ Copy(g, h) \/ Move(g, h)
              \/ \E o \in Objects : Create(g, h, o)
              \/ \E w \in Wrappers : CreateWrapper(g, h, w)
        \/ \E q \in Queues : CreateQueue(h, q)
        \/ \E q \in Queues \cup {None} : SetQueue(h, q)

\* The part of a release in progress that is the calling thread's to go on with.
Continue(s) == Close(s) \/ Free(s)

Next ==
    \/ Client(Handles)
    \/ \E q \in Queues : DropQueue(q)
    \/ \E s \in Slots : Continue(s)
    \/ \E w \in Wrappers : Unwrap(w)
    \/ ForeignConnect \/ ForeignDisconnect

\* proxy_release() runs to its end; clients owe nothing.
Fairness == /\ \A s \in Slots : WF_vars(Continue(s))
            /\ \A w \in Wrappers : WF_vars(Unwrap(w))

Spec == Init /\ [][Next]_vars /\ Fairness
-----------------------------------------------------------------------------
(* Properties *)

\* The counter of a block is the number of proxy_t that own a reference: none
\* is lost by a chain of releases, a swap or a shared queue, so the last one
\* sees 0 and no other does.
Counted == \A p \in allocated : counter[p] = Cardinality(Refs(p))

\* The same for a client that may copy over objects it holds: references are
\* lost, never gained.
CountOK(p) == IF "copy_over" \in Careless
              THEN counter[p] >= Cardinality(Refs(p))
              ELSE counter[p] = Cardinality(Refs(p))

\* A handle or member never outlives the wl_proxy and the block it points to,
\* whatever the threads release in between; only the slot that is destroying
\* the object still names it once it is gone.
NoDangling ==
    \A s \in Slots : HasData(s) /\ stage[s] # "closed" =>
        proxy[s] \in live \cap allocated

\* One thread destroys an object: two slots are never in the destroying part
\* of proxy_release() for the same block (double free).
DestroyedOnce ==
    \A s, t \in Slots : ~Idle(s) /\ ~Idle(t) /\ proxy[s] = proxy[t] => s = t

\* The queue libwayland puts a wl_proxy's events in exists: either the client
\* has an event_queue_t for it or a block retains it.
QueueRetained ==
    \A p \in live \cap allocated : wlQueue[p] # None => wlQueue[p] \in queues

\* What others depend on goes last: what a proxy wrapper was made from is
\* destroyed after the wrapper (wrapper_type::proxy_wrapper,
\* include/wayland-client.hpp), and the connection after every wl_proxy and every
\* event queue.
DependantsFirst ==
    /\ \A w \in live \cap Wrappers : proxy[w] \in live
    /\ live \cap allocated # {} \/ queues # {} => Display \in live

\* An object whose interface has a destroy request does not lose its wl_proxy
\* without that request: the compositor would keep its side for ever.
NoCompositorLeak == resource \subseteq live

\* waylandpp neither disconnects a display of another library nor hangs its
\* own data on it (wrapper_type::foreign, include/wayland-client.hpp).
ForeignUntouched ==
    [][foreign /\ ~ForeignDisconnect =>
         Display \in live' /\ Display \notin allocated']_vars

\* The client can reach p neither through a handle of its own nor through a
\* proxy wrapper.
Abandoned(p) == p \in live /\ \A h \in Handles : Full(h) => proxy[h] \notin {p} \cup Wrappers

\* "The underlying Wayland object is destroyed once there are no copies of
\* this object left" (README.md:92), the connection included.
AbandonedIsDestroyed ==
    \A p \in Proxies : (Abandoned(p) /\ ~foreign) ~> (p \notin live)

\* "A reference to the proxy_t creating this proxy wrapper is held to extend its
\* lifetime until after the proxy wrapper is destroyed" (proxy_wrapper,
\* include/wayland-client.hpp:142): while a wrapper's block still has a queue to
\* destroy, the connection has not been closed.
WrapperQueueInTime ==
    \A w \in allocated \cap Wrappers : queue[w] \in queues => Display \in live

\* "Note that display_t instances cannot be released this way. Attempts to do so
\* are ignored" (proxy_release(), include/wayland-client.hpp:345).
DisplayReleaseIgnored ==
    [][\A h \in Handles : type[h] = "display" /\ Release(h) =>
           UNCHANGED <<proxy, counter>>]_vars

\* "Allowed: nothing set (for standard wrapper, others may not be empty)"
\* (operator=, src/wayland-client.cpp:305): otherwise copying throws.
CopyNeverThrows ==
    [][\A g, h \in Handles : Copy(g, h) => Full(g) \/ type[g] = "standard"]_vars

\* Objects and proxy wrappers behave as SharedObject says: the holders of one
\* are the slots that own a reference to its block.
Shared == INSTANCE SharedObject WITH
              Objects <- Objects \cup Wrappers,
              Holders <- Slots,
              holders <- [p \in Objects \cup Wrappers |-> Refs(p)],
              exists  <- (live \cap allocated) \ {Display}
ImplementsSharedObject == Shared!Spec
-----------------------------------------------------------------------------
(* The inductive invariant behind Counted, NoDangling and DestroyedOnce *)

\* A slot that is destroying its object owns no reference any more and nobody
\* else does; the block is there until the slot frees it.
Releasing == \A s \in Slots : ~Idle(s) => /\ HasData(s) /\ proxy[s] \in allocated
                                          /\ counter[proxy[s]] = 0

\* The member wrapped_proxy of a block that does not exist holds nothing.
MembersOwned == \A w \in Wrappers : w \notin allocated => proxy[w] = None

\* The connection of another library has no block.
ForeignOwned == foreign => Display \in live \ allocated

IInv == /\ TypeOK /\ NoDangling /\ Releasing /\ DestroyedOnce /\ MembersOwned
        /\ ForeignOwned
        /\ \A p \in allocated : CountOK(p)
=============================================================================
