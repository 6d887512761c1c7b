---------------------------- MODULE ServerObjects ----------------------------
(***************************************************************************)
(* A server's client_t and resource_t (src/wayland-server.cpp,             *)
(* include/wayland-server.hpp), and the class a resource is given by the   *)
(* generated code (scanner/scanner.cpp).                                   *)
(*                                                                         *)
(* Each wl_client and wl_resource has a block (data_t) with its handlers,  *)
(* user data and listeners.  Whoever makes a handle from a C pointer looks *)
(* for the block in the user data of the object and makes one with init()  *)
(* if there is none; the block lives until the object is destroyed, the    *)
(* handles do not keep it.  (Their counter is only ever incremented and    *)
(* never read, so the model leaves it out.)  The server is                 *)
(* single-threaded: "calls" is its call stack, its top last.               *)
(*                                                                         *)
(* The code is that built for libwayland 1.23 and later, whose wl_client   *)
(* has user data.                                                          *)
(***************************************************************************)
EXTENDS Integers, FiniteSets, Sequences

CONSTANTS
    Client,          \* the wl_client
    Resources,       \* the wl_resources waylandpp creates, each once
    TheirResources,  \* those libwayland creates: wl_display, wl_registry
    WlDisplay,       \* the one that exists as long as the client
    Handles,         \* the program's client_t and resource_t variables
    MaxBlocks,       \* bounds the calls of init()
    None, Null, Theirs,
    Habits           \* usages beyond the plain ones, see below

(***************************************************************************)
(*   "client_fd"     the server makes the client: client_t(display, fd)    *)
(*   "cast_created"  on_resource_created gives the resource its class      *)
(*   "keep_created"  on_client_created and on_resource_created keep what   *)
(*                   they are shown                                        *)
(*   "null_object"   a request's nullable object argument is null          *)
(*   "list"          get_resource_list() or get_object() meets a resource  *)
(*                   of libwayland                                         *)
(***************************************************************************)
ASSUME HabitAssumption ==
    Habits \subseteq {"client_fd", "cast_created", "keep_created", "null_object", "list"}
ASSUME NameAssumption ==
    /\ WlDisplay \in TheirResources /\ Resources \cap TheirResources = {}
    /\ Client \notin Resources \cup TheirResources
    /\ None \notin {Client} \cup Resources \cup TheirResources \cup 1..MaxBlocks
    /\ Null # None /\ Null \notin Resources
    /\ Theirs # None /\ Theirs \notin 1..MaxBlocks
    /\ MaxBlocks \in Nat \ {0}

AllResources == Resources \cup TheirResources
Objects == {Client} \cup AllResources
Blocks  == 1..MaxBlocks

VARIABLES
    life,        \* object |-> "none", "alive", "dying" (being destroyed), "freed"
    userData,    \* object |-> its user data: a block, None, or libwayland's own
    dispatcher,  \* resource |-> "none", "dummy" or "generated"
    listeners,   \* object |-> blocks whose destroy listener is in its signal
    late,        \* blocks whose listener is in the client's late destroy signal
    owner,       \* block |-> the object it was made for, None: not made yet
    deleted,     \* the blocks that were deleted
    withEvents,  \* the blocks whose events are set
    handled,     \* the blocks with an on_destroy (and on_destroy_late) handler
    notified,    \* block |-> how often its on_destroy handler was called
    handle,      \* handle |-> the block it refers to, or None
    calls        \* the call stack

objectVars == <<life, userData, dispatcher, listeners, late>>
blockVars  == <<owner, deleted, withEvents, handled, notified>>
vars == <<objectVars, blockVars, handle, calls>>

\* A call in progress, with the block of the handle it works with.  Handlers
\* are the program's code; the others are waylandpp's or libwayland's.
Library == {"construct", "classify", "their_construct",
            "convert", "bind", "destroy_client", "destroy_resource"}
Handlers == {"on_client_created", "on_resource_created", "on_request", "on_bind",
             "on_destroy", "on_destroy_late"}
\* Of these, those that work with a handle of the object.
WithHandle == {"on_client_created", "on_resource_created", "convert", "on_request", "on_bind"}
Frame == [op : Library \cup Handlers, object : Objects, block : Blocks \cup {None},
          arg : Resources \cup {None, Null}]

Calling(op, o, b) == [op |-> op, object |-> o, block |-> b, arg |-> None]

Top      == calls[Len(calls)]
Below    == SubSeq(calls, 1, Len(calls) - 1)
On(ops)  == calls # <<>> /\ Top.op \in ops
Idle     == calls = <<>>
ProgramRuns == Idle \/ On(Handlers)

SoTypeOK ==
    /\ life \in [Objects -> {"none", "alive", "dying", "freed"}]
    /\ userData \in [Objects -> Blocks \cup {None, Theirs}]
    /\ dispatcher \in [AllResources -> {"none", "dummy", "generated"}]
    /\ listeners \in [Objects -> Seq(Blocks)] /\ late \in Seq(Blocks)
    /\ owner \in [Blocks -> Objects \cup {None}]
    /\ deleted \in SUBSET Blocks /\ withEvents \in SUBSET Blocks
    /\ handled \in SUBSET Blocks /\ notified \in [Blocks -> Nat]
    /\ handle \in [Handles -> Blocks \cup {None, Theirs}]
    /\ calls \in Seq(Frame)

Init ==
    /\ life = [o \in Objects |-> "none"] /\ userData = [o \in Objects |-> None]
    /\ dispatcher = [r \in AllResources |-> "none"]
    /\ listeners = [o \in Objects |-> <<>>] /\ late = <<>>
    /\ owner = [b \in Blocks |-> None] /\ deleted = {} /\ withEvents = {}
    /\ handled = {} /\ notified = [b \in Blocks |-> 0]
    /\ handle = [h \in Handles |-> None] /\ calls = <<>>

\* The block the next init() allocates.
Fresh == 1 + Cardinality({b \in Blocks : owner[b] # None})

\* The objects whose constructor has not yet returned.
UnderConstruction ==
    {calls[i].object : i \in {j \in DOMAIN calls : calls[j].op \in
                              {"construct", "their_construct"}}}
-----------------------------------------------------------------------------
(* init() and set_events() *)

\* Mutants: init() leaves the dispatcher as it was, forgets the listener, or
\* deletes what was there before.
Attach_NoDummy(o) ==
    /\ Fresh \in Blocks
    /\ owner' = [owner EXCEPT ![Fresh] = o]
    /\ userData' = [userData EXCEPT ![o] = Fresh]
    /\ listeners' = [listeners EXCEPT ![o] = Append(@, Fresh)]
    /\ late' = IF o = Client THEN Append(late, Fresh) ELSE late
    /\ deleted' = IF o = Client THEN deleted \cup ({userData[o]} \ {None}) ELSE deleted
    /\ dispatcher' = dispatcher

Attach_NotListening(o) ==
    /\ Fresh \in Blocks
    /\ owner' = [owner EXCEPT ![Fresh] = o]
    /\ userData' = [userData EXCEPT ![o] = Fresh]
    /\ late' = IF o = Client THEN Append(late, Fresh) ELSE late
    /\ deleted' = IF o = Client THEN deleted \cup ({userData[o]} \ {None}) ELSE deleted
    /\ dispatcher' = IF o = Client THEN dispatcher ELSE [dispatcher EXCEPT ![o] = "dummy"]
    /\ UNCHANGED listeners

Attach_DeletesOld(o) ==
    /\ Fresh \in Blocks
    /\ owner' = [owner EXCEPT ![Fresh] = o]
    /\ userData' = [userData EXCEPT ![o] = Fresh]
    /\ listeners' = [listeners EXCEPT ![o] = Append(@, Fresh)]
    /\ late' = IF o = Client THEN Append(late, Fresh) ELSE late
    /\ deleted' = deleted \cup {userData[o]}
    /\ dispatcher' = IF o = Client THEN dispatcher ELSE [dispatcher EXCEPT ![o] = "dummy"]

\* client_t::init() and resource_t::init().  Setting a client's user data runs
\* the destructor of the old one; setting a resource's dispatcher sets its user
\* data, too.
Attach(o) ==
    /\ Fresh \in Blocks
    /\ owner' = [owner EXCEPT ![Fresh] = o]
    /\ userData' = [userData EXCEPT ![o] = Fresh]
    /\ listeners' = [listeners EXCEPT ![o] = Append(@, Fresh)]
    /\ late' = IF o = Client THEN Append(late, Fresh) ELSE late
    /\ deleted' = IF o = Client THEN deleted \cup ({userData[o]} \ {None}) ELSE deleted
    /\ dispatcher' = IF o = Client THEN dispatcher ELSE [dispatcher EXCEPT ![o] = "dummy"]

\* resource_t::set_events(), which the constructors of the generated class
\* call: it works only once for each block.
SetEvents(b) ==
    IF b \in withEvents
    THEN UNCHANGED <<withEvents, dispatcher, userData>>
    ELSE /\ withEvents' = withEvents \cup {b}
         /\ dispatcher' = [dispatcher EXCEPT ![owner[b]] = "generated"]
         /\ userData' = [userData EXCEPT ![owner[b]] = b]
-----------------------------------------------------------------------------
(* Clients and resources come into being *)

\* A client connects: wl_client_create makes the resource of its wl_display and
\* emits client_created; display_t::client_created_func makes a client_t of the
\* C pointer.  client_t(display, fd) does the same first.
Connect ==
    /\ Idle /\ life[Client] = "none"
    /\ life' = [life EXCEPT ![Client] = "alive", ![WlDisplay] = "alive"]
    /\ \E fd \in IF "client_fd" \in Habits THEN BOOLEAN ELSE {FALSE} :
          calls' = (IF fd THEN <<Calling("construct", Client, None)>> ELSE <<>>)
                   \o <<Calling("on_client_created", Client, Fresh)>>
    /\ Fresh \in Blocks
    /\ owner' = [owner EXCEPT ![Fresh] = Client]
    /\ userData' = [userData EXCEPT ![Client] = Fresh, ![WlDisplay] = Theirs]
    /\ listeners' = [listeners EXCEPT ![Client] = <<Fresh>>]
    /\ late' = <<Fresh>>
    /\ UNCHANGED <<dispatcher, deleted, withEvents, handled, notified, handle>>

\* wl_resource_create emits resource_created; client_t::resource_created_func
\* makes a resource_t of the C pointer and calls the handler.  (Whoever made the
\* resource goes on after that: "rest" is the stack up to there.)
CreateResource(r, rest) ==
    /\ life[Client] = "alive" /\ life[r] = "none"
    /\ life' = [life EXCEPT ![r] = "alive"]
    /\ Attach(r)
    /\ calls' = Append(rest, Calling("on_resource_created", r, Fresh))
    /\ UNCHANGED <<withEvents, handled, notified, handle>>

\* resource_t(client, interface, version, id) goes on, or client_t(display, fd):
\* both call init() in any case ...
FinishInit ==
    /\ On({"construct"})
    /\ Attach(Top.object)
    /\ calls' = Below
    /\ UNCHANGED <<life, withEvents, handled, notified, handle>>

\* ... and the constructor of a generated class calls set_events();
\* global_t::bind_func then calls the on_bind handler.
FinishClass ==
    /\ On({"classify", "bind"})
    /\ SetEvents(userData[Top.object])
    /\ calls' = IF On({"bind"})
                THEN Append(Below, Calling("on_bind", Top.object, userData[Top.object]))
                ELSE Below
    /\ UNCHANGED <<life, listeners, late, owner, deleted, handled, notified, handle>>

\* libwayland creates a wl_registry, and then sets its implementation: user data
\* and dispatcher of its own.
CreateRegistry(r) ==
    Idle /\ r # WlDisplay /\ CreateResource(r, <<Calling("their_construct", r, None)>>)

FinishRegistry ==
    /\ On({"their_construct"})
    /\ userData' = [userData EXCEPT ![Top.object] = Theirs]
    /\ dispatcher' = [dispatcher EXCEPT ![Top.object] = "none"]
    /\ calls' = Below
    /\ UNCHANGED <<life, listeners, late, blockVars, handle>>

\* A client binds a global: global_t::bind_func.
Bind(r) ==
    Idle /\ CreateResource(r, <<Calling("bind", r, None), Calling("construct", r, None)>>)

\* The program creates a resource, to send it with an event.
Offer(r) ==
    /\ ProgramRuns /\ life[Client] = "alive" /\ Client \notin UnderConstruction
    /\ CreateResource(r, calls \o <<Calling("classify", r, None), Calling("construct", r, None)>>)
-----------------------------------------------------------------------------
(* Requests: resource_t::c_dispatcher and the generated dispatchers *)

\* The frame of c_dispatcher, before the generated dispatcher converts arg.
Dispatching(r, arg) == [Calling("convert", r, userData[r]) EXCEPT !.arg = arg]

\* A request without objects, with an object, or with null for a nullable one.
Request(r) ==
    /\ Idle /\ life[Client] = "alive" /\ life[r] = "alive"
    /\ \E arg \in {a \in Resources : life[a] = "alive"} \cup {None}
                  \cup IF "null_object" \in Habits THEN {Null} ELSE {} :
          calls' = <<Dispatching(r, arg)>>
    /\ UNCHANGED <<objectVars, blockVars, handle>>

\* A request with a new_id argument.
RequestNew(r, new) ==
    /\ Idle /\ life[r] = "alive"
    /\ CreateResource(new, <<Dispatching(r, new), Calling("construct", new, None)>>)

\* The request has no handler: dummy_dispatcher, or an empty std::function.
Ignore ==
    /\ On({"convert"})
    /\ calls' = Below
    /\ UNCHANGED <<objectVars, blockVars, handle>>

\* The block of the argument: resource_t() has none.
ArgBlock == IF Top.arg = Null THEN None ELSE userData[Top.arg]

\* The generated dispatcher gives the argument its class, which sets its events,
\* and calls the handler.
CallHandler ==
    /\ On({"convert"}) /\ dispatcher[Top.object] = "generated" /\ Top.arg # Null
    /\ IF Top.arg = None THEN UNCHANGED <<withEvents, dispatcher, userData>>
                         ELSE SetEvents(ArgBlock)
    /\ calls' = Append(Below, [Top EXCEPT !.op = "on_request"])
    /\ UNCHANGED <<life, listeners, late, owner, deleted, handled, notified, handle>>
-----------------------------------------------------------------------------
(* What the program does with the objects *)

\* What a handle of o, made now from its C pointer or copied from the handler's
\* own argument, refers to.
Found(o) == IF On(WithHandle) /\ Top.object = o THEN Top.block ELSE userData[o]

\* Mutant: resource_t(wl_resource*) does not look for the user data.
Keep_Anew(h, o) ==
    /\ ProgramRuns /\ handle[h] = None /\ life[o] = "alive"
    /\ o \in UnderConstruction => "keep_created" \in Habits
    /\ o \in TheirResources => "list" \in Habits
    /\ Attach(o)
    /\ handle' = [handle EXCEPT ![h] = Fresh]
    /\ handled' = handled \cup {Fresh}
    /\ UNCHANGED <<life, withEvents, notified, calls>>

\* The program keeps a handle: the handler's argument, get_client(),
\* get_object() or get_resource_list().  A careful program does so only with an
\* on_destroy handler, because the object does not wait for its handles.
Keep(h, o) ==
    /\ ProgramRuns /\ handle[h] = None /\ life[o] = "alive"
    /\ o \in UnderConstruction => "keep_created" \in Habits
    /\ o \in TheirResources => "list" \in Habits
    /\ handle' = [handle EXCEPT ![h] = Found(o)]
    /\ handled' = handled \cup ({Found(o)} \ {Theirs})
    /\ UNCHANGED <<objectVars, owner, deleted, withEvents, notified, calls>>

\* It only sets on_destroy of what its handler is shown.
Watch ==
    /\ On(Handlers \ {"on_destroy", "on_destroy_late"})
    /\ handled' = handled \cup {Top.block}
    /\ UNCHANGED <<objectVars, owner, deleted, withEvents, notified, handle, calls>>

\* It gives the resource it is shown its class.
Cast ==
    /\ On({"on_resource_created"}) /\ Top.object \in Resources
    /\ "cast_created" \in Habits
    /\ SetEvents(Top.block)
    /\ UNCHANGED <<life, listeners, late, owner, deleted, handled, notified, handle, calls>>

Drop(h) ==
    /\ ProgramRuns /\ handle[h] # None
    /\ handle' = [handle EXCEPT ![h] = None]
    /\ UNCHANGED <<objectVars, blockVars, calls>>

HandlesOf(o) == {h \in Handles : handle[h] \in {b \in Blocks : owner[b] = o}}

\* A handler returns.  An on_destroy handler has dropped the program's handles
\* of the object; resource_t::destroy_func deletes the block after it.
HandlerReturns ==
    /\ On(Handlers)
    /\ On({"on_destroy"}) => HandlesOf(Top.object) = {}
    /\ deleted' = IF On({"on_destroy"}) /\ Top.object # Client
                  THEN deleted \cup {Top.block} ELSE deleted
    /\ calls' = Below
    /\ UNCHANGED <<objectVars, owner, withEvents, handled, notified, handle>>
-----------------------------------------------------------------------------
(* The client is destroyed, and all its resources with it *)

Disconnect ==
    /\ Idle /\ life[Client] = "alive"
    /\ life' = [life EXCEPT ![Client] = "dying"]
    /\ calls' = <<Calling("destroy_client", Client, None)>>
    /\ UNCHANGED <<userData, dispatcher, listeners, late, blockVars, handle>>

\* A destroy_func calls the handler of its block.
Notify(op, b, rest) ==
    /\ calls' = IF b \in handled THEN Append(rest, Calling(op, owner[b], b)) ELSE rest
    /\ notified' = IF op = "on_destroy" THEN [notified EXCEPT ![b] = @ + 1] ELSE notified

\* Mutant: client_t::init() confuses the two listeners.
NotifyClient_Late ==
    /\ On({"destroy_client"}) /\ listeners[Client] # <<>>
    /\ listeners' = [listeners EXCEPT ![Client] = Tail(@)]
    /\ Notify("on_destroy_late", Head(listeners[Client]), calls)
    /\ UNCHANGED <<life, userData, dispatcher, late, owner, deleted, withEvents,
                   handled, handle>>

\* wl_client_destroy emits the destroy signal: client_t::destroy_func.
NotifyClient ==
    /\ On({"destroy_client"}) /\ listeners[Client] # <<>>
    /\ listeners' = [listeners EXCEPT ![Client] = Tail(@)]
    /\ Notify("on_destroy", Head(listeners[Client]), calls)
    /\ UNCHANGED <<life, userData, dispatcher, late, owner, deleted, withEvents,
                   handled, handle>>

\* It then destroys the resources, in the order of their ids.
DestroyResource(r) ==
    /\ On({"destroy_client"}) /\ listeners[Client] = <<>> /\ life[r] = "alive"
    /\ life' = [life EXCEPT ![r] = "dying"]
    /\ calls' = Append(calls, Calling("destroy_resource", r, None))
    /\ UNCHANGED <<userData, dispatcher, listeners, late, blockVars, handle>>

\* Mutant: destroy_func deletes the block before it calls the handler.
NotifyResource_DeletesFirst ==
    /\ On({"destroy_resource"}) /\ listeners[Top.object] # <<>>
    /\ LET b == Head(listeners[Top.object]) IN
       /\ Notify("on_destroy", b, calls)
       /\ deleted' = deleted \cup {b}
    /\ listeners' = [listeners EXCEPT ![Top.object] = Tail(@)]
    /\ UNCHANGED <<life, userData, dispatcher, late, owner, withEvents, handled, handle>>

\* resource_t::destroy_func; without handler it deletes the block at once.
NotifyResource ==
    /\ On({"destroy_resource"}) /\ listeners[Top.object] # <<>>
    /\ LET b == Head(listeners[Top.object]) IN
       /\ Notify("on_destroy", b, calls)
       /\ deleted' = IF b \in handled THEN deleted ELSE deleted \cup {b}
    /\ listeners' = [listeners EXCEPT ![Top.object] = Tail(@)]
    /\ UNCHANGED <<life, userData, dispatcher, late, owner, withEvents, handled, handle>>

FreeResource ==
    /\ On({"destroy_resource"}) /\ listeners[Top.object] = <<>>
    /\ life' = [life EXCEPT ![Top.object] = "freed"]
    /\ calls' = Below
    /\ UNCHANGED <<userData, dispatcher, listeners, late, blockVars, handle>>

ResourcesGone == listeners[Client] = <<>> /\ \A r \in AllResources : life[r] # "alive"

\* It emits the late destroy signal: client_t::destroy_late_func.
NotifyLate ==
    /\ On({"destroy_client"}) /\ ResourcesGone /\ late # <<>>
    /\ late' = Tail(late)
    /\ Notify("on_destroy_late", Head(late), calls)
    /\ UNCHANGED <<life, userData, dispatcher, listeners, owner, deleted, withEvents,
                   handled, handle>>

\* Mutant: the client's user data has no destructor.
FreeClient_Leaks ==
    /\ On({"destroy_client"}) /\ ResourcesGone /\ late = <<>>
    /\ life' = [life EXCEPT ![Client] = "freed"]
    /\ calls' = Below
    /\ UNCHANGED <<userData, dispatcher, listeners, late, blockVars, handle>>

\* The last step destroys the user data: client_t::user_data_destroy_func.
FreeClient ==
    /\ On({"destroy_client"}) /\ ResourcesGone /\ late = <<>>
    /\ life' = [life EXCEPT ![Client] = "freed"]
    /\ deleted' = deleted \cup {userData[Client]}
    /\ calls' = Below
    /\ UNCHANGED <<userData, dispatcher, listeners, late, owner, withEvents, handled,
                   notified, handle>>
-----------------------------------------------------------------------------
LibraryStep ==
    \/ FinishInit \/ FinishClass \/ FinishRegistry
    \/ Ignore \/ CallHandler
    \/ NotifyClient \/ NotifyResource \/ FreeResource \/ NotifyLate \/ FreeClient
    \/ \E r \in AllResources : DestroyResource(r)

\* Handlers return, and an on_destroy handler drops the handles of its object.
HandlerEnds ==
    \/ HandlerReturns
    \/ On({"on_destroy"}) /\ \E h \in HandlesOf(Top.object) : Drop(h)

ProgramStep ==
    \/ \E r \in Resources : Offer(r)
    \/ \E h \in Handles : Drop(h) \/ \E o \in Objects : Keep(h, o)
    \/ Watch \/ Cast

ClientStep ==
    \/ Connect \/ Disconnect
    \/ \E r \in TheirResources : CreateRegistry(r)
    \/ \E r \in Resources : Bind(r) \/ Request(r) \/ \E new \in Resources : RequestNew(r, new)

Next == ProgramStep \/ ClientStep \/ LibraryStep \/ HandlerEnds

\* Calls return; the program need not call anything, nor the client ask.
Fairness == WF_vars(LibraryStep \/ HandlerEnds)

Spec == Init /\ [][Next]_vars /\ Fairness
-----------------------------------------------------------------------------
(* Properties *)

\* What calls in progress refer to, and the handles of o among it.
CallsOn(o)  == {calls[i].block : i \in {j \in DOMAIN calls :
                                calls[j].object = o /\ calls[j].block # None}}
Referred(o) == {handle[h] : h \in HandlesOf(o)}
               \cup {calls[i].block : i \in {j \in DOMAIN calls :
                                calls[j].object = o /\ calls[j].op \in WithHandle}}

\* Every handle of an object refers to one block, the one that a handle made
\* from the C pointer finds: what is set through one handle (on_destroy, events,
\* user data) is there for all, also for the on_destroy handler itself.
OneBlock ==
    \A o \in Objects \ UnderConstruction :
        life[o] \in {"alive", "dying"} /\ userData[o] # Theirs
            => Referred(o) \subseteq {userData[o]}

\* A request is dispatched to the generated dispatcher only with the events it
\* uses: the block found in the user data has them.
DispatcherHasEvents ==
    \A r \in Resources :
        life[r] = "alive" /\ dispatcher[r] = "generated" => userData[r] \in withEvents

\* resource_t() stands for a null argument, "a empty dummy resource created by
\* the c_dispatcher" (wayland-server.cpp:537): no method of the handle that needs
\* a block is called on it.  (The request has a handler in the case looked at.)
EventsNeedBlock ==
    On({"convert"}) /\ dispatcher[Top.object] = "generated" /\ Top.arg # None
        => ArgBlock # None

\* A handle never takes user data for a block that someone else has set: the
\* objects of libwayland that get_resource_list() or get_object() come across
\* have the wl_display there.
TheirDataUntouched == \A h \in Handles : handle[h] # Theirs

\* No handle of a program that drops its handles when on_destroy is called, no
\* call and no listener in a signal refers to a deleted block.
NothingDeletedInUse ==
    \A o \in Objects :
        /\ (Referred(o) \cup CallsOn(o)) \cap deleted = {}
        /\ \A i \in DOMAIN listeners[o] : listeners[o][i] \notin deleted
        /\ life[o] = "freed" => HandlesOf(o) = {}

\* An on_destroy handler, set through whatever handle, is called once, and the
\* object is not gone before.
NotifiedOnce ==
    \A b \in handled :
        /\ notified[b] <= 1
        /\ life[owner[b]] = "freed" => notified[b] = 1

\* on_destroy is called "before any of that client's resources have been
\* destroyed", on_destroy_late "after all" (wayland-server.hpp), and then the
\* client can still be asked for what was stored with it.
ClientOutlivesResources ==
    /\ On({"on_destroy"}) /\ Top.object = Client
          => \A r \in AllResources : life[r] \in {"none", "alive"}
    /\ On({"on_destroy_late"}) => \A r \in AllResources : life[r] \in {"none", "freed"}
    /\ On({"on_destroy"}) => userData[Client] \notin deleted

\* A client that goes leaves no block behind, its own and those of all its
\* resources, the first blocks of twice initialised ones included.
BlocksReclaimed ==
    life[Client] = "dying" ~> \A b \in Blocks : owner[b] # None => b \in deleted
=============================================================================
