--------------------------- MODULE ServerDisplay ---------------------------
(***************************************************************************)
(* A server's display_t and its globals (src/wayland-server.cpp,           *)
(* include/wayland-server.hpp).                                            *)
(*                                                                         *)
(* display_t and global_base_t are counted handles of a wl_display and of  *)
(* wl_globals.  Their destruction calls back into the program: tearing the *)
(* display down runs every client's on_destroy handler and the display's   *)
(* own, and announcing or withdrawing a global asks the program's global   *)
(* filter, once per client, with temporary handles that the library makes  *)
(* from the C pointers.  A server is single-threaded, so what interleaves  *)
(* are nested calls: "calls" is the call stack, the program acts when one  *)
(* of its handlers (or the program itself) is on top, the libraries        *)
(* otherwise.                                                              *)
(***************************************************************************)
EXTENDS Integers, FiniteSets, Sequences

CONSTANTS
    Handles,         \* the program's display_t variables
    GlobalHandles,   \* the program's global_t and global_base_t variables
    Globals,         \* the wl_globals it may create, each once
    Clients,
    None,
    Habits           \* usages beyond the plain ones, see below

(***************************************************************************)
(*   "late_display"  an on_destroy handler asks for the display, even when *)
(*                   it runs because the display is torn down              *)
(***************************************************************************)
ASSUME HabitAssumption == Habits \subseteq {"late_display"}
ASSUME NoneAssumption == None \notin Globals /\ None \notin Clients
ASSUME FiniteAssumption == IsFiniteSet(Handles) /\ IsFiniteSet(GlobalHandles)

VARIABLES
    display,     \* the wl_display: "none", "alive" or "freed"
    displays,    \* the display_t variables that refer to its block
    counter,     \* display_t::data_t::counter
    destroys,    \* how often wl_display_destroy was called
    clients,     \* wl_display.client_list
    global,      \* global handle |-> its wl_global, or None
    withData,    \* the global handles whose data is not null
    state,       \* wl_global |-> "none", "alive" or "freed"
    userData,    \* the wl_globals whose user data is not null
    gcounter,    \* wl_global |-> global_base_t::data_t::counter
    removed,     \* the globals with data_t::removed
    gdestroys,   \* wl_global |-> how often wl_global_destroy was called
    calls        \* the call stack, its top last

displayVars == <<display, displays, counter, destroys, clients>>
handleVars  == <<global, withData>>
globalVars  == <<state, userData, gcounter, removed, gdestroys>>
vars == <<displayVars, handleVars, globalVars, calls>>

\* A call in progress.  "announce", "withdraw" and "destroy" ask the filter
\* for every client in left; "clients" is wl_display_destroy_clients with the
\* clients it still has to destroy; the others are the program's handlers.
\* hasData says whether the temporary global_base_t of a filter call has data.
Library  == {"announce", "withdraw", "destroy", "clients"}
Handlers == {"on_client_destroy", "on_destroy", "on_bind", "filter"}
Frame == [op : Library \cup Handlers, global : Globals \cup {None},
          client : Clients \cup {None}, left : SUBSET Clients, hasData : BOOLEAN]

Calling(op, g, left) ==
    [op |-> op, global |-> g, client |-> None, left |-> left, hasData |-> FALSE]

Top     == calls[Len(calls)]
Below   == SubSeq(calls, 1, Len(calls) - 1)
On(ops) == calls # <<>> /\ Top.op \in ops
Push(f) == calls' = Append(calls, f)

SdTypeOK ==
    /\ display \in {"none", "alive", "freed"}
    /\ displays \in SUBSET Handles /\ counter \in Int /\ destroys \in Nat
    /\ clients \in SUBSET Clients
    /\ global \in [GlobalHandles -> Globals \cup {None}]
    /\ withData \in SUBSET {h \in GlobalHandles : global[h] # None}
    /\ state \in [Globals -> {"none", "alive", "freed"}]
    /\ userData \in SUBSET Globals /\ removed \in SUBSET Globals
    /\ gcounter \in [Globals -> Int] /\ gdestroys \in [Globals -> Nat]
    /\ calls \in Seq(Frame)

Init ==
    /\ display = "none" /\ displays = {} /\ counter = 0 /\ destroys = 0
    /\ clients = {}
    /\ global = [h \in GlobalHandles |-> None] /\ withData = {}
    /\ state = [g \in Globals |-> "none"] /\ userData = {} /\ removed = {}
    /\ gcounter = [g \in Globals |-> 0] /\ gdestroys = [g \in Globals |-> 0]
    /\ calls = <<>>

\* The program's code runs: nothing is called, or one of its handlers.  A
\* filter only decides: it may keep the global it is asked about, no more.
Idle        == calls = <<>>
ProgramRuns == Idle \/ On(Handlers \ {"filter"})

\* The clients that still have their registry: those being destroyed, too.
Registries == clients \cup (UNION {calls[i].left : i \in
                                   {j \in DOMAIN calls : calls[j].op = "clients"}})
                      \cup ({calls[i].client : i \in DOMAIN calls} \ {None})
-----------------------------------------------------------------------------
(* display_t *)

\* display_t(): wl_display_create() and init().
CreateDisplay(h) ==
    /\ display = "none" /\ Idle
    /\ display' = "alive" /\ displays' = {h} /\ counter' = 1
    /\ UNCHANGED <<destroys, clients, handleVars, globalVars, calls>>

\* display_t(const display_t&).
CopyDisplay(h) ==
    /\ ProgramRuns /\ displays # {} /\ h \notin displays
    /\ displays' = displays \cup {h} /\ counter' = counter + 1
    /\ UNCHANGED <<display, destroys, clients, handleVars, globalVars, calls>>

\* Mutant: a display found by its pointer is not counted.
WrapDisplay_NotCounted(h) ==
    /\ ProgramRuns /\ display = "alive" /\ ~On({"on_destroy"}) /\ h \notin displays
    /\ Registries # {} \/ \E g \in Globals : state[g] = "alive"
    /\ counter > 0 /\ displays' = displays \cup {h}
    /\ UNCHANGED <<display, counter, destroys, clients, handleVars, globalVars, calls>>

\* The display's destroy listener, by which its block is found, is gone when the
\* destroy signal is emitted; hasData says that there is a new block since.
Found == On({"on_destroy"}) => Top.hasData

\* client_t::get_display(), global_base_t::get_display(): display_t(wl_display*)
\* counts in the block that it finds, or makes one.  (Of the old block no handle
\* is left then, so that counter and displays become those of the new one.)
WrapDisplay(h) ==
    /\ ProgramRuns /\ display = "alive" /\ h \notin displays
    /\ Registries # {} \/ \E g \in Globals : state[g] = "alive"
    /\ "late_display" \in Habits \/ (Found /\ counter > 0)
    /\ Found \/ displays = {}
    /\ displays' = displays \cup {h}
    /\ counter' = IF Found THEN counter + 1 ELSE 1
    /\ calls' = IF Found THEN calls ELSE Append(Below, [Top EXCEPT !.hasData = TRUE])
    /\ UNCHANGED <<display, destroys, clients, handleVars, globalVars>>

\* Mutant: fini() destroys the display without destroying its clients first.
DropDisplay_ClientsLeft(h) ==
    /\ ProgramRuns /\ h \in displays
    /\ counter > 1 \/ Idle \/ "late_display" \in Habits
    /\ displays' = displays \ {h} /\ counter' = counter - 1
    /\ IF counter = 1 THEN Push(Calling("on_destroy", None, {})) ELSE UNCHANGED calls
    /\ UNCHANGED <<display, destroys, clients, handleVars, globalVars>>

\* ~display_t(): fini() starts with wl_display_destroy_clients, which takes all
\* clients from the list.  (Unless it is careless, a handler does not drop the
\* last display_t under the call that runs it.)
DropDisplay(h) ==
    /\ ProgramRuns /\ h \in displays
    /\ counter > 1 \/ Idle \/ "late_display" \in Habits
    /\ displays' = displays \ {h} /\ counter' = counter - 1
    /\ IF counter = 1
       THEN Push(Calling("clients", None, clients)) /\ clients' = {}
       ELSE UNCHANGED <<calls, clients>>
    /\ UNCHANGED <<display, destroys, handleVars, globalVars>>

\* wl_client_destroy emits the client's destroy signal: client_t::destroy_func
\* calls the client's on_destroy handler.
DestroyClient(c, rest) ==
    calls' = rest \o <<[Calling("on_client_destroy", None, {}) EXCEPT !.client = c]>>

DestroyNextClient(c) ==
    /\ On({"clients"}) /\ c \in Top.left
    /\ DestroyClient(c, Append(Below, [Top EXCEPT !.left = @ \ {c}]))
    /\ UNCHANGED <<displayVars, handleVars, globalVars>>

\* All clients are destroyed: fini() calls wl_display_destroy, which emits the
\* destroy signal first ...
DestroyDisplay ==
    /\ On({"clients"}) /\ Top.left = {}
    /\ calls' = Append(Below, Calling("on_destroy", None, {}))
    /\ UNCHANGED <<displayVars, handleVars, globalVars>>

\* ... and then frees the sockets, the globals and the display.  A program that
\* still has globals drops them in the handler, because it must not later.
FreeDisplay ==
    /\ On({"on_destroy"}) /\ withData = {}
    /\ display' = "freed" /\ destroys' = destroys + 1
    /\ calls' = Below
    /\ UNCHANGED <<displays, counter, clients, handleVars, globalVars>>
-----------------------------------------------------------------------------
(* Clients, as far as the display and the globals notice them *)

Connect(c) ==
    /\ Idle /\ displays # {} /\ c \notin clients
    /\ clients' = clients \cup {c}
    /\ UNCHANGED <<display, displays, counter, destroys, handleVars, globalVars, calls>>

Disconnect(c) ==
    /\ Idle /\ displays # {} /\ c \in clients
    /\ clients' = clients \ {c}
    /\ DestroyClient(c, <<>>)
    /\ UNCHANGED <<display, displays, counter, destroys, handleVars, globalVars>>

\* A client's on_destroy handler, or an on_bind handler, returns.
HandlerReturns ==
    /\ On({"on_client_destroy", "on_bind"})
    /\ calls' = Below
    /\ UNCHANGED <<displayVars, handleVars, globalVars>>
-----------------------------------------------------------------------------
(* Globals *)

\* global_t(display, version): the block, with counter 1, is the user data of
\* the wl_global, which wl_global_create announces to every client.
NewGlobal(h, g) ==
    /\ ProgramRuns /\ displays # {} /\ global[h] = None /\ state[g] = "none"
    /\ state' = [state EXCEPT ![g] = "alive"]
    /\ userData' = userData \cup {g}
    /\ gcounter' = [gcounter EXCEPT ![g] = 1]
    /\ global' = [global EXCEPT ![h] = g] /\ withData' = withData \cup {h}
    /\ Push(Calling("announce", g, Registries))
    /\ UNCHANGED <<displayVars, removed, gdestroys>>

\* Mutant: the copy constructor forgets to count.
CopyGlobal_NotCounted(h, from) ==
    /\ ProgramRuns /\ ~On({"on_destroy"}) /\ global[h] = None /\ global[from] # None
    /\ global' = [global EXCEPT ![h] = global[from]]
    /\ withData' = IF from \in withData THEN withData \cup {h} ELSE withData
    /\ UNCHANGED <<displayVars, globalVars, calls>>

\* Whoever makes a handle with data counts it.
Counting(g, hasData, d) ==
    gcounter' = IF hasData THEN [gcounter EXCEPT ![g] = @ + d] ELSE gcounter

\* global_base_t(const global_base_t&).  (The display's on_destroy handler only
\* drops globals, see FreeDisplay.)
CopyGlobal(h, from) ==
    /\ ProgramRuns /\ ~On({"on_destroy"}) /\ global[h] = None /\ global[from] # None
    /\ global' = [global EXCEPT ![h] = global[from]]
    /\ withData' = IF from \in withData THEN withData \cup {h} ELSE withData
    /\ Counting(global[from], from \in withData, 1)
    /\ UNCHANGED <<displayVars, state, userData, removed, gdestroys, calls>>

\* Mutant: the user data of the wl_global is not cleared before it is destroyed.
Fini_NotCleared(g, hasData, rest) ==
    /\ Counting(g, hasData, -1)
    /\ userData' = userData
    /\ calls' = IF hasData /\ gcounter[g] = 1
                THEN Append(rest, Calling("destroy", g,
                                          IF g \in removed THEN {} ELSE Registries))
                ELSE rest

\* global_base_t::fini(): without the last handle, the wl_global loses its user
\* data and is destroyed, which withdraws it unless that was done before.
Fini(g, hasData, rest) ==
    /\ Counting(g, hasData, -1)
    /\ IF hasData /\ gcounter[g] = 1
       THEN /\ userData' = userData \ {g}
            /\ calls' = Append(rest, Calling("destroy", g,
                                             IF g \in removed THEN {} ELSE Registries))
       ELSE userData' = userData /\ calls' = rest

\* ~global_base_t().  An on_bind handler does not drop the last handle of the
\* global whose block holds that handler.
DropGlobal(h) ==
    /\ ProgramRuns /\ global[h] # None
    /\ On({"on_bind"}) => Top.global # global[h] \/ gcounter[global[h]] > 1
    /\ global' = [global EXCEPT ![h] = None] /\ withData' = withData \ {h}
    /\ Fini(global[h], h \in withData, calls)
    /\ UNCHANGED <<displayVars, state, removed, gdestroys>>

\* global_base_t::remove().
RemoveGlobal(h) ==
    /\ ProgramRuns /\ h \in withData /\ global[h] \notin removed
    /\ Push(Calling("withdraw", global[h], Registries))
    /\ UNCHANGED <<displayVars, handleVars, globalVars>>

\* display_t::c_filter_func: the filter gets a temporary global_base_t(wl_global*).
CallFilter(g, rest) ==
    /\ Counting(g, g \in userData, 1)
    /\ calls' = Append(rest, [Calling("filter", g, {}) EXCEPT !.hasData = g \in userData])
    /\ UNCHANGED <<displayVars, handleVars, state, userData, removed, gdestroys>>

\* wl_global_is_visible for the next client a global is announced to or
\* withdrawn from ...
AskFilter(c) ==
    /\ On({"announce", "withdraw", "destroy"}) /\ c \in Top.left
    /\ CallFilter(Top.global, Append(Below, [Top EXCEPT !.left = @ \ {c}]))

\* ... or when a client lists or binds the globals.
ListGlobal(g) == Idle /\ clients # {} /\ state[g] = "alive" /\ CallFilter(g, calls)

\* The filter keeps a copy of the global it is asked about.
FilterKeeps(h) ==
    /\ On({"filter"}) /\ global[h] = None
    /\ global' = [global EXCEPT ![h] = Top.global]
    /\ withData' = IF Top.hasData THEN withData \cup {h} ELSE withData
    /\ Counting(Top.global, Top.hasData, 1)
    /\ UNCHANGED <<displayVars, state, userData, removed, gdestroys, calls>>

FilterReturns ==
    /\ On({"filter"})
    /\ Fini(Top.global, Top.hasData, Below)
    /\ UNCHANGED <<displayVars, handleVars, state, removed, gdestroys>>

\* Mutant: the constructor sets the counter after wl_global_create.
AllAsked_CountedLate ==
    /\ On({"announce", "withdraw", "destroy"}) /\ Top.left = {}
    /\ LET g == Top.global IN
       /\ removed' = IF On({"withdraw"}) THEN removed \cup {g} ELSE removed
       /\ state' = IF On({"destroy"}) THEN [state EXCEPT ![g] = "freed"] ELSE state
       /\ gdestroys' = IF On({"destroy"}) THEN [gdestroys EXCEPT ![g] = @ + 1] ELSE gdestroys
       /\ gcounter' = IF On({"announce"}) THEN [gcounter EXCEPT ![g] = 1] ELSE gcounter
    /\ calls' = Below
    /\ UNCHANGED <<displayVars, handleVars, userData>>

\* All clients have been told: the constructor or remove() goes on, or the
\* destroyed wl_global and its block are freed.
AllAsked ==
    /\ On({"announce", "withdraw", "destroy"}) /\ Top.left = {}
    /\ LET g == Top.global IN
       /\ removed' = IF On({"withdraw"}) THEN removed \cup {g} ELSE removed
       /\ state' = IF On({"destroy"}) THEN [state EXCEPT ![g] = "freed"] ELSE state
       /\ gdestroys' = IF On({"destroy"}) THEN [gdestroys EXCEPT ![g] = @ + 1] ELSE gdestroys
    /\ calls' = Below
    /\ UNCHANGED <<displayVars, handleVars, userData, gcounter>>

\* A client binds a global: global_t::bind_func calls the on_bind handler.
Bind(g) ==
    /\ Idle /\ clients # {} /\ g \in userData
    /\ Push(Calling("on_bind", g, {}))
    /\ UNCHANGED <<displayVars, handleVars, globalVars>>
-----------------------------------------------------------------------------
LibraryStep ==
    \/ DestroyDisplay \/ AllAsked
    \/ \E c \in Clients : DestroyNextClient(c) \/ AskFilter(c)

\* Handlers return, and a program that leaves globals to on_destroy drops them.
HandlerEnds ==
    \/ HandlerReturns \/ FilterReturns \/ FreeDisplay
    \/ On({"on_destroy"}) /\ \E h \in withData : DropGlobal(h)

ProgramStep ==
    \/ \E h \in Handles :
          CreateDisplay(h) \/ CopyDisplay(h) \/ WrapDisplay(h) \/ DropDisplay(h)
    \/ \E h \in GlobalHandles :
          \/ \E g \in Globals : NewGlobal(h, g)
          \/ \E from \in GlobalHandles : CopyGlobal(h, from)
          \/ DropGlobal(h) \/ RemoveGlobal(h) \/ FilterKeeps(h)

ClientStep ==
    \/ \E c \in Clients : Connect(c) \/ Disconnect(c)
    \/ \E g \in Globals : ListGlobal(g) \/ Bind(g)

Next == ProgramStep \/ ClientStep \/ LibraryStep \/ HandlerEnds

\* Calls return; the program need not call anything, nor clients come or go.
Fairness == WF_vars(LibraryStep \/ HandlerEnds)

Spec == Init /\ [][Next]_vars /\ Fairness
-----------------------------------------------------------------------------
(* Properties *)

\* The temporary handles of filter calls in progress, by their stack position.
Temporaries(g) == {i \in DOMAIN calls : calls[i].op = "filter" /\ calls[i].hasData
                                        /\ calls[i].global = g}
HandlesOf(g) == {h \in withData : global[h] = g}

\* The display's counter is the number of display_t that refer to it, from its
\* creation to its end, those included that were made from a C pointer.
DisplayCounted == display = "alive" => counter = Cardinality(displays)

\* "destroy the display object" (~display_t(), wayland-server.hpp:115-118): it
\* is destroyed once, whatever handlers copy, find and drop, provided that none
\* asks for it while it is torn down (late_display, with which this is false).
\* So is a global, although the filter is asked about it, and shown a handle,
\* while it is being destroyed.
TornDownOnce == destroys <= 1 /\ \A g \in Globals : gdestroys[g] <= 1

\* A global's counter is the number of its handles, temporary ones of filters
\* included, also while its constructor still announces it.
GlobalCounted ==
    \A g \in Globals :
        state[g] = "alive" =>
            gcounter[g] = Cardinality(HandlesOf(g)) + Cardinality(Temporaries(g))

\* Nothing that was freed is still reachable: a handle with data has its
\* global, a global has its display, and no call in progress works on a freed
\* global or, in the libraries, on a freed display.
NothingFreedInUse ==
    /\ \A h \in withData : state[global[h]] = "alive"
    /\ \A g \in Globals : state[g] = "alive" => display = "alive"
    /\ \A i \in DOMAIN calls :
          /\ display = "alive"
          /\ calls[i].global # None => state[calls[i].global] = "alive"

\* The clients go first: their handlers still find the display, and it leaves
\* none behind (fini(), wayland-server.cpp:121-122).
ClientsGoFirst ==
    /\ On({"on_destroy"}) \/ display = "freed" => Registries = {}
    /\ display = "freed" => clients = {}

\* The positions on the call stack: calls nest no deeper.
Depths == 1..4
ASSUME DepthAssumption == GlobalHandles \cap Depths = {}

\* The display, and every global, is what SharedObject promises of a Wayland
\* object: taken up only from a holder, disposed of once, without holders, and
\* not left behind.  (display_t and global_base_t are the server's proxy_t.)
Shared == INSTANCE SharedObject WITH
    Objects <- Globals \cup {None},     \* None stands for the display
    Holders <- Handles \cup GlobalHandles \cup Depths,
    holders <- [o \in Globals \cup {None} |->
                   IF o = None THEN displays ELSE HandlesOf(o) \cup Temporaries(o)],
    exists <- {o \in Globals \cup {None} :
                   IF o = None THEN display = "alive" ELSE state[o] = "alive"}

\* See Shared.
ImplementsSharedObject == Shared!Spec
=============================================================================
