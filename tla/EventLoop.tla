----------------------------- MODULE EventLoop -----------------------------
(***************************************************************************)
(* A server's event_loop_t and event_source_t (src/wayland-server.cpp,     *)
(* include/wayland-server.hpp), over the event loops of libwayland.        *)
(*                                                                         *)
(* A program has loops of its own and the default loop of its display.     *)
(* event_loop_t counts the handles of a loop in a block, which also holds  *)
(* the functions that the loop calls; the block goes with the loop, and    *)
(* the default loop with the display, whoever has a handle.  An            *)
(* event_source_t is a shared pointer whose end removes the source.        *)
(*                                                                         *)
(* A server is single-threaded: the program acts when no loop is being     *)
(* dispatched or when one of its handlers runs.                            *)
(***************************************************************************)
EXTENDS Integers, FiniteSets

CONSTANTS
    Handles,        \* the program's event_loop_t variables
    SourceHandles,  \* its event_source_t variables
    Immortal,       \* those of them that are never looked at again
    Loops,          \* the loops it creates
    Default,        \* the loop of its display
    Sources,        \* the event sources it adds, each once
    KindOf,         \* source |-> what add_ function makes it
    None,
    Null,           \* what libwayland returns when it cannot add a source
    Habits          \* usages beyond the plain ones, see below

Kinds == {"fd", "timer", "signal", "idle"}

(***************************************************************************)
(*   "idle_kept"   the handle of an idle task goes after the task has run, *)
(*                 or from within it                                       *)
(*   "loop_first"  a loop goes although handles of it or of its sources    *)
(*                 are left, or in one of its own handlers                 *)
(*   "moved"       a handle that was moved from is destroyed               *)
(*   "add_fails"   libwayland cannot add a source                          *)
(***************************************************************************)
ASSUME HabitAssumption == Habits \subseteq {"idle_kept", "loop_first", "moved", "add_fails"}
ASSUME FiniteAssumption == IsFiniteSet(Handles)
ASSUME KindAssumption == KindOf \in [Sources -> Kinds] /\ Immortal \subseteq SourceHandles
ASSUME NamesAssumption == /\ Default \notin Loops \cup Sources \cup Handles
                          /\ Loops \cap Sources = {}
                          /\ {None, Null} \cap (Loops \cup Sources \cup {Default}) = {}
                          /\ None # Null

AllLoops == Loops \cup {Default}

VARIABLES
    display,    \* whether there is a display
    state,      \* loop |-> "none", "alive" or "freed"
    block,      \* loop |-> its data_t: "none", "alive" or "freed"
    counter,    \* loop |-> data_t::counter
    do_delete,  \* the loops with data_t::do_delete
    functions,  \* the sources whose function is in a list of the loop's block
    loop,       \* handle |-> its event_loop (and data), or None
    moved,      \* the handles that were moved from: both pointers are null
    source,     \* source handle |-> the source it shares, None or Null
    added,      \* source |-> "none", "active", "removed" or "freed"
    of,         \* source |-> its loop
    removals,   \* source |-> how often wl_event_source_remove was called
    ready,      \* the sources whose file or signal has something to say
    current,    \* the loop being dispatched, or None
    phase,      \* how far wl_event_loop_dispatch is
    batch,      \* the sources it has still to look at
    running,    \* the source whose handler runs, or None
    closing,    \* the loop being destroyed, or None
    faults      \* null pointers that were followed

loopVars     == <<display, state, block, counter, do_delete>>
handleVars   == <<loop, moved>>
sourceVars   == <<functions, source, added, of, removals>>
dispatchVars == <<current, phase, batch, running>>
otherVars    == <<ready, dispatchVars, closing, faults>>
vars == <<loopVars, handleVars, sourceVars, ready, dispatchVars, closing, faults>>

LoopTypeOK ==
    /\ display \in {"none", "alive", "freed"}
    /\ state \in [AllLoops -> {"none", "alive", "freed"}]
    /\ block \in [AllLoops -> {"none", "alive", "freed"}]
    /\ counter \in [AllLoops -> Int] /\ do_delete \subseteq AllLoops
    /\ functions \subseteq Sources
    /\ loop \in [Handles -> AllLoops \cup {None}]
    /\ moved \subseteq {h \in Handles : loop[h] = None}
    /\ source \in [SourceHandles -> Sources \cup {None, Null}]
    /\ added \in [Sources -> {"none", "active", "removed", "freed"}]
    /\ of \in [Sources -> AllLoops \cup {None}] /\ removals \in [Sources -> Nat]
    /\ ready \subseteq Sources
    /\ current \in AllLoops \cup {None} /\ running \in Sources \cup {None}
    /\ phase \in {"return", "idles", "ready", "again"} /\ batch \subseteq Sources
    /\ closing \in AllLoops \cup {None} /\ faults \subseteq {"block", "source"}

Init ==
    /\ display = "none" /\ state = [l \in AllLoops |-> "none"]
    /\ block = [l \in AllLoops |-> "none"] /\ counter = [l \in AllLoops |-> 0]
    /\ do_delete = {} /\ functions = {}
    /\ loop = [h \in Handles |-> None] /\ moved = {}
    /\ source = [v \in SourceHandles |-> None]
    /\ added = [s \in Sources |-> "none"] /\ of = [s \in Sources |-> None]
    /\ removals = [s \in Sources |-> 0] /\ ready = {}
    /\ current = None /\ phase = "return" /\ batch = {} /\ running = None
    /\ closing = None /\ faults = {}

\* The program's own code runs.
ProgramRuns == closing = None /\ (current = None \/ running # None)

HandlesOf(l) == {h \in Handles : loop[h] = l}
SharedBy(s)  == {v \in SourceHandles : source[v] = s}
SourcesOf(l) == {s \in Sources : of[s] = l}
Unused(h)    == loop[h] = None /\ h \notin moved

\* A program that takes care lets its sources go before their loop, its
\* handles before the loop ends, and ends no loop in the loop's own handlers.
MayEnd(l) ==
    \/ "loop_first" \in Habits
    \/ /\ current # l
       /\ \A s \in SourcesOf(l) : SharedBy(s) \subseteq Immortal
-----------------------------------------------------------------------------
(* event_loop_t *)

\* init(): a block with one reference.
init(l) == /\ block' = [block EXCEPT ![l] = "alive"]
           /\ counter' = [counter EXCEPT ![l] = 1]

\* event_loop_t(): wl_event_loop_create() and init().
CreateLoop(h, l) ==
    /\ ProgramRuns /\ Unused(h) /\ l # Default /\ state[l] = "none"
    /\ state' = [state EXCEPT ![l] = "alive"] /\ init(l)
    /\ do_delete' = do_delete \cup {l} /\ loop' = [loop EXCEPT ![h] = l]
    /\ UNCHANGED <<display, moved, sourceVars, otherVars>>

\* Mutant: do_delete keeps its default.
managed_Deleted(l) == do_delete' = do_delete \cup {l}

\* "default event loop is managed by the display".
managed(l) == do_delete' = do_delete \ {l}

\* Mutant: a block that was there already is not counted.
found_NotCounted(l) == UNCHANGED counter

found(l) == counter' = [counter EXCEPT ![l] = @ + 1]

\* display_t::get_event_loop(): event_loop_t(wl_event_loop*) finds the block by
\* its destroy listener and counts, also from 0, or makes one that does not
\* delete the loop.
GetEventLoop(h) ==
    /\ ProgramRuns /\ Unused(h) /\ display = "alive"
    /\ IF block[Default] = "none"
       THEN init(Default) /\ managed(Default)
       ELSE found(Default) /\ UNCHANGED <<block, do_delete>>
    /\ loop' = [loop EXCEPT ![h] = Default]
    /\ UNCHANGED <<display, state, moved, sourceVars, otherVars>>

\* event_loop_t(const event_loop_t&).
CopyLoop(h, from) ==
    /\ ProgramRuns /\ Unused(h) /\ loop[from] # None
    /\ loop' = [loop EXCEPT ![h] = loop[from]]
    /\ counter' = [counter EXCEPT ![loop[from]] = @ + 1]
    /\ UNCHANGED <<display, state, block, do_delete, moved, sourceVars, otherVars>>

\* Mutant: no loop is destroyed.
fini_Kept(l) == closing' = None

\* fini(): at 0 an own loop is destroyed.
fini(l) == closing' = IF counter[l] = 1 /\ l \in do_delete THEN l ELSE None

\* ~event_loop_t(): fini() follows data, which is null after a move.
DropLoop(h) ==
    /\ ProgramRuns
    /\ IF h \in moved
       THEN /\ "moved" \in Habits
            /\ faults' = faults \cup {"block"} /\ moved' = moved \ {h}
            /\ UNCHANGED <<loop, counter, closing>>
       ELSE /\ loop[h] # None
            /\ counter[loop[h]] = 1 /\ loop[h] \in do_delete => MayEnd(loop[h])
            /\ fini(loop[h])
            /\ counter' = [counter EXCEPT ![loop[h]] = @ - 1]
            /\ loop' = [loop EXCEPT ![h] = None]
            /\ UNCHANGED <<moved, faults>>
    /\ UNCHANGED <<display, state, block, do_delete, sourceVars, ready, dispatchVars>>

\* operator=(const event_loop_t&): the old loop goes before the new one is
\* counted, which is harmless unless they are the same.
AssignLoop(h, from) ==
    /\ ProgramRuns /\ h # from /\ loop[h] # None /\ loop[from] # None
    /\ counter[loop[h]] = 1 /\ loop[h] \in do_delete => MayEnd(loop[h])
    /\ fini(loop[h])
    /\ counter' = [l \in AllLoops |->
                     counter[l] + (IF l = loop[from] THEN 1 ELSE 0)
                                - (IF l = loop[h] THEN 1 ELSE 0)]
    /\ loop' = [loop EXCEPT ![h] = loop[from]]
    /\ UNCHANGED <<display, state, block, do_delete, moved, sourceVars, ready, dispatchVars, faults>>

\* event_loop_t(event_loop_t&&): swaps with null pointers.
MoveLoop(h, from) ==
    /\ ProgramRuns /\ Unused(h) /\ loop[from] # None
    /\ loop' = [loop EXCEPT ![h] = loop[from], ![from] = None]
    /\ moved' = moved \cup {from}
    /\ UNCHANGED <<loopVars, sourceVars, otherVars>>

\* operator=(event_loop_t&&): a handle that was moved from takes over again.
SwapLoops(h, g) ==
    /\ ProgramRuns /\ h # g /\ ~Unused(h) /\ ~Unused(g)
    /\ loop' = [loop EXCEPT ![h] = loop[g], ![g] = loop[h]]
    /\ moved' = {IF x = h THEN g ELSE IF x = g THEN h ELSE x : x \in moved}
    /\ UNCHANGED <<loopVars, sourceVars, otherVars>>
-----------------------------------------------------------------------------
(* The loop's end *)

\* display_t(): wl_display_create makes the default loop.
CreateDisplay ==
    /\ ProgramRuns /\ display = "none"
    /\ display' = "alive" /\ state' = [state EXCEPT ![Default] = "alive"]
    /\ UNCHANGED <<block, counter, do_delete, handleVars, sourceVars, otherVars>>

\* wl_display_destroy, which destroys the loop at its end.
DestroyDisplay ==
    /\ ProgramRuns /\ display = "alive"
    /\ MayEnd(Default) /\ (HandlesOf(Default) = {} \/ "loop_first" \in Habits)
    /\ display' = "freed" /\ closing' = Default
    /\ UNCHANGED <<state, block, counter, do_delete, handleVars, sourceVars, ready,
                   dispatchVars, faults>>

\* destroy_func(), by the destroy signal: the block goes with all functions.
destroy_func(l) ==
    /\ block' = IF block[l] = "alive" THEN [block EXCEPT ![l] = "freed"] ELSE block
    /\ functions' = functions \ SourcesOf(l)

\* wl_event_loop_destroy: the signal, then the sources that were removed; those
\* that were not stay behind, without a loop.
DestroyLoop ==
    /\ closing # None
    /\ destroy_func(closing)
    /\ state' = [state EXCEPT ![closing] = "freed"]
    /\ added' = [s \in Sources |-> IF of[s] = closing /\ added[s] = "removed"
                                   THEN "freed" ELSE added[s]]
    /\ closing' = None
    /\ UNCHANGED <<display, counter, do_delete, handleVars, source, of, removals, ready,
                   dispatchVars, faults>>
-----------------------------------------------------------------------------
(* event_source_t *)

Free(v) == source[v] = None

\* wl_event_source_remove: the source is put on the list of those to be freed.
wl_event_source_remove(s) ==
    /\ removals' = [removals EXCEPT ![s] = @ + 1]
    /\ added' = [added EXCEPT ![s] = IF @ = "active" THEN "removed" ELSE @]

\* The function of a source is appended to a list of the block.  (An element of
\* a list stays where it is.)
push_back(s) == functions' = functions \cup {s}

\* add_fd(), add_timer(), add_signal(), add_idle(): the last function of the list
\* goes with the new source, if libwayland makes one.
AddSource(h, v, s) ==
    /\ ProgramRuns /\ loop[h] # None /\ Free(v) /\ added[s] = "none"
    /\ push_back(s) /\ of' = [of EXCEPT ![s] = loop[h]]
    /\ \/ /\ added' = [added EXCEPT ![s] = "active"]
          /\ source' = [source EXCEPT ![v] = s]
       \/ /\ "add_fails" \in Habits
          /\ added' = [added EXCEPT ![s] = "freed"]
          /\ source' = [source EXCEPT ![v] = Null]
    /\ UNCHANGED <<loopVars, handleVars, removals, otherVars>>

\* refcounted_wrapper: copy.  (One handle is enough to cancel an idle task.)
CopySource(v, from) ==
    /\ ProgramRuns /\ Free(v) /\ source[from] \in Sources /\ from \notin Immortal
    /\ KindOf[source[from]] = "idle" => "idle_kept" \in Habits
    /\ source' = [source EXCEPT ![v] = source[from]]
    /\ UNCHANGED <<loopVars, handleVars, functions, added, of, removals, otherVars>>

\* An idle task whose handle may go: it has not begun, and will not.
Cancellable(s) == KindOf[s] = "idle" => added[s] = "active" /\ running # s

\* Mutant: the function goes, too.
deleter_WithFunction(s) == wl_event_source_remove(s) /\ functions' = functions \ {s}

\* The shared pointer's deleter.  The function stays in its list.
deleter(s) == wl_event_source_remove(s) /\ UNCHANGED functions

\* Mutant: the handles do not know of each other.
last_Each(v) == TRUE

last(v) == SharedBy(source[v]) = {v}

\* ~event_source_t(): the deleter runs for the last one, and for a null pointer
\* as well.
DropSource(v) ==
    LET s == source[v] IN
    /\ ProgramRuns /\ ~Free(v) /\ v \notin Immortal
    /\ source' = [source EXCEPT ![v] = None]
    /\ IF s = Null
       THEN faults' = faults \cup {"source"} /\ UNCHANGED <<removals, added, functions>>
       ELSE /\ last(v) => Cancellable(s) \/ "idle_kept" \in Habits
            /\ IF last(v) THEN deleter(s) ELSE UNCHANGED <<removals, added, functions>>
            /\ UNCHANGED faults
    /\ UNCHANGED <<loopVars, handleVars, of, ready, dispatchVars, closing>>

\* The handle of an idle task goes before it runs.
Cancel(v) == source[v] \in Sources /\ KindOf[source[v]] = "idle" /\ DropSource(v)
-----------------------------------------------------------------------------
(* Dispatching *)

Active(l, kinds) == {s \in SourcesOf(l) : added[s] = "active" /\ KindOf[s] \in kinds}

\* A file can be read, a signal arrives.  A timer is never armed: timer_update
\* asks event_source_t::c_ptr(), whose member event_source nobody sets, and
\* throws.
Arrives(s) ==
    /\ added[s] = "active" /\ KindOf[s] \in {"fd", "signal"}
    /\ closing = None /\ ready' = ready \cup {s}
    /\ UNCHANGED <<loopVars, handleVars, sourceVars, dispatchVars, closing, faults>>

\* What is to be cancelled has been: no idle task is left that will run while
\* a handle that will end refers to it.
IdleTasksSettled(l) ==
    \/ "idle_kept" \in Habits
    \/ \A s \in Active(l, {"idle"}) : SharedBy(s) \subseteq Immortal

\* event_loop_t::dispatch(), display_t::run().
Dispatch(l) ==
    /\ IdleTasksSettled(l)
    /\ closing = None /\ current = None /\ state[l] = "alive"
    /\ l = Default => display = "alive"
    /\ l # Default => HandlesOf(l) # {}
    /\ current' = l /\ phase' = "idles"
    /\ UNCHANGED <<loopVars, handleVars, sourceVars, ready, batch, running, closing, faults>>

InLibrary == closing = None /\ current # None /\ running = None

\* wl_event_loop_dispatch_idle; event_loop_idle_func calls the function.
RunIdle(s) ==
    /\ InLibrary /\ phase \in {"idles", "again"} /\ s \in Active(current, {"idle"})
    /\ running' = s
    /\ UNCHANGED <<loopVars, handleVars, sourceVars, ready, current, phase, batch, closing, faults>>

\* epoll_wait: what is ready now.
Poll ==
    /\ InLibrary /\ phase = "idles" /\ Active(current, {"idle"}) = {}
    /\ batch' = ready \cap Active(current, {"fd", "signal"}) /\ phase' = "ready"
    /\ UNCHANGED <<loopVars, handleVars, sourceVars, ready, current, running, closing, faults>>

\* One source of the batch, unless a handler has removed it meanwhile: its
\* memory is still there.  event_loop_fd_func and event_loop_signal_func call
\* the function.
RunReady(s) ==
    /\ InLibrary /\ phase = "ready" /\ s \in batch
    /\ batch' = batch \ {s}
    /\ running' = IF added[s] = "active" THEN s ELSE None
    /\ UNCHANGED <<loopVars, handleVars, sourceVars, ready, current, phase, closing, faults>>

\* wl_event_loop_process_destroy_list.
ProcessDestroyList ==
    /\ InLibrary /\ phase = "ready" /\ batch = {}
    /\ added' = [s \in Sources |-> IF of[s] = current /\ added[s] = "removed"
                                   THEN "freed" ELSE added[s]]
    /\ phase' = "again"
    /\ UNCHANGED <<loopVars, handleVars, functions, source, of, removals, ready, current,
                   batch, running, closing, faults>>

\* The handler returns, having read what there was; an idle task is removed.
HandlerReturns ==
    /\ running # None /\ closing = None /\ IdleTasksSettled(current)
    /\ IF KindOf[running] = "idle" THEN wl_event_source_remove(running)
                                   ELSE UNCHANGED <<removals, added>>
    /\ ready' = ready \ {running} /\ running' = None
    /\ UNCHANGED <<loopVars, handleVars, functions, source, of, current, phase, batch, closing, faults>>

DispatchReturns ==
    /\ InLibrary /\ phase = "again" /\ Active(current, {"idle"}) = {}
    /\ current' = None /\ phase' = "return"
    /\ UNCHANGED <<loopVars, handleVars, sourceVars, ready, batch, running, closing, faults>>
-----------------------------------------------------------------------------
LoopStep ==
    \/ \E h \in Handles :
          \/ \E l \in Loops : CreateLoop(h, l)
          \/ GetEventLoop(h) \/ DropLoop(h)
          \/ \E from \in Handles :
                CopyLoop(h, from) \/ AssignLoop(h, from) \/ MoveLoop(h, from)
                \/ SwapLoops(h, from)
    \/ CreateDisplay \/ DestroyDisplay

SourceStep ==
    \E v \in SourceHandles :
       \/ \E h \in Handles, s \in Sources : AddSource(h, v, s)
       \/ \E from \in SourceHandles : CopySource(v, from)
       \/ DropSource(v)

LibraryStep ==
    \/ DestroyLoop \/ Poll \/ ProcessDestroyList \/ DispatchReturns \/ HandlerReturns
    \/ \E s \in Sources : RunIdle(s) \/ RunReady(s)

Next ==
    \/ LoopStep \/ SourceStep \/ LibraryStep
    \/ \E l \in AllLoops : Dispatch(l)
    \/ \E s \in Sources : Arrives(s)

\* The library goes on, handlers return, and a program dispatches each loop it
\* has again and again, for which it cancels what it means to cancel; what it
\* does besides, and what arrives, is open.
Fairness ==
    /\ WF_vars(LibraryStep)
    /\ \A l \in AllLoops : SF_vars(Dispatch(l))
    /\ SF_vars(\E v \in SourceHandles : Cancel(v))

Spec == Init /\ [][Next]_vars /\ Fairness
-----------------------------------------------------------------------------
(* Properties *)

\* A block counts the handles of its loop: those of the default loop from 0 up
\* again after the last one has gone, which is not the loop's end; an own loop
\* is there as long as its handles.
LoopCounted ==
    \A l \in AllLoops : block[l] = "alive" => counter[l] = Cardinality(HandlesOf(l))

\* Nothing that was freed, or never was there, is used: handles have their loop
\* and its block, shared sources their memory and a loop to be removed from,
\* and a source that can still be called has a function to call.  The display
\* frees its loop with the block under all handles, removing a source in its
\* own handler must leave the function that runs, and an idle task is freed by
\* libwayland under its handle.
NothingFreedInUse ==
    /\ faults = {}
    /\ \A h \in Handles : loop[h] # None =>
          state[loop[h]] = "alive" /\ block[loop[h]] = "alive"
    /\ \A v \in SourceHandles \ Immortal : source[v] \in Sources =>
          added[source[v]] # "freed" /\ state[of[source[v]]] = "alive"
    /\ \A s \in Sources : added[s] = "active" /\ state[of[s]] = "alive" =>
          s \in functions
    /\ running # None => state[of[running]] = "alive" /\ running \in functions

\* "Idle tasks fire once, and are automatically destroyed right after" and
\* "Calling event_source_t::remove() after or from within the callback results
\* in undefined behaviour" (wayland-server.hpp:881-886): a source is removed
\* once, by its last handle, or by libwayland after it ran.
RemovedOnce == \A s \in Sources : removals[s] <= 1

\* What is due is done: a source that is ready gets its handler, an idle task
\* runs, unless the program removes it or ends the loop, also when no
\* event_loop_t is left and only the display runs the loop.
Due(s) == added[s] = "active" /\ (s \in ready \/ KindOf[s] = "idle")

EverySourceRuns ==
    \A s \in Sources : Due(s) ~> (~Due(s) \/ state[of[s]] = "freed")

\* Loops and sources are what SharedObject promises: taken up only from a
\* holder, disposed of without holders, and not left behind.  The display is a
\* holder of its loop.  Idle tasks are not, see RemovedOnce.
SharedSources == {s \in Sources : KindOf[s] # "idle"}

Shared == INSTANCE SharedObject WITH
    Objects <- AllLoops \cup SharedSources,
    Holders <- Handles \cup SourceHandles \cup {Default},
    holders <- [o \in AllLoops \cup SharedSources |->
                  IF o \in Sources THEN SharedBy(o)
                  ELSE HandlesOf(o) \cup {d \in {Default} : o = d /\ display = "alive"}],
    exists <- {l \in AllLoops : state[l] = "alive"}
              \cup {s \in SharedSources : added[s] \in {"active", "removed"}}

\* See Shared.
ImplementsSharedObject == Shared!Spec
=============================================================================
