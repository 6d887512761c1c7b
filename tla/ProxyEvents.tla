---------------------------- MODULE ProxyEvents ----------------------------
(***************************************************************************)
(* Events and object lifetime: proxy_t::c_dispatcher (src/wayland-         *)
(* client.cpp) on top of Proxy.                                            *)
(*                                                                         *)
(* libwayland reads events into a queue and dispatches them later.  Under  *)
(* its lock it drops an event whose target has been destroyed meanwhile    *)
(* and clears arguments that have been; then it unlocks and calls          *)
(* c_dispatcher, which makes proxy_t's out of raw pointers: first of the   *)
(* arguments, then of the target.  They are locals of the dispatcher, here *)
(* the slots Arg and Target, so they keep their objects through whatever   *)
(* the handler does with the client's own handles.                         *)
(***************************************************************************)
EXTENDS Proxy, Sequences

CONSTANTS
    Arg, Target,   \* the dispatcher's locals: vargs[0] and p
    Habits,        \* what the environment does beyond the plain case
    MaxEvents      \* bound on queued events

ASSUME LocalsAssumption == {Arg, Target} \subseteq Handles /\ Arg # Target

(***************************************************************************)
(*   "other_thread"  handles are released by threads that do not dispatch  *)
(*   "unhandled"     an event with a new object has no handler             *)
(*   "their_objects"  another library uses the same connection             *)
(*   "foreign_arg"   an event names an object of that library              *)
(*   "queued_factory"  an object on a client's queue makes new objects     *)
(***************************************************************************)
ASSUME HabitsAssumption ==
    Habits \subseteq {"other_thread", "unhandled", "their_objects", "foreign_arg",
                     "queued_factory"}
ASSUME BoundAssumption == MaxEvents \in Nat

VARIABLES
    pending,       \* events read and not dispatched yet
    event,         \* the event being dispatched
    at,            \* how far its dispatch has come
    theirs,        \* objects of another library on the same connection
    raw            \* objects made by an event, without a dispatcher as yet

eventVars == <<pending, event, at, theirs, raw>>
evVars == <<vars, eventVars>>

\* An event: its target and its object argument, if any, which is a new
\* object (signature 'n') or an existing one ('o').
Events == [target : Objects, arg : Objects \cup {None}, new : BOOLEAN]
NoEvent == [target |-> None, arg |-> None, new |-> FALSE]

Places == {"idle", "args", "target", "call", "running", "leaving", "left"}

EvTypeOK ==
    /\ TypeOK
    /\ pending \in Seq(Events) /\ Len(pending) <= MaxEvents
    /\ event \in Events \cup {NoEvent}
    /\ at \in Places
    /\ theirs \in SUBSET Objects /\ raw \in SUBSET Objects

EvInit ==
    /\ Init
    /\ pending = <<>> /\ event = NoEvent /\ at = "idle" /\ theirs = {} /\ raw = {}

ClientHandles == Handles \ {Arg, Target}

\* Queued events keep the memory of the wl_proxys they name.
Undone == {event} \cup {pending[i] : i \in 1..Len(pending)}
Named == {e.target : e \in Undone} \cup {e.arg : e \in Undone}

\* No call of the client or of the dispatcher is inside a proxy_release().
Quiet == \A s \in Slots : Idle(s)
-----------------------------------------------------------------------------
(* The compositor and the other library *)

\* Objects an event to o has introduced that is not dispatched yet.
Announced(o) == {a \in live : \E e \in Undone : e.new /\ e.arg = a /\ e.target = o}

\* The compositor's event for object o is read, with argument a: an object the
\* client has or an earlier event for o has announced, or a new one.
Receive(o, a, new) ==
    /\ Len(pending) < MaxEvents
    /\ Open /\ o \in live \cap Objects /\ o \notin theirs
    /\ o \in Destroyable => o \in resource
    /\ pending' = Append(pending, [target |-> o, arg |-> a, new |-> new])
    /\ IF new
       THEN /\ a \in Objects \ theirs /\ Unused(a) /\ a \notin Named
            /\ wlQueue[o] = None \/ "queued_factory" \in Habits
            /\ live' = live \cup {a} /\ raw' = raw \cup {a}
            /\ wlQueue' = [wlQueue EXCEPT ![a] = wlQueue[o]]
            /\ resource' = IF a \in Destroyable THEN resource \cup {a} ELSE resource
       ELSE /\ a = None \/ a \in (live \cap allocated \cap Objects) \cup theirs \cup Announced(o)
            /\ a \in theirs => "foreign_arg" \in Habits
            /\ UNCHANGED <<live, wlQueue, resource, raw>>
    /\ UNCHANGED <<slotVars, dataVars, foreign, queueVars, event, at, theirs>>

\* Another library that shares the connection makes and destroys an object.
TheirCreate(o) ==
    /\ "their_objects" \in Habits
    /\ Open /\ Unused(o) /\ o \notin Named
    /\ live' = live \cup {o} /\ theirs' = theirs \cup {o}
    /\ wlQueue' = [wlQueue EXCEPT ![o] = None]
    /\ UNCHANGED <<slotVars, dataVars, resource, foreign, queueVars, pending,
                   event, at, raw>>

TheirDestroy(o) ==
    /\ o \in theirs
    /\ at \in {"idle", "running"} \/ "other_thread" \in Habits
    /\ live' = live \ {o} /\ theirs' = theirs \ {o}
    /\ UNCHANGED <<slotVars, dataVars, wlQueue, resource, foreign, queueVars,
                   pending, event, at, raw>>
-----------------------------------------------------------------------------
(* Dispatching one event *)

\* libwayland's dispatch_event, under the display's lock: an event for a
\* destroyed proxy, or one without a dispatcher, is dropped; an argument that
\* has been destroyed is cleared.
Take ==
    /\ at = "idle" /\ pending # <<>>
    /\ Quiet \/ "other_thread" \in Habits
    /\ LET e == Head(pending) IN
       IF e.target \in live \ (raw \cup theirs)
       THEN /\ event' = [e EXCEPT !.arg = IF @ \in live THEN @ ELSE None]
            /\ at' = "args"
       ELSE UNCHANGED <<event, at>>
    /\ pending' = Tail(pending)
    /\ UNCHANGED <<vars, theirs, raw>>

\* Mutants: no reference is taken; or the user data is cleared for an existing
\* object too (only for new ones it is uninitialised).
Acquire_NotCounted(s, p) ==
    /\ p \in live
    /\ proxy' = [proxy EXCEPT ![s] = p]
    /\ type' = [type EXCEPT ![s] = "standard"]
    /\ UNCHANGED <<stage, ending, dataVars, wlVars, queueVars>>
Acquire_UserDataCleared(s, p) ==
    /\ p \in live
    /\ proxy' = [proxy EXCEPT ![s] = p]
    /\ type' = [type EXCEPT ![s] = "standard"]
    /\ counter' = [counter EXCEPT ![p] = 1]
    /\ NewData(p, None, FALSE)
    /\ UNCHANGED <<stage, ending, wlVars, queueVars>>

\* proxy_t(p) for local slot s, on the user data of p: a further reference, or
\* a new block if there is none.
Acquire(s, p) ==
    /\ p \in live
    /\ proxy' = [proxy EXCEPT ![s] = p]
    /\ type' = [type EXCEPT ![s] = "standard"]
    /\ IF p \in allocated
       THEN /\ counter' = [counter EXCEPT ![p] = @ + 1]
            /\ UNCHANGED <<allocated, queue, has_destroy_opcode>>
       ELSE /\ counter' = [counter EXCEPT ![p] = 1]
            /\ NewData(p, None, FALSE)
    /\ UNCHANGED <<stage, ending, wlVars, queueVars>>

\* The argument becomes a proxy_t.  A new object has no user data yet.
WrapArg ==
    /\ at = "args"
    /\ IF event.arg = None THEN UNCHANGED vars ELSE Acquire(Arg, event.arg)
    /\ at' = "target"
    /\ UNCHANGED <<pending, event, theirs, raw>>

\* Mutant: the dispatcher uses the raw target, without a proxy_t of its own.
WrapTarget_Raw ==
    /\ at = "target"
    /\ at' = "call"
    /\ UNCHANGED <<vars, pending, event, theirs, raw>>

\* proxy_t p(target)
WrapTarget ==
    /\ at = "target"
    /\ Acquire(Target, event.target)
    /\ at' = "call"
    /\ UNCHANGED <<pending, event, theirs, raw>>

\* Mutant: the handler gets a plain proxy_t instead of the interface class.
Call_Untyped ==
    /\ at = "call"
    /\ \/ at' = "running" /\ raw' = raw \ {event.arg}
       \/ /\ event.new => "unhandled" \in Habits
          /\ at' = "leaving" /\ UNCHANGED raw
    /\ UNCHANGED <<vars, pending, event, theirs>>

\* The generated dispatcher: if the client has set a handler, the argument is
\* given its interface class, whose constructor sets the destroy opcode, and
\* the handler is called.
Call ==
    /\ at = "call"
    /\ \/ /\ at' = "running"
          /\ has_destroy_opcode' =
                 has_destroy_opcode \cup ({event.arg} \cap Destroyable)
          /\ raw' = raw \ {event.arg}
       \/ /\ event.new => "unhandled" \in Habits
          /\ at' = "leaving" /\ UNCHANGED <<has_destroy_opcode, raw>>
    /\ UNCHANGED <<slotVars, allocated, counter, queue, wlVars, queueVars,
                   pending, event, theirs>>

\* The handler keeps the object it was given.
Keep(h) ==
    /\ at = "running" /\ h \in ClientHandles
    /\ Full(Arg) /\ Copy(Arg, h)
    /\ UNCHANGED eventVars

Return ==
    /\ at = "running" /\ Quiet
    /\ at' = "leaving"
    /\ UNCHANGED <<vars, pending, event, theirs, raw>>

\* The locals are destructed: p, then vargs.
LeaveTarget ==
    /\ at = "leaving"
    /\ Destruct(Target)
    /\ at' = "left"
    /\ UNCHANGED <<pending, event, theirs, raw>>

LeaveArg ==
    /\ at = "left" /\ Empty(Target) /\ event # NoEvent
    /\ Destruct(Arg)
    /\ event' = NoEvent
    /\ UNCHANGED <<pending, at, theirs, raw>>

\* c_dispatcher has returned.
Done ==
    /\ at = "left" /\ event = NoEvent /\ Empty(Arg)
    /\ at' = "idle"
    /\ UNCHANGED <<vars, pending, event, theirs, raw>>

Dispatch == Take \/ WrapArg \/ WrapTarget \/ Call \/ Return
              \/ LeaveTarget \/ LeaveArg \/ Done

\* Client code runs between dispatches and in handlers, one call at a time,
\* unless there are other threads.  The memory of a proxy named by an event
\* is not reused.
ClientStep ==
    /\ \/ at \in {"idle", "running"} /\ Quiet
       \/ "other_thread" \in Habits
    /\ \/ Client(ClientHandles)
       \/ \E q \in Queues : DropQueue(q)
    /\ (live' \ live) \cap Named = {}
    \* the display_t goes last, when nothing is dispatched
    /\ Open /\ ~Open' => at = "idle" /\ pending = <<>> /\ theirs = {}
    \* bound: a queue is not destroyed with events that are under way
    /\ ~(queues \subseteq queues') => at = "idle" /\ pending = <<>>
    /\ UNCHANGED eventVars

ReleaseStep ==
    /\ \/ \E s \in Slots : Continue(s)
       \/ \E w \in Wrappers : Unwrap(w)
    /\ raw' = raw \cap live'
    /\ UNCHANGED <<pending, event, at, theirs>>

EvNext ==
    \/ ClientStep \/ ReleaseStep \/ Dispatch
    \/ \E h \in Handles : Keep(h)
    \/ \E o \in Objects, a \in Objects \cup {None}, new \in BOOLEAN : Receive(o, a, new)
    \/ \E o \in Objects : TheirCreate(o) \/ TheirDestroy(o)

\* Releases run to their end; handlers return and the client keeps dispatching.
EvFairness ==
    /\ WF_evVars(ReleaseStep)
    /\ WF_evVars(Dispatch)

EvSpec == EvInit /\ [][EvNext]_evVars /\ EvFairness
-----------------------------------------------------------------------------
(* Properties *)

\* c_dispatcher never makes a proxy_t out of a proxy whose block has been freed:
\* "Don't bother dispatching for objects that we don't know about, or not any
\* more" (src/wayland-client.cpp:111).
TargetKnown ==
    at \in {"args", "target"} => /\ event.target \in live \cap allocated
                                 /\ event.arg # None => event.arg \in live

\* Whatever a handler releases, the object it is called for and the object it
\* is given exist, with their handlers, until it returns.
HandlerKeepsObjects ==
    at \in {"call", "running"} =>
        /\ event.target \in live \cap allocated
        /\ event.arg # None => event.arg \in live \cap allocated

\* An object of another library is never destroyed by waylandpp.
TheirsNotDestroyed == theirs \subseteq live
=============================================================================
