# Formal specification of waylandpp

TLA+ models of the C++ bindings for libwayland in this repository, with the TLC
runs that check them on small instances and TLAPS proofs for instances of any
size. `PROJECT.json` maps every definition to the lines it models.

waylandpp is a layer between a program and libwayland. It has little data and
hardly any algorithms of its own. What it adds, and what can go wrong in it, is
**ownership**: C++ handles that are copied, moved and dropped by several
threads and inside callbacks, for C objects that libwayland, the compositor and
other libraries also refer to. That is what the models are about.

## 1. The parts of the system

| part | state | operations | module |
|---|---|---|---|
| `proxy_t` (client) | pointer, type and block of each handle; counter, queue, wrapped proxy and destroy opcode of each block | construct, copy, move, assign, release, destruct, wrap, set the queue, marshal | `Proxy` |
| `event_queue_t` | shared pointer to a `wl_event_queue` | create, copy, drop | `Proxy` |
| `c_dispatcher` (client), generated dispatchers | locals that hold the target and the arguments while a handler runs | turn pointers into handles, give a new object its class, call the handler | `ProxyEvents` |
| `read_intent`, `display_t::dispatch` | `finalized` flag of each intent; libwayland's count of readers | obtain, read, cancel, move, leave the scope, dispatch | `ReadIntent` |
| `display_t` (client) | a `proxy_t` whose destruction disconnects | connect, wrap a foreign display, disconnect | `Proxy`, `ReadIntent` |
| `display_t` (server) | counter, handlers, global filter | create, wrap, copy, destroy with all clients | `ServerDisplay` |
| `global_base_t`, `global_t` | counter, `removed`, `on_bind` | create, copy, remove, destroy, bind, ask the filter | `ServerDisplay` |
| `client_t`, `resource_t` (server) | a block per object: handlers, events, listeners | create, find by C pointer, give a class, dispatch a request, destroy | `ServerObjects` |
| `event_loop_t`, `event_source_t` (server) | counter and lists of functions of each loop's block; a shared pointer for each source | create, find, copy, move, swap, assign and drop loops; add, copy and drop sources; dispatch; end | `EventLoop` |
| scanner: generated classes | signatures, type tables, opcodes, calls, dispatchers | send, receive, availability, versions | `Wire`; with the dispatchers also `ProxyEvents`, `ServerObjects` |
| scanner: the program | options, file names, interfaces; two output files and up to four streams | read the command line and the XML, print a header and a body | `Scanner` |
| `argument_t`, `any` | values | pack and unpack arguments | `Wire` |
| `bitfield` | a number, a width and an id | the operators of flags | `Scanner` |
| `array_t` | a `wl_array` | copy and convert | as a value in `Wire` |
| cursor, EGL, log handlers, examples | | | not modelled |

How they interact:

- A program calls the handles; the handles call libwayland; libwayland calls
  back: on the client with events (`c_dispatcher`), on the server with requests,
  with listeners (a client or a resource was created, an object is being
  destroyed) and with questions (the global filter).
- The link back from a C object to its C++ block is the C object's user data or,
  for a server's display, its event loop and older clients, the listener found in
  its destroy signal. Every callback starts by following that link, and makes a
  block if there is none. Most of the defects below are cases in which the link
  is not there yet, not there any more, or somebody else's.
- On the client several threads use different handles of one object; the counter
  is atomic, the rest is not. Several threads read one connection, which
  libwayland coordinates by counting those that announced it.
- A server has one thread. What interleaves are nested calls: the program's
  handlers run in the middle of constructors and destructors.

What is hard, and what would be right:

- **Sharing on the client**: two releases race for the last reference; freeing a
  block frees the handles in it, in a chain that ends with the connection. Right
  is: counters equal references, each object is destroyed once and after its
  dependants, the compositor is told, nothing dangles, nothing stays.
- **Events**: they lie in queues while their objects are released. Right is: the
  handler's objects survive the handler; what events create is owned like
  everything else.
- **Reading**: announced readers wait for each other. Right is: announcements are
  counted, nobody oversleeps an event, nobody waits for ever, all learn of the
  end.
- **Callbacks into half-built and half-destroyed objects on the server**. Right
  is: one block for each object, found by every handle; handlers once, in order,
  on blocks that still exist; no second destruction.
- **Event loops on the server**: a block has two owners, its handles and, for
  the display's default loop, libwayland; a source has two, its handles and, for
  an idle task, libwayland again; and everything may be dropped by the very
  handler that runs. Right is: counters equal handles, no function, block or source
  is used after its end, each source is removed once, and what is due is done.
- **Generated text**: two streams write to each file, prefixes are cut from names,
  classes refer to each other in circles. Right is: the command line is understood,
  the files are whole or untouched, every name denotes one thing and is declared in
  time, flags behave like sets.
- **Messages**: both ends are generated from one XML, possibly of different
  releases, and four loops over its arguments have to agree; objects get their
  versions along two paths. Right is: the handler of the message gets the
  arguments of the call, nothing is refused, and what is available on one side is
  known on the other.

`PROJECT.json` lists these hazards one by one, each at its line.

## 2. The modules

### SharedObject: the abstract promise

"The underlying Wayland object is destroyed once there are no copies of this
object left" (README.md of the library). An object has a set of holders; it is
created for one, shared and passed on by holders only, disposed of when it has
none, once, and eventually. One call may move several objects at once (two
handles are swapped, a new object takes a copy of another), so a step of the whole
is a step or a stutter of each object. `ProxyEvents` (with all that `Proxy` does),
`ServerDisplay` and `EventLoop` implement it (`ImplementsSharedObject` in each), with
a refinement mapping that reads the holders off the concrete handles, members and
temporaries. For the default loop the display is a holder; idle tasks are left out,
because libwayland ends them with their handle still there.

### Proxy (client)

A *slot* is a `proxy_t`: a variable of the program, or the member
`wrapped_proxy` of the block of a proxy wrapper. `stage` says how far the
`proxy_release()` of a slot has come, so that other threads can act between the
atomic decrement (`Decrement`), the call into libwayland (`Close`), the end of
the members of the block in their C++ order (`Unwrap`, then the queue in `Free`).
Creation, copy, move, wrapping and `set_queue` are one action each: they touch
slots of one thread and one counter. The compositor appears as `resource`, what
it keeps for objects until it is told. `Careless` names usages that the
documentation rules out or does not expect; the passing runs have none.

### ProxyEvents (client)

Extends `Proxy` by the queue of undispatched events and the steps of
`c_dispatcher`: libwayland checks the event under its lock (`Take`), the
arguments become handles (`WrapArg`), then the target (`WrapTarget`), the
generated dispatcher calls the handler or not (`Call`), the locals are released
in C++ order (`LeaveTarget`, `LeaveArg`). Between any two of them the program may
do all that `Proxy` allows; inside the handler it releases what it likes. The
habits add other threads, another library's objects and unhandled events.

### ReadIntent (client)

Threads that loop over announce, poll, read or cancel, dispatch. libwayland's
`reader_count`, the sleeping readers and the read serial are modelled because the
guarantees of `read_intent` depend on them; a thread that uses `dispatch()` does
the same inside libwayland. A `read_intent` leaves its scope normally, after an
exception, or moved from.

### ServerDisplay (server)

`calls` is the call stack. Destroying the display pushes the destruction of the
clients, each of which pushes a handler; announcing a global pushes one filter
call for each client, with a temporary handle. The program acts when one of its
handlers, or nothing, is on top. A `display_t` made from a C pointer (`WrapDisplay`)
counts in the block it finds by the display's listener; a handler that runs after
the listener is gone gets a second block, with the habit `late_display`, which the
run and the theorems exclude.

### ServerObjects (server)

One client, its resources, and libwayland's own resources. `userData` is the
link from the object to its block, `owner` the one back. A resource created by
the library is initialised twice, in `CreateResource` (inside
`wl_resource_create`) and in `FinishInit`. Handles do not keep blocks, so a
program that keeps handles has an `on_destroy` handler that drops them: the
model's programs do exactly that, and the runs show that it is enough.

### EventLoop (server)

`event_loop_t` counts the handles of a loop in a block found by the loop's destroy
listener. `CreateLoop` makes a loop that is destroyed with its last handle
(`do_delete`), `GetEventLoop` finds or makes the block of the display's loop, which
is not: it counts down to 0 and up again, and goes with the display, under
whatever handles there are. Copies, moves, swaps and assignments are one action
each; a loop's end (`DestroyLoop`) is a step after the drop that caused it, because
libwayland's signal frees the block then.

Sources are shared pointers (`refcounted_wrapper`) whose end is
`wl_event_source_remove`. Libwayland then only puts a source on a list and frees it
when the round of dispatching is over, which is what makes it safe for a handler to
drop its own source; the steps of a round are `RunIdle`, `Poll`, `RunReady`,
`ProcessDestroyList`, `DispatchReturns`, and the program acts in each handler. The
function of a source is appended to a list of the block and stays there
(`functions`). `Immortal` source handles are those a program never looks at
again, the way idle tasks and permanent sources are used.

### Scanner

`main()` of `wayland-scanner++`: `parse_args` token by token, `ReadInterface` with
the prefix cut off, enumerations numbered and their widths computed, then the
parts of the output in their order. A line of the text is a part of an interface
with the names it declares, defines, mentions and needs
(`print_forward`, `DeclaresInside`, `DefinesInside`, `MentionsInside`, `NeedsInside`). For a
server, two streams have each file open and write at positions of their own
(`OpenServerFiles`, `Overwritten`): the second intro lies over the first, and
what comes out is right because it is not longer than what is printed later.
`Or`, `And`, `Xor` and `Not` are the operators of `bitfield`, of which two cut
their result off at the width.

### Wire (both)

The definitions of the first half are what the scanner prints, as functions of an
abstract message (a name, a release, a sequence of arguments): `Signature`,
`TypeAt`, `Opcode`, `CallArguments`, `DispatchedType`; then `Body`, which is
libwayland reading the union members by the signature, and `Decode`, the loop of
the two `c_dispatcher` functions. A signature is a function of places: `Place` is
where the letter of an argument stands, behind the digits of a release (which count
as one character: every reader skips them one by one) and a "?" for each nullable
argument before it. A reader takes the places it does not skip in their order (`AtPlaces`),
libwayland with one test (`LetterPlaces`) and the dispatchers with another (`ReadPlaces`).
`wl_registry.bind`, which the registry's own functions send, is `BindCall`. The second half is a client and a server with a
channel in each direction. `proxies` and `resources` are libwayland's object maps
with interface and version; `zombies` are the ids a client has destroyed. A
message carries the call it stands for, for the properties to compare. The
programs may be built from different releases of the protocol; a message belongs
to a release from its `since` on.

## 3. The runs

| run | instance | question |
|---|---|---|
| `proxy` | 3 handles, 2 objects (one with a destroy request), 2 wrappers (they nest), 1 queue, no bad habits | counters, order of destruction, queues kept, foreign objects untouched |
| `events` | 2 handles and the 2 locals, 2 objects, 2 nested wrappers, 2 queued events, another library's objects | handlers keep their objects, no leak at the compositor, refinement of SharedObject with events and with its liveness |
| `read_intent` | 3 threads on 2 queues, 2 events, the connection may close, unpolled reads | counting, no overslept event, no blocked reader, end of connection |
| `server_display` | 1 display with 2 handles, 2 clients, 3 global handles, 2 globals | teardown and filter with nested calls; refinement |
| `server_objects` | 1 client, 2 resources, `wl_display` and a registry, 1 handle, 6 blocks | one block for each object, handlers once and in order, nothing deleted in use, everything deleted at last |
| `event_loop` | an own loop and the default loop, 2 loop handles, 3 source handles (one of them never looked at again), a file and an idle task | counters, nothing freed in use, one removal, what is due is done; refinement |
| `scanner` | command lines of up to 6 items in any order, a file named like an option behind `--`, 3 input files, two of them with 3 contents each, a header of another run | command line, whole outputs, names, flags |
| `wire` | 3 objects, 3 messages under way, 2 releases on each side, a protocol with all argument types behind all prefixes | right handler, right arguments, nothing refused, versions and interfaces agree |

Why these bounds are enough: the defects of the class looked for are made by two
references to one object and a third actor (two releases and a copy; a handle, a
wrapper and its wrapped object; a handler, a temporary and a keeper). Two objects
give every relation between objects the code has (wrapper and wrapped, parent and
new object, target and argument); two wrappers are needed because wrappers nest.
Two queued events let one event name what another destroys. Three threads are
needed for "the last one reads while two sleep". `MaxBlocks = 6` is what the
client, a registry and two twice initialised resources need, so it never cuts a
behaviour off. `MaxCounter` is above the number of slots, so it does not either. In `wire`
three objects are a global, what it creates and what that is an argument for;
three messages are a creation, a use or destruction, and an event that crosses
them. Loops over arguments have no memory but a counter, so each type behind each
kind of prefix (nothing, "?", a digit, a new object) is enough. That run does not
look for deadlocks, because a client that has used its ids up and destroyed its
objects may stop. In `event_loop` two handles are copy and original, or one of each
loop; the third source handle is there so that an idle task can run (a handle that
will be dropped has to go before) while the file's source is shared by two; one file and one
idle task meet in one round in both orders. In `scanner` two interfaces refer to each
other's classes and enumerations, a third comes from another header, and widths
of 1 to 4 bits with 0 and combined flags occur; the loops over interfaces have
no memory but the numbering, which two files exercise.

The type invariant of `Proxy` is checked by `proxy`; those of the other modules are
proved (that of `Scanner` are the types in `ReadOK` and `FilesOK`).

### Where the code does not do what it says

| run | the code | what is claimed |
|---|---|---|
| `copy_over` | copy assignment to a handle that holds an object forgets to release it | README: destroyed once there are no copies left |
| `events_queue` | an object created by an event does not retain the queue it is on | `marshal_single`: "libwayland-client inherits the queue, so we need to, too" |
| `null_object` | a null object in a request with a handler dereferences a null pointer | "this is a empty dummy resource created by the c_dispatcher" |
| `old_version` | a resource created by a request has the latest version of its interface, not that of its parent | `can_X()`: "available with the currently bound version of the protocol" |

Each is a run in which TLC has to find the violation. The passing runs leave the
usage or the path in question out by a habit (`Careless`, `Habits`) and nothing
else, so they show that the rest is right.

Other divergences met while modelling have their property in the module but no
run of their own. On the client and in the messages: an object that another library owns and an event names is taken
for our own and destroyed (`TheirsNotDestroyed` with the habit `foreign_arg`); a
moved-from `read_intent` cancels the intent its target still holds
(`NobodyReadsMeanwhile` with `moved`); a server cannot send an event that
introduces an object, because the generated function passes null for it and
libwayland ends the connection (`ConnectionHolds` with `offer`);
`proxy_release()` on the last `display_t` disconnects although
the documentation says it is ignored (`DisplayReleaseIgnored`); a handle emptied
by it cannot be copied (`CopyNeverThrows`); a display wrapper's block closes the
connection before it destroys its queue (`WrapperQueueInTime`); an event without
handler leaves its new object without destroy request (`NoCompositorLeak` with
the habit `unhandled`); another thread can release the target between libwayland's
check and `c_dispatcher` (`TargetKnown` with the habit `other_thread`); a failed
read is cancelled twice (`ResolvedOnce`). On the server: a client's handler that asks for its
display during teardown destroys it twice, and so does the display's own, which gets
a second block (`TornDownOnce` with `late_display`); `on_resource_created` runs in the middle of the constructor, not "at
the end of this function", and what it sets there belongs to a block that is
replaced, so a handle that it keeps and all later ones have different blocks (`OneBlock`
with `keep_created`; giving the resource its class there, `cast_created`, loses the handlers that
are set then but breaks neither `OneBlock` nor `DispatcherHasEvents`, and the run does it); `client_t(display, fd)`
initialises twice and `get_resource_list()` takes libwayland's user data for a block
(`NothingDeletedInUse` with `client_fd`, `TheirDataUntouched` with `list`); a
generated `on_destroy()` for a request "destroy" hides the one of `resource_t`; nothing
in the library calls `wl_resource_destroy`, so an object lives as long as its client.

Of event loops: the handle of an idle task that is dropped after the task has run
removes a freed source (`RemovedOnce` and `NothingFreedInUse` with `idle_kept`; the
documentation says so, but the handle has no other way to end); a handle that was
moved from follows a null pointer in its destructor (`NothingFreedInUse` with `moved`);
so does the deleter of a source that libwayland could not add (with `add_fails`),
and that of a cursor theme or EGL window; a loop that goes before its sources
leaves them behind, and the default loop's block goes with the display under its
handles (with `loop_first`). `event_source_t::c_ptr()` returns a member that nobody
sets, so `timer_update`, `fd_update` and `check` always throw and no timer ever fires;
`event_loop_t::on_destroy()` returns a const reference, so no handler can be set. Lists of
functions never shrink while their loop lives.

Of the scanner: `-s` or `-x` without a value takes the next file for its value, which
is why `CommandUnderstood` asks for `AsUsage`; an enumeration as the type of an argument
that is no integer throws when both outputs are truncated (`OutputsWhole`, for
such a document); `wl_x` and `wp_x` become one class (`NamesResolve`); enumerations are
numbered from 0 in every run, so flags of two headers can be of one type;
a width above 30 makes `(1 << size) - 1` overflow (`mask` is the constant `WideMask`
then, any number; `FlagsAreSets` is false for the empty one as soon as a flag is above bit
29); `log2(0)` is converted to an integer,
which is undefined (the constant `LogOfZero`; 0 in the run, as compilers for x86-64 make it); `fd_event_mask_t` has four flags and a width of 2 (`FdEventMaskIsSet`
is false). A file that cannot be opened or read is taken for empty.

## 4. Fairness

`Proxy` and `ProxyEvents`: a call that has begun goes on (weak fairness of the
steps of `proxy_release` and of the dispatcher); the program need not call
anything. `ReadIntent`: threads go on with their loops and react to poll; they
need not time out, fail or read. The servers' modules: calls return and handlers
end; nobody has to call, connect or ask. In each case this is what running C++
code does. `EventLoop` alone uses strong fairness: a program dispatches each loop it
has again and again (its main loop; the loop may be busy or absent in between, so
weak fairness would ask nothing), and it cancels the idle tasks it means to cancel
before it dispatches, again and again, because every other action of the program
may come in between. Nothing arrives of necessity. `Scanner` is a sequential program
without liveness properties. No property relies on what the compositor sends.
`ReadReturns` therefore excepts the case in which some other thread keeps its
intent for ever.

## 5. What is proved

`ProxyProofs` proves with TLAPS, for any finite numbers of handles and wrappers,
any objects and queues and every set of careless usages (unless said otherwise):

- `TypeCorrect`: the type invariant;
- `CountedCorrect`: every counter is exactly the number of references, if nobody
  copies over a handle that holds an object;
- `NoDanglingCorrect`: no handle and no block refers to a freed object, with all
  habits;
- `DestroyedOnceCorrect`: of the releases in progress of an object exactly one
  found the counter at 0;
- `ForeignUntouchedCorrect`: foreign objects are never counted or destroyed;
- `QueueRetainedCorrect`: a queue exists as long as any `wl_proxy` with a block is on it;
- `NoCompositorLeakCorrect`: no `wl_proxy` with a destroy request goes without it;
- `DependantsFirstCorrect`: what a wrapper wraps outlives the wrapper, and the
  connection outlives everything, if nobody copies over a handle or leaves a queue to
  the display's block (`Orderly`);
- `ProxyImplements`: the initial state and every step are those of `SharedObject`, for
  each object and wrapper: `ImplementsSharedObject` of `Proxy` without its liveness.

The assumptions are those of `Proxy.tla`: kinds of addresses are disjoint, and
there are finitely many slots (the counters count them).

The argument. None of the invariants is inductive alone. `NoDangling` holds
because a counter that reaches 0 had its last reference; that needs the counters
to be at least the references (`CountOK`); after the decrement the releasing slot
still points to the block but is no reference any more, so the references have to
be defined by `stage`, and it has to be known what a slot in each stage refers to
(`Releasing`), that two slots are never both destroying an object
(`DestroyedOnce`), and that the member of a block is a reference exactly while
the block lives (`MembersOwned`). `IInv` is the conjunction. The proof has lemmas
on how `Refs` and its cardinality change when one slot is added, removed, moved
or emptied, one lemma for each operation, and one step for each action
(`Inductive`).

`CountOK` is an inequality that becomes an equation (`Counted`) without
"copy_over": that is how one invariant serves both theorems.

The later theorems add to `IInv`. `QueueInv`: the queue of a block is retained until the
block's last step. `LastInv` is about the end: wrappers hold what they wrap
(`Holding`), so a chain of wrappers leads to something that is no wrapper
(`Grounded`, the nested wrappers are finitely many), and when nothing but the display's
own references is left, no object, wrapper or queue can be left either (`Ended`, `Last`).

`ProxyEventsProofs`, for one thread that dispatches and releases and events that name
our own objects (`Confined`; both exceptions are findings above):

- `EventTypeCorrect`: the type invariant;
- `HandlerKeepsObjectsCorrect`: target and argument exist, with their blocks, from the
  call of the handler until it returns, whatever it releases;
- `TargetKnownCorrect`: `c_dispatcher` makes handles only of objects that are there;
- `EventsCounted`: `Counted` (unless handles are copied over), `NoDangling` and `DestroyedOnce`;
- `EventsImplement`: every behaviour of `ProxyEvents` starts and steps as `SharedObject` allows,
  unless handles are copied over, which can leave a block that nothing holds;
- `EventsLeakNothing`: no destroy request is forgotten, if every event with a new object has a
  handler;
- `EventQueuesRetained`: the queue of an object exists, if no factory is on a queue of the
  client's (the finding above).

`EvInv` extends the invariant of `Proxy`: an object without block is new or another
library's (`Known`, `Apart`), the two locals hold what the event names at each place of
the dispatcher (`LocalsOK`), and until the handler is called no release is in progress
(`NoReleases`). That the locals suffice is then `NoDangling`: a handle in use is counted. An
object that is taken up has a holder then, because a block without one has a release in
progress (`BlockHeld`).

`EventsLeakNothing` is about the moment at which a new object has a block and no destroy flag yet.
It lasts from `WrapArg` to `Call` (`AsYet`), and nobody releases anything meanwhile. That only
objects that are introduced get there needs a second invariant, about the order of events: an
event that names an object without block comes after the one that introduces it, or its target is
`Doomed` and it will be dropped as the other one was (`Introduced`); an object is a
target only after its introduction (`FirstNamed`); what has no dispatcher has no block
(`RawBare`).

`ReadIntentProofs`, for any finite number of threads and any queues and events,
with or without unpolled reads and the end of the connection, provided no
unresolved `read_intent` is moved (with all habits for the types):

- `ReadTypeCorrect`: the type invariant;
- `ReadersCountedCorrect`: libwayland's count is the number of announced threads,
  until the connection fails;
- `NoEventOversleptCorrect`: no announced thread has events in its queue;
- `NobodyReadsMeanwhileCorrect`: no step takes events from the connection while a
  thread keeps its announcement.

The three stand on each other. Events come into queues only when the last reader
reads; that no announced thread is left then is `ReadersCounted`. The count is right
because a thread takes its announcement back once: by reading, by `cancel()`, or in
the destructor, which depends on `finalized`. `Intents` says what `finalized` is
worth at each place of the loop; `ReadInv` is the conjunction.

`EventLoopProofs`, for any finite number of loop handles, any loops, sources of
all kinds and source handles:

- `LoopTypeCorrect`: the type invariant, with all habits;
- `LoopCountedCorrect`: a block's counter is the number of its handles, with all
  habits (`CountInv`: whatever has a handle has had a block, and a loop not yet
  created has none);
- `RemovedOnceCorrect`: a source is removed once, unless handles of idle tasks are
  kept (`RemoveInv`: what is active or, not being an idle task, shared has not been
  removed, and an idle task that runs is active);
- `NothingFreedInUseCorrect`: without bad habits nothing freed is used. `UseInv` adds
  to the counters which loop a round of dispatching belongs to (`RoundOfOneLoop`),
  in which order loops end (`EndsInOrder`: a closing loop has no handles, is not
  the one that runs, and has no sources but forgotten ones), that a removed source has
  no handles (`RemovedUnshared`), and that a shared source was added
  (`SharedAreAdded`);
- `EventLoopImplements`: without bad habits every behaviour of `EventLoop` starts and steps as
  `SharedObject` allows, each loop and each source being one object. `SharedInv` adds to `UseInv`
  that a loop is closed once and that a shared source is removed when its last handle is gone
  (`Settled`).

`ServerDisplayProofs`, for any finite number of `display_t` and global handles, any
globals and clients, provided no handler of the teardown asks for the display
(without `late_display`):

- `ServerTypeCorrect`: the type invariant, the call stack included;
- `DisplayCountedCorrect`, `GlobalCountedCorrect`: the counters are the number of
  handles, temporary ones included;
- `TornDownOnceCorrect`: the display and every global are destroyed once;
- `NothingFreedInUseCorrect`: no handle and no call in progress reaches a freed
  global or display;
- `ClientsGoFirstCorrect`: when the display's handler runs, no client is left.

What makes these inductive is the call stack. `Shape` says which calls may be
nested in which: the filter's call is the last one and its asker directly below, so
a global has at most one temporary handle; the teardown of the display is at the
bottom, so no second one begins above it. `GlobalOK` says which calls a global is
about: while it is being destroyed its user data is cleared, so filters get handles
without data and none can bring it back from 0; while it is announced, withdrawn or
bound it has a handle, so the call cannot outlive it. `DisplayOK` ties the
counter, the handlers and the end of the display together. Each is preserved step by
step; the lemmas on the stack (what is on it after a call, a return, an answer of the
filter) are proved once (`AfterPush` and its neighbours, `KeepCalls`).

Its last theorem, `ServerDisplayImplements`, is the refinement: every behaviour of
`ServerDisplay` starts and steps as `SharedObject` allows, the display and each global
being one object. That is `ImplementsSharedObject` without its liveness. The holders of a
global are its handles and the positions of the filter's calls with a temporary
handle; calls nest four deep at most (`Depths`), which follows from `Shape`.

`ServerObjectsProofs`, for any resources, blocks and handles, for programs that make no client
from a file descriptor, keep no handle out of `on_resource_created` and ask for no list
of libwayland's resources (`Careful`; each of the three has a counterexample above):

- `ObjectsTypeCorrect`: the type invariant, the call stack included;
- `OneBlockCorrect`: one block for each object that is not under construction;
- `DispatcherHasEventsCorrect`: what is dispatched has the events that are looked for;
- `NothingDeletedInUseCorrect`: no handle and no call reaches a deleted block;
- `NotifiedOnceCorrect`: each `on_destroy` handler is called at most once;
- `ClientOutlivesResourcesCorrect`: a client goes before its resources for its handlers
  and after them in memory.

The invariant `SoInv` ties four things together: which block is whose (`StoreOK`: blocks are made in order, the
live one is in the user data, and a block waits on its object's list of listeners until it is
told), what handles point to (`HandlesOK`: a kept handle has a handler that will drop
it), what the calls on the stack work with (`CallsOK`: nobody but
`on_resource_created` sees an object under construction), and how far the client has
come (`PhaseOK`: in the teardown at most three calls are nested, in a fixed order). The
second initialisation of a resource is harmless because its first block is not
reachable by then; that is the part that fails with `keep_created`.

`WireProofs`, for any protocol, any two releases of it and any numbers of objects and
messages:

- `WireTypeCorrect`: the type invariant;
- `ObjectsAgreeCorrect`, `RequestsKnownCorrect`, `ArgumentsArriveCorrect`: the properties of
  the run, with all habits of both programs;
- `ConnectionHoldsCorrect`: without habits nothing is refused, thrown or null;
- `EventsKnownCorrect`: what `can_X()` promises a server, and `old_version` refutes, holds
  of a server that also looks at the version that the client has bound.

The first part is about signatures alone. A letter for each argument stands at
`Place`, which grows with the argument (`Places`), everything else in the signature is a digit or a "?"
(`SignatureAt`), so the c-th place that a reader does not skip is that of argument c
(`NthPlace`), and both readers get the types of the arguments (`Reading`). Hence what `Body`
takes from the unions is what was put there (`Packed`), and what `Decode` makes of it is of
the type that `any::get` asks for (`Unpacked`). No recursion is needed: places are counted
by the cardinality of sets. The second part says that releases that only append number
messages alike (`Compiled`). The third is an invariant, `WInv`: the client's objects have a
version that both programs know (`ProxiesOK`); the server's objects are the client's, with a version
that follows from it (`ResourcesOK`, `Given`); a message under way was packed from a call that its
sender may make (`Sound`, `Bound`), and stays so while objects are added (`Grow`); and the
message that creates an object comes before all that name it (`InOrder`). `WInv` holds
of the initial state and each action keeps it.

The proof needed two facts about a protocol that the scanner does not check. A
message may create one object at most. And `proxy_release()` sends the request "destroy" by its
opcode, with nothing in it, to every object it releases, without asking `can_X()`: so the request
must have no arguments, and must be as old as whatever introduces objects of its interface (a
global is introduced in any version). An object therefore has a version in which it can be
destroyed (`Destructible`, a part of `ProxiesOK`). Both facts are part of `ProtocolAssumption`;
the protocols of this repository satisfy them. It is not enough to look at the first
version: "destroy" of `zwp_pointer_gesture_hold_v1` came with version 3, as did the
request that creates such an object.

`ScannerProofs`, for any command lines, documents and headers:

- `FlagsAreSetsCorrect`: a bitfield's operators are those of sets, because the width is that
  of the longest entry (`WidthFacts`), if no width is above 30 (`NarrowFlags`), where
  the mask would overflow;
- `OutputsWholeCorrect`: the files are whole or untouched;
- `CommandUnderstoodCorrect`: options and files are told apart, each option has its value;
- `NamesResolveCorrect`: names denote one thing and are known where they stand.

The definitions make sequences by `FlattenSeq`, which is recursive. The proofs go over its
rounds: it computes f[k] from f[k - 1] (`Rounds`, `FlattenRounds`), and what is said of every
round is proved of the least one for which it would be false (`Least`, from the library's
theorem that "<" is well-founded on the natural numbers; an induction rule could not be
used). What was added stays where it was put (`Grows`, `Adds`). The invariants are these:

- `ReadOK`: interfaces in memory are those of documents that could be read; `IdsOK`: every
  enumeration in memory has an id of its own, smaller than the next one.
- `FilesOK`: what is in each file and where its streams are, phase by phase. In server mode
  the first stream prints over what the second has left behind its position; `PrintsOver` says
  that this is as if nothing had been there, provided it is not longer, which holds of the header's
  additional empty line and of the body's intro (6 lines before 7, `IntroFacts`).
- `ArgsOK`: after k items of a command line, which are a number of tokens, the program has
  the options and files of these k items (`ReadTo`). A round of `parse_args()` reads the next
  item (`RoundReads`), and only when the tokens are used up has k reached the end (`ReadingEnds`).

`NamesResolve` then is about a fixed text. A line is in one part of it and everything in the parts
before comes earlier (`Follows`); declarations and tables lead in (`LeadsIn`), classes
follow, the second file is behind the first (`TextResolved`).

The hypotheses are on the input. `CommandsAssumption`: a command line is options, files and at
most one "--" with nothing but files behind it, and files that begin with a dash there only. `DocumentsAssumption`: documents are finite and
entries are no number or have 32 bits. `EnumerationsTyped`: only integers have enumerations; what
happens otherwise is said above. `NarrowFlags`: flags are among the bits 0 to 29, and what `log2(0)` gives is no wider.
`NamesApart`: two interfaces do not become one name without
"wl_" and "wp_". `HeadersComplete`: a header that defines a class declares its
interface, as the generated ones do. The instance of the run satisfies all of them.

Only model-checked: liveness (`EverySourceRuns`, `BlocksReclaimed`, the liveness in
`ImplementsSharedObject`, everything of `ReadIntent` that says "eventually"), because TLAPS has no
ENABLED and no fairness.

## 6. What is not modelled

- `roundtrip`, `flush`, `get_fd`, sockets, credentials and the like only pass
  values on.
- Cursor and EGL classes: one counted pointer each, the same as a queue or an
  event source; the buffers of a cursor are foreign proxies, which `Proxy` has.
- The log handler: one global function, to be set before use.
- Of the scanner: the XML syntax, documentation and indentation, names that are C++
  keywords, and the text inside the parts. What the generated code *does* belongs to the
  modules that use it.
- A loop dispatched from a handler of another loop (or of the same one).
- `user_data`, `post_error`, the contents of strings and arrays: data that no
  property depends on. A string is never null here: no program can send a null
  one, since a `std::string` has no null, and a null one arrives as empty.
- Numbers beyond 24.8 fixed point, and enumerations: they are cast from and to
  the wire type.
- A request of another interface than `wl_registry` whose new object has no
  interface. The server's dispatcher could not take it apart (its handler gets one
  argument for three on the wire), and no protocol has one.
- libwayland before 1.23 on the server, which finds a client's block by its
  destroy listener.

## 7. Plan

Done: SharedObject, Proxy, ProxyEvents, ReadIntent, ServerDisplay, ServerObjects,
Wire, EventLoop, Scanner; proofs of all of them.

Next, in this order:

1. Proofs: the order of destruction (`DependantsFirst`) with events.
2. **Events and threads**: the queue of an event is fixed when it is read; the
   race between creating an object and `set_queue()` that
   `example/proxy_wrapper.cpp` shows, with ProxyEvents and ReadIntent together.
3. **Wire**: destruction on the server and the reuse of ids.
