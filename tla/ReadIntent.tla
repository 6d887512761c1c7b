----------------------------- MODULE ReadIntent -----------------------------
(***************************************************************************)
(* Reading events in several threads: read_intent, obtain_read_intent(),   *)
(* dispatch() (src/wayland-client.cpp, include/wayland-client.hpp).        *)
(*                                                                         *)
(* Every thread loops: it announces that it is going to read (libwayland   *)
(* counts the announcements), polls the connection, reads or cancels, and  *)
(* dispatches its queue.  Only the last of the announced threads reads,    *)
(* the others sleep in wl_display_read_events until it has.  A thread      *)
(* either keeps its announcement in a read_intent, whose destructor        *)
(* cancels what was not resolved, or calls dispatch(), which does the same *)
(* inside libwayland.  libwayland's calls are atomic but for the sleeping, *)
(* because they hold the display's mutex.                                  *)
(***************************************************************************)
EXTENDS Integers, FiniteSets

CONSTANTS
    Threads,
    Queues,      \* wl_event_queues, the default one included
    QueueOf,     \* thread |-> the queue it reads for and dispatches
    Habits,      \* usages beyond the documented loop, see below
    MaxEvents    \* bound on the events the compositor sends

(***************************************************************************)
(*   "moved"     moves a read_intent that is not finalized yet             *)
(*   "unpolled"  calls read() without having polled, as the documentation  *)
(*               of read() allows                                          *)
(*   "close"     the compositor closes the connection                      *)
(***************************************************************************)
ASSUME ThreadAssumption == IsFiniteSet(Threads) /\ QueueOf \in [Threads -> Queues]
ASSUME HabitAssumption ==
    Habits \subseteq {"moved", "unpolled", "close"} /\ MaxEvents \in Nat

VARIABLES
    at,            \* thread |-> where it is in its loop
    raii,          \* the threads that have a read_intent in this round
    finalized,     \* thread |-> finalized of its read_intent, if it has one
    moved,         \* thread |-> the moved-from read_intent it still has
    reader_count,  \* wl_display.reader_count
    sleeping,      \* the threads waiting for wl_display.read_serial to change
    last_error,    \* wl_display.last_error is set
    socket,        \* queue |-> its events that are sent and not yet read
    queued,        \* queue |-> its events that are read and not yet dispatched
    sent,          \* how many events the compositor has sent
    closed         \* the compositor has closed the connection

loopVars    == <<at, raii, finalized, moved>>
displayVars == <<reader_count, sleeping, last_error>>
streamVars  == <<socket, queued, sent, closed>>
vars == <<loopVars, displayVars, streamVars>>

Places == {"idle", "holding", "reading", "throwing", "dispatching", "ended"}

RiTypeOK ==
    /\ at \in [Threads -> Places]
    /\ raii \in SUBSET Threads
    /\ moved \in [Threads -> {"none", "open", "finalized"}]
    /\ finalized \in [Threads -> BOOLEAN]
    /\ reader_count \in Int
    /\ sleeping \in SUBSET {t \in Threads : at[t] = "reading"}
    /\ last_error \in BOOLEAN /\ closed \in BOOLEAN
    /\ socket \in [Queues -> Nat] /\ queued \in [Queues -> Nat]
    /\ sent \in 0..MaxEvents

Init ==
    /\ at = [t \in Threads |-> "idle"]
    /\ raii = {} /\ moved = [t \in Threads |-> "none"]
    /\ finalized = [t \in Threads |-> FALSE]
    /\ reader_count = 0 /\ sleeping = {} /\ last_error = FALSE
    /\ socket = [q \in Queues |-> 0] /\ queued = [q \in Queues |-> 0]
    /\ sent = 0 /\ closed = FALSE
-----------------------------------------------------------------------------
(* libwayland and the compositor *)

Send(q) ==
    /\ ~closed /\ sent < MaxEvents
    /\ sent' = sent + 1 /\ socket' = [socket EXCEPT ![q] = @ + 1]
    /\ UNCHANGED <<loopVars, displayVars, queued, closed>>

CloseConnection ==
    /\ "close" \in Habits /\ ~closed
    /\ closed' = TRUE
    /\ UNCHANGED <<loopVars, displayVars, socket, queued, sent>>

\* poll() reports POLLIN.
Readable == closed \/ \E q \in Queues : socket[q] > 0

\* wl_display_cancel_read: the last reader to go wakes the sleeping ones.
wl_display_cancel_read ==
    /\ reader_count' = reader_count - 1
    /\ sleeping' = IF reader_count = 1 THEN {} ELSE sleeping

\* wl_display_read_events by t, up to the result or to falling asleep.  The
\* connection being closed shows when there is nothing left to read.
Fails == last_error \/ (reader_count = 1 /\ closed /\ \A q \in Queues : socket[q] = 0)

wl_display_read_events(t) ==
    IF last_error
    THEN wl_display_cancel_read /\ UNCHANGED <<last_error, socket, queued>>
    ELSE /\ reader_count' = reader_count - 1
         /\ last_error' = Fails
         /\ IF reader_count = 1
            THEN /\ queued' = [q \in Queues |-> queued[q] + socket[q]]
                 /\ socket' = [q \in Queues |-> 0]
                 /\ sleeping' = {}
            ELSE sleeping' = sleeping \cup {t} /\ UNCHANGED <<socket, queued>>
-----------------------------------------------------------------------------
(* One thread's loop *)

\* Mutant: the intent is constructed without looking whether libwayland
\* refused because events are pending.
Prepare_Unchecked(t) ==
    /\ at[t] = "idle" /\ moved[t] = "none"
    /\ reader_count' = reader_count + 1
    /\ at' = [at EXCEPT ![t] = "holding"]
    /\ raii' \in {raii, raii \cup {t}}
    /\ UNCHANGED <<finalized, moved, sleeping, last_error, streamVars>>

\* obtain_read_intent(), obtain_queue_read_intent(), or the beginning of
\* dispatch(): announced, unless there are events to dispatch first.
Prepare(t) ==
    /\ at[t] = "idle" /\ moved[t] = "none"
    /\ IF queued[QueueOf[t]] > 0
       THEN /\ at' = [at EXCEPT ![t] = "dispatching"]
            /\ UNCHANGED <<raii, reader_count>>
       ELSE /\ reader_count' = reader_count + 1
            /\ at' = [at EXCEPT ![t] = "holding"]
            /\ raii' \in {raii, raii \cup {t}}
    /\ UNCHANGED <<finalized, moved, sleeping, last_error, streamVars>>

\* Mutant: read() does not finalize the intent.
ReadEvents_NotFinalized(t) ==
    /\ at[t] = "holding"
    /\ wl_display_read_events(t)
    /\ at' = [at EXCEPT ![t] = IF t \in sleeping' THEN "reading"
                               ELSE IF Fails THEN "throwing" ELSE "dispatching"]
    /\ UNCHANGED <<raii, moved, finalized, sent, closed>>

\* read_intent::read(): an error is thrown before finalized is set.
ReadEvents(t) ==
    /\ at[t] = "holding"
    /\ wl_display_read_events(t)
    /\ at' = [at EXCEPT ![t] = IF t \in sleeping' THEN "reading"
                               ELSE IF Fails THEN "throwing" ELSE "dispatching"]
    /\ finalized' = [finalized EXCEPT ![t] = t \in raii /\ at'[t] = "dispatching"]
    /\ UNCHANGED <<raii, moved, sent, closed>>

Read(t)     == Readable /\ ReadEvents(t)
Unpolled(t) == "unpolled" \in Habits /\ t \in raii /\ ReadEvents(t)

\* A thread that slept in wl_display_read_events returns from read().
Wake(t) ==
    /\ at[t] = "reading" /\ t \notin sleeping
    /\ at' = [at EXCEPT ![t] = IF last_error THEN "throwing" ELSE "dispatching"]
    /\ finalized' = [finalized EXCEPT ![t] = t \in raii /\ ~last_error]
    /\ UNCHANGED <<raii, moved, displayVars, streamVars>>

\* Mutant: cancel() only marks the intent.
TimeOut_OnlyMarked(t) ==
    /\ at[t] = "holding" /\ t \in raii /\ ~Readable
    /\ finalized' = [finalized EXCEPT ![t] = TRUE]
    /\ at' = [at EXCEPT ![t] = "dispatching"]
    /\ UNCHANGED <<raii, moved, displayVars, streamVars>>

\* poll() reports something else, or a timeout: cancel().
TimeOut(t) ==
    /\ at[t] = "holding" /\ t \in raii /\ ~Readable
    /\ wl_display_cancel_read
    /\ finalized' = [finalized EXCEPT ![t] = TRUE]
    /\ at' = [at EXCEPT ![t] = "dispatching"]
    /\ UNCHANGED <<raii, moved, last_error, streamVars>>

\* The thread's read_intent goes out of scope: ~read_intent().
LeaveScope(t) ==
    /\ IF t \in raii /\ ~finalized[t] THEN wl_display_cancel_read
       ELSE UNCHANGED <<reader_count, sleeping>>
    /\ raii' = raii \ {t}
    /\ finalized' = [finalized EXCEPT ![t] = FALSE]

\* Mutant: the intent has no destructor.
Fail_NotCancelled(t) ==
    /\ at[t] = "holding" /\ t \in raii
    /\ at' = [at EXCEPT ![t] = "ended"]
    /\ raii' = raii \ {t}
    /\ UNCHANGED <<finalized, moved, displayVars, streamVars>>

\* Mutant: the intent is shared with another thread, which lets it go out of
\* scope while its owner is in read().
Fail_WhileReading(t) ==
    /\ at[t] \in {"holding", "reading"} /\ t \in raii
    /\ LeaveScope(t)
    /\ at' = [at EXCEPT ![t] = "ended"]
    /\ UNCHANGED <<moved, last_error, streamVars>>

\* An exception while the thread holds a read_intent ends the loop ...
Fail(t) ==
    /\ at[t] = "holding" /\ t \in raii
    /\ LeaveScope(t)
    /\ at' = [at EXCEPT ![t] = "ended"]
    /\ UNCHANGED <<moved, last_error, streamVars>>

\* ... and so does an error of flush or poll in dispatch().
FailInside(t) ==
    /\ at[t] = "holding" /\ t \notin raii
    /\ wl_display_cancel_read
    /\ at' = [at EXCEPT ![t] = "ended"]
    /\ UNCHANGED <<raii, finalized, moved, last_error, streamVars>>

\* The exception thrown by read() or dispatch() leaves the loop.
Throw(t) ==
    /\ at[t] = "throwing"
    /\ LeaveScope(t)
    /\ at' = [at EXCEPT ![t] = "ended"]
    /\ UNCHANGED <<moved, last_error, streamVars>>

\* dispatch_pending(), dispatch_queue_pending(): one event at a time until the
\* queue is empty, then the round ends.  After an error it throws instead.
Dispatch(t) ==
    /\ at[t] = "dispatching"
    /\ IF queued[QueueOf[t]] > 0 /\ ~last_error
       THEN /\ queued' = [queued EXCEPT ![QueueOf[t]] = @ - 1]
            /\ UNCHANGED <<at, raii, finalized, reader_count, sleeping>>
       ELSE /\ LeaveScope(t)
            /\ at' = [at EXCEPT ![t] = IF last_error THEN "ended" ELSE "idle"]
            /\ UNCHANGED queued
    /\ UNCHANGED <<moved, last_error, socket, sent, closed>>

\* read_intent(read_intent&&) is defaulted: both have the same finalized, and
\* the source is destructed like any other, before the round is over.
Move(t) ==
    /\ t \in raii /\ moved[t] = "none" /\ at[t] \in {"holding", "dispatching"}
    /\ finalized[t] \/ "moved" \in Habits
    /\ moved' = [moved EXCEPT ![t] = IF finalized[t] THEN "finalized" ELSE "open"]
    /\ UNCHANGED <<at, raii, finalized, displayVars, streamVars>>

DestructMoved(t) ==
    /\ moved[t] # "none"
    /\ IF moved[t] = "open" THEN wl_display_cancel_read
       ELSE UNCHANGED <<reader_count, sleeping>>
    /\ moved' = [moved EXCEPT ![t] = "none"]
    /\ UNCHANGED <<at, raii, finalized, last_error, streamVars>>
-----------------------------------------------------------------------------
Step(t) == Prepare(t) \/ Read(t) \/ Wake(t) \/ Throw(t) \/ Dispatch(t)

Next ==
    \/ \E t \in Threads :
          \/ Step(t) \/ DestructMoved(t)
          \/ Unpolled(t) \/ TimeOut(t) \/ Fail(t) \/ FailInside(t) \/ Move(t)
    \/ \E q \in Queues : Send(q)
    \/ CloseConnection

\* Threads go on with their loops, and react when poll() reports events.  They
\* need not time out, fail or read without polling, and the compositor need not
\* send anything.
Fairness == \A t \in Threads : WF_vars(Step(t)) /\ WF_vars(DestructMoved(t))

Spec == Init /\ [][Next]_vars /\ Fairness
-----------------------------------------------------------------------------
(* Properties *)

Announced == {t \in Threads : at[t] = "holding"}

\* Every announcement is resolved exactly once, by reading, cancelling or the
\* destructor, whatever the threads do in between: libwayland's count is the
\* number of threads that still mean to read.  (Once the connection has failed
\* the count is of no use, see ResolvedOnce.)
ReadersCounted == last_error \/ reader_count = Cardinality(Announced)

\* "the intent is cancelled automatically if it was not finalized by manually
\* cancelling or reading before" (include/wayland-client.hpp:361): also when
\* reading fails, nobody's announcement is taken back twice.
ResolvedOnce == reader_count >= Cardinality(Announced)

\* "This ensures that until the thread is ready to read and calls
\* read_intent::read, no other thread will read from the file descriptor"
\* (include/wayland-client.hpp:582).
NobodyReadsMeanwhile ==
    [][\A t \in Threads : at[t] = "holding" /\ at'[t] = "holding" =>
          \A q \in Queues : socket'[q] >= socket[q]]_vars

\* No thread goes to sleep in poll() over an event that another thread has
\* already moved into its queue: it would never be woken for it ("integrate the
\* fd into a toolkit event loop in a race-free way", obtain_read_intent()).
NoEventOverslept ==
    \A t \in Threads : at[t] = "holding" /\ ~last_error => queued[QueueOf[t]] = 0

\* read() returns, whatever the other threads do with their intents: cancel,
\* fail, or read themselves.  Only a thread that keeps its intent for ever, as
\* one may that polls a silent connection, keeps others asleep that have called
\* read() without data.  (The documentation of read(), wayland-client.hpp:395,
\* lets such a call return immediately: it does not.)
ReadReturns ==
    \A t \in Threads :
        at[t] = "reading" ~> at[t] # "reading" \/ [](Announced # {})

\* An event the compositor has sent is dispatched, if a thread is left to do it.
EventsDispatched ==
    \A q \in Queues :
        socket[q] + queued[q] > 0 ~>
            \/ socket[q] + queued[q] = 0 \/ last_error
            \/ \A t \in Threads : QueueOf[t] = q => at[t] = "ended"

\* When the connection is lost every thread learns of it; none is left asleep,
\* although the destructors of the failed intents cancel once too often.
AllLearnOfClose == closed ~> \A t \in Threads : at[t] = "ended"
=============================================================================
