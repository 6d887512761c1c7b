-------------------------- MODULE ReadIntentProofs --------------------------
(***************************************************************************)
(* Proofs about ReadIntent, for any number of threads, queues and events:  *)
(* announcements are resolved once, nobody reads while another thread      *)
(* still means to, and no event is overslept.                              *)
(***************************************************************************)
EXTENDS ReadIntent, FiniteSetTheorems, TLAPS

\* What a thread's read_intent is worth at each place of its loop.
Intents ==
    /\ \A t \in Threads : at[t] # "dispatching" => ~finalized[t]
    /\ \A t \in Threads : at[t] = "dispatching" /\ t \in raii => finalized[t] \/ last_error
    /\ \A t \in Threads : at[t] = "idle" => t \notin raii
    /\ \A t \in Threads : at[t] = "throwing" => last_error
    /\ "moved" \notin Habits => \A t \in Threads : moved[t] # "open"

ReadInv == RiTypeOK /\ Intents /\ ReadersCounted /\ NoEventOverslept

LEMMA AnnouncedFinite == IsFiniteSet(Announced) /\ Cardinality(Announced) \in Nat
BY ThreadAssumption, FS_Subset, FS_CardinalityType DEF Announced
-----------------------------------------------------------------------------
(* Types *)

LEMMA InitType == Init => RiTypeOK
<1> SUFFICES ASSUME Init PROVE RiTypeOK
  OBVIOUS
<1>1. at \in [Threads -> Places] /\ moved \in [Threads -> {"none", "open", "finalized"}]
  BY DEF Init, Places
<1>2. socket \in [Queues -> Nat] /\ queued \in [Queues -> Nat]
  BY DEF Init
<1>3. reader_count \in Int /\ sent \in 0..MaxEvents
  BY HabitAssumption DEF Init
<1>4. finalized \in [Threads -> BOOLEAN]
  BY DEF Init
<1>5. raii \in SUBSET Threads /\ sleeping \in SUBSET {t \in Threads : at[t] = "reading"}
  BY DEF Init
<1>6. last_error \in BOOLEAN /\ closed \in BOOLEAN
  BY DEF Init
<1> QED
  BY <1>1, <1>2, <1>3, <1>4, <1>5, <1>6 DEF RiTypeOK

LEMMA CancelType ==
    ASSUME RiTypeOK, wl_display_cancel_read
    PROVE  reader_count' \in Int /\ sleeping' \subseteq sleeping
BY DEF wl_display_cancel_read, RiTypeOK

LEMMA ScopeType ==
    ASSUME RiTypeOK, NEW t \in Threads, LeaveScope(t)
    PROVE  /\ reader_count' \in Int /\ sleeping' \subseteq sleeping
           /\ raii' \subseteq Threads /\ finalized' \in [Threads -> BOOLEAN]
BY CancelType DEF LeaveScope, RiTypeOK

LEMMA ReadType ==
    ASSUME RiTypeOK, NEW t \in Threads, ReadEvents(t)
    PROVE  RiTypeOK'
<1>1. /\ reader_count' \in Int /\ last_error' \in BOOLEAN
      /\ sleeping' \subseteq sleeping \cup {t}
      /\ socket' \in [Queues -> Nat] /\ queued' \in [Queues -> Nat]
  <2>1. CASE last_error
    BY <2>1, CancelType DEF ReadEvents, wl_display_read_events, RiTypeOK
  <2>2. CASE ~last_error
    BY <2>2 DEF ReadEvents, wl_display_read_events, Fails, RiTypeOK
  <2> QED
    BY <2>1, <2>2
<1>2. at' = [at EXCEPT ![t] = IF t \in sleeping' THEN "reading"
                              ELSE IF Fails THEN "throwing" ELSE "dispatching"]
  BY DEF ReadEvents
<1>3. at' \in [Threads -> Places]
  BY <1>2 DEF RiTypeOK, Places
<1>4. sleeping' \in SUBSET {s \in Threads : at'[s] = "reading"}
  BY <1>1, <1>2 DEF RiTypeOK
<1>5. finalized' \in [Threads -> BOOLEAN]
  BY DEF ReadEvents, RiTypeOK
<1> QED
  BY <1>1, <1>3, <1>4, <1>5 DEF ReadEvents, RiTypeOK

LEMMA TypeInductive == RiTypeOK /\ [Next]_vars => RiTypeOK'
<1> SUFFICES ASSUME RiTypeOK, [Next]_vars PROVE RiTypeOK'
  OBVIOUS
<1> USE DEF loopVars, displayVars, streamVars
<1>1. CASE UNCHANGED vars
  BY <1>1 DEF vars, RiTypeOK
<1>2. ASSUME NEW t \in Threads, Prepare(t) PROVE RiTypeOK'
  BY <1>2 DEF Prepare, RiTypeOK, Places
<1>3. ASSUME NEW t \in Threads, Read(t) \/ Unpolled(t) PROVE RiTypeOK'
  BY <1>3, ReadType DEF Read, Unpolled
<1>4. ASSUME NEW t \in Threads, Wake(t) PROVE RiTypeOK'
  BY <1>4 DEF Wake, RiTypeOK, Places
<1>5. ASSUME NEW t \in Threads, TimeOut(t) \/ FailInside(t) PROVE RiTypeOK'
  <2>1. reader_count' \in Int /\ sleeping' \subseteq sleeping /\ at[t] = "holding"
    BY <1>5, CancelType DEF TimeOut, FailInside
  <2> QED
    BY <1>5, <2>1 DEF TimeOut, FailInside, RiTypeOK, Places
<1>6. ASSUME NEW t \in Threads, Throw(t) \/ Fail(t) PROVE RiTypeOK'
  <2>1. /\ reader_count' \in Int /\ sleeping' \subseteq sleeping
        /\ raii' \subseteq Threads /\ finalized' \in [Threads -> BOOLEAN]
    BY <1>6, ScopeType DEF Throw, Fail
  <2> QED
    BY <1>6, <2>1 DEF Throw, Fail, RiTypeOK, Places
<1>7. ASSUME NEW t \in Threads, Dispatch(t) PROVE RiTypeOK'
  <2>1. CASE queued[QueueOf[t]] > 0 /\ ~last_error
    BY <1>7, <2>1, ThreadAssumption DEF Dispatch, RiTypeOK
  <2>2. CASE ~(queued[QueueOf[t]] > 0 /\ ~last_error)
    <3>1. /\ reader_count' \in Int /\ sleeping' \subseteq sleeping
          /\ raii' \subseteq Threads /\ finalized' \in [Threads -> BOOLEAN]
      BY <1>7, <2>2, ScopeType DEF Dispatch
    <3> QED
      BY <1>7, <2>2, <3>1 DEF Dispatch, RiTypeOK, Places
  <2> QED
    BY <2>1, <2>2
<1>8. ASSUME NEW t \in Threads, Move(t) PROVE RiTypeOK'
  BY <1>8 DEF Move, RiTypeOK
<1>9. ASSUME NEW t \in Threads, DestructMoved(t) PROVE RiTypeOK'
  <2>1. reader_count' \in Int /\ sleeping' \subseteq sleeping
    BY <1>9, CancelType DEF DestructMoved, RiTypeOK
  <2> QED
    BY <1>9, <2>1 DEF DestructMoved, RiTypeOK
<1>10. ASSUME NEW q \in Queues, Send(q) PROVE RiTypeOK'
  BY <1>10, HabitAssumption DEF Send, RiTypeOK
<1>11. CASE CloseConnection
  BY <1>11 DEF CloseConnection, RiTypeOK
<1> QED
  BY <1>1, <1>2, <1>3, <1>4, <1>5, <1>6, <1>7, <1>8, <1>9, <1>10, <1>11 DEF Next, Step
-----------------------------------------------------------------------------
(* Announcements *)

\* Threads and events where nothing is announced or resolved.
LEMMA CountKept ==
    ASSUME ReadersCounted, Announced' = Announced, reader_count' = reader_count,
           last_error' = last_error
    PROVE  ReadersCounted'
BY DEF ReadersCounted

LEMMA CountAdd ==
    ASSUME ReadersCounted, NEW t, t \notin Announced, Announced' = Announced \cup {t},
           reader_count' = reader_count + 1, last_error' = last_error
    PROVE  ReadersCounted'
<1>1. Cardinality(Announced') = Cardinality(Announced) + 1
  BY AnnouncedFinite, FS_AddElement
<1> QED
  BY <1>1 DEF ReadersCounted

LEMMA CountResolve ==
    ASSUME ReadersCounted, NEW t \in Announced, Announced' = Announced \ {t},
           reader_count' = reader_count - 1, last_error => last_error'
    PROVE  ReadersCounted'
<1>1. Cardinality(Announced') = Cardinality(Announced) - 1
  BY AnnouncedFinite, FS_RemoveElement
<1> QED
  BY <1>1 DEF ReadersCounted

\* The last reader is the only one.
LEMMA LastReader ==
    ASSUME ReadersCounted, ~last_error, reader_count = 1, NEW t \in Announced
    PROVE  Announced = {t}
BY AnnouncedFinite, FS_Singleton DEF ReadersCounted

\* Events only come into queues when nobody holds an intent.
LEMMA OversleptKept ==
    ASSUME NoEventOverslept, last_error => last_error',
           \A t \in Threads : at'[t] = "holding" =>
              at[t] = "holding" /\ (queued[QueueOf[t]] = 0 => queued'[QueueOf[t]] = 0)
    PROVE  NoEventOverslept'
BY DEF NoEventOverslept

LEMMA ReadStep ==
    ASSUME ReadInv, NEW t \in Threads, ReadEvents(t)
    PROVE  Intents' /\ ReadersCounted' /\ NoEventOverslept'
<1>1. /\ at[t] = "holding" /\ raii' = raii /\ moved' = moved
      /\ at' = [at EXCEPT ![t] = IF t \in sleeping' THEN "reading"
                                 ELSE IF Fails THEN "throwing" ELSE "dispatching"]
      /\ finalized' = [finalized EXCEPT ![t] = t \in raii /\ at'[t] = "dispatching"]
  BY DEF ReadEvents
<1>2. reader_count' = reader_count - 1 /\ last_error' = (last_error \/ Fails)
  <2>1. CASE last_error
    BY <2>1 DEF ReadEvents, wl_display_read_events, wl_display_cancel_read, ReadInv, RiTypeOK
  <2>2. CASE ~last_error
    <3>1. reader_count' = reader_count - 1 /\ last_error' = Fails
      BY <2>2 DEF ReadEvents, wl_display_read_events
    <3> QED
      BY <2>2, <3>1 DEF Fails
  <2> QED
    BY <2>1, <2>2
<1>3. at'[t] \in {"reading", "throwing", "dispatching"} /\ (at'[t] = "throwing" => Fails)
      /\ \A s \in Threads \ {t} : at'[s] = at[s] /\ finalized'[s] = finalized[s]
  BY <1>1 DEF ReadInv, RiTypeOK
<1>4. finalized'[t] = (t \in raii /\ at'[t] = "dispatching")
  BY <1>1 DEF ReadInv, RiTypeOK
<1>5. Intents'
  BY <1>1, <1>2, <1>3, <1>4 DEF ReadInv, Intents
<1>6. t \in Announced /\ Announced' = Announced \ {t}
  BY <1>1, <1>3 DEF Announced
<1>7. ReadersCounted'
  BY <1>2, <1>6, CountResolve DEF ReadInv
<1>8. NoEventOverslept'
  <2>1. CASE last_error
    BY <1>2, <2>1 DEF NoEventOverslept
  <2>2. CASE ~last_error /\ reader_count = 1
    <3>1. Announced' = {}
      BY <1>6, <2>2, LastReader DEF ReadInv
    <3> QED
      BY <3>1 DEF NoEventOverslept, Announced
  <2>3. CASE ~last_error /\ reader_count # 1
    <3>1. queued' = queued
      BY <2>3 DEF ReadEvents, wl_display_read_events
    <3> QED
      BY <1>1, <1>3, <3>1, OversleptKept, <2>3 DEF ReadInv
  <2> QED
    BY <2>1, <2>2, <2>3
<1> QED
  BY <1>5, <1>7, <1>8

\* A thread leaves its intent's scope and the places where it may hold one.
LEMMA ScopeStep ==
    ASSUME ReadInv, NEW t \in Threads, LeaveScope(t), NEW place \in {"idle", "ended"},
           at' = [at EXCEPT ![t] = place], moved' = moved, last_error' = last_error,
           at[t] = "holding" => t \in raii, at[t] \in {"holding", "throwing", "dispatching"},
           queued' = queued
    PROVE  Intents' /\ ReadersCounted' /\ NoEventOverslept'
<1>1. /\ at'[t] = place /\ finalized'[t] = FALSE /\ t \notin raii' /\ raii' \subseteq raii
      /\ \A s \in Threads \ {t} : at'[s] = at[s] /\ finalized'[s] = finalized[s]
  BY DEF LeaveScope, ReadInv, RiTypeOK
<1>2. Intents'
  BY <1>1 DEF ReadInv, Intents
<1>3. NoEventOverslept'
  BY <1>1, OversleptKept DEF ReadInv
<1>4. ReadersCounted'
  <2>1. CASE last_error
    BY <2>1 DEF ReadersCounted
  <2>2. CASE ~last_error /\ at[t] = "holding"
    <3>1. reader_count' = reader_count - 1
      BY <2>2 DEF LeaveScope, wl_display_cancel_read, ReadInv, Intents
    <3>2. t \in Announced /\ Announced' = Announced \ {t}
      BY <1>1, <2>2 DEF Announced
    <3> QED
      BY <3>1, <3>2, CountResolve DEF ReadInv
  <2>3. CASE ~last_error /\ at[t] = "dispatching"
    <3>1. reader_count' = reader_count
      BY <2>3 DEF LeaveScope, ReadInv, Intents
    <3>2. Announced' = Announced
      BY <1>1, <2>3 DEF Announced
    <3> QED
      BY <3>1, <3>2, CountKept DEF ReadInv
  <2>4. CASE at[t] = "throwing"
    BY <2>4, <2>1 DEF ReadInv, Intents
  <2> QED
    BY <2>1, <2>2, <2>3, <2>4
<1> QED
  BY <1>2, <1>3, <1>4

LEMMA Inductive ==
    ASSUME "moved" \notin Habits
    PROVE  ReadInv /\ [Next]_vars => ReadInv'
<1> SUFFICES ASSUME ReadInv, [Next]_vars
             PROVE  Intents' /\ ReadersCounted' /\ NoEventOverslept'
  BY TypeInductive DEF ReadInv
<1> USE DEF loopVars, displayVars, streamVars
<1>1. CASE UNCHANGED vars
  <2>1. Announced' = Announced
    BY <1>1 DEF vars, Announced
  <2> QED
    BY <1>1, <2>1, CountKept, OversleptKept DEF vars, ReadInv, Intents
<1>2. ASSUME NEW t \in Threads, Prepare(t) PROVE Intents' /\ ReadersCounted' /\ NoEventOverslept'
  <2>1. CASE queued[QueueOf[t]] > 0
    <3>1. /\ at[t] = "idle" /\ at' = [at EXCEPT ![t] = "dispatching"]
          /\ UNCHANGED <<raii, finalized, moved, reader_count, last_error, queued>>
      BY <1>2, <2>1 DEF Prepare
    <3>2. at'[t] = "dispatching" /\ \A s \in Threads \ {t} : at'[s] = at[s]
      BY <3>1 DEF ReadInv, RiTypeOK
    <3>3. Announced' = Announced
      BY <3>1, <3>2 DEF Announced
    <3> QED
      BY <3>1, <3>2, <3>3, CountKept, OversleptKept DEF ReadInv, Intents
  <2>2. CASE ~(queued[QueueOf[t]] > 0)
    <3>1. /\ at[t] = "idle" /\ at' = [at EXCEPT ![t] = "holding"]
          /\ reader_count' = reader_count + 1 /\ raii' \in {raii, raii \cup {t}}
          /\ UNCHANGED <<finalized, moved, last_error, queued>>
      BY <1>2, <2>2 DEF Prepare
    <3>2. at'[t] = "holding" /\ \A s \in Threads \ {t} : at'[s] = at[s]
      BY <3>1 DEF ReadInv, RiTypeOK
    <3>3. t \notin Announced /\ Announced' = Announced \cup {t}
      BY <3>1, <3>2 DEF Announced
    <3>4. queued[QueueOf[t]] = 0
      BY <2>2, ThreadAssumption DEF ReadInv, RiTypeOK
    <3>5. NoEventOverslept'
      BY <3>1, <3>2, <3>4 DEF ReadInv, NoEventOverslept
    <3>6. Intents'
      BY <3>1, <3>2 DEF ReadInv, Intents
    <3> QED
      BY <3>1, <3>3, <3>5, <3>6, CountAdd DEF ReadInv
  <2> QED
    BY <2>1, <2>2
<1>3. ASSUME NEW t \in Threads, Read(t) \/ Unpolled(t)
      PROVE  Intents' /\ ReadersCounted' /\ NoEventOverslept'
  BY <1>3, ReadStep DEF Read, Unpolled
<1>4. ASSUME NEW t \in Threads, Wake(t) PROVE Intents' /\ ReadersCounted' /\ NoEventOverslept'
  <2>1. /\ at[t] = "reading" /\ at'[t] = IF last_error THEN "throwing" ELSE "dispatching"
        /\ finalized'[t] = (t \in raii /\ ~last_error)
        /\ \A s \in Threads \ {t} : at'[s] = at[s] /\ finalized'[s] = finalized[s]
        /\ UNCHANGED <<raii, moved, reader_count, last_error, queued>>
    BY <1>4 DEF Wake, ReadInv, RiTypeOK
  <2>2. Announced' = Announced
    BY <2>1 DEF Announced
  <2>3. Intents'
    BY <2>1 DEF ReadInv, Intents
  <2> QED
    BY <2>1, <2>2, <2>3, CountKept, OversleptKept DEF ReadInv
<1>5. ASSUME NEW t \in Threads, TimeOut(t) \/ FailInside(t)
      PROVE  Intents' /\ ReadersCounted' /\ NoEventOverslept'
  <2>1. /\ at[t] = "holding" /\ reader_count' = reader_count - 1
        /\ UNCHANGED <<raii, moved, last_error, queued>>
        /\ \/ at'[t] = "dispatching" /\ finalized'[t]
           \/ at'[t] = "ended" /\ finalized'[t] = finalized[t]
        /\ \A s \in Threads \ {t} : at'[s] = at[s] /\ finalized'[s] = finalized[s]
    BY <1>5 DEF TimeOut, FailInside, wl_display_cancel_read, ReadInv, RiTypeOK
  <2>2. t \in Announced /\ Announced' = Announced \ {t}
    BY <2>1 DEF Announced
  <2>3. Intents'
    BY <2>1 DEF ReadInv, Intents
  <2>4. NoEventOverslept'
    BY <2>1, OversleptKept DEF ReadInv
  <2> QED
    BY <2>1, <2>2, <2>3, <2>4, CountResolve DEF ReadInv
<1>6. ASSUME NEW t \in Threads, Throw(t) \/ Fail(t)
      PROVE  Intents' /\ ReadersCounted' /\ NoEventOverslept'
  BY <1>6, ScopeStep DEF Throw, Fail
<1>7. ASSUME NEW t \in Threads, Dispatch(t) PROVE Intents' /\ ReadersCounted' /\ NoEventOverslept'
  <2>1. CASE queued[QueueOf[t]] > 0 /\ ~last_error
    <3>1. /\ UNCHANGED <<at, raii, finalized, moved, reader_count, last_error>>
          /\ queued' = [queued EXCEPT ![QueueOf[t]] = @ - 1]
      BY <1>7, <2>1 DEF Dispatch
    <3>2. Announced' = Announced
      BY <3>1 DEF Announced
    <3>3. \A s \in Threads : queued[QueueOf[s]] = 0 => queued'[QueueOf[s]] = 0
      BY <2>1, <3>1, ThreadAssumption DEF ReadInv, RiTypeOK
    <3>4. Intents' /\ NoEventOverslept'
      BY <3>1, <3>3, OversleptKept DEF ReadInv, Intents
    <3> QED
      BY <3>1, <3>2, <3>4, CountKept DEF ReadInv
  <2>2. CASE ~(queued[QueueOf[t]] > 0 /\ ~last_error)
    BY <1>7, <2>2, ScopeStep DEF Dispatch
  <2> QED
    BY <2>1, <2>2
<1>8. ASSUME NEW t \in Threads, Move(t) \/ DestructMoved(t)
      PROVE  Intents' /\ ReadersCounted' /\ NoEventOverslept'
  <2>1. UNCHANGED <<at, raii, finalized, reader_count, last_error, queued>>
    BY <1>8 DEF Move, DestructMoved, ReadInv, Intents
  <2>2. \A s \in Threads : moved'[s] # "open"
    BY <1>8 DEF Move, DestructMoved, ReadInv, Intents, RiTypeOK
  <2>3. Announced' = Announced
    BY <2>1 DEF Announced
  <2> QED
    BY <2>1, <2>2, <2>3, CountKept, OversleptKept DEF ReadInv, Intents
<1>9. CASE CloseConnection \/ \E q \in Queues : Send(q)
  <2>1. UNCHANGED <<at, raii, finalized, moved, reader_count, last_error, queued>>
    BY <1>9 DEF CloseConnection, Send
  <2>2. Announced' = Announced
    BY <2>1 DEF Announced
  <2> QED
    BY <2>1, <2>2, CountKept, OversleptKept DEF ReadInv, Intents
<1> QED
  BY <1>1, <1>2, <1>3, <1>4, <1>5, <1>6, <1>7, <1>8, <1>9 DEF Next, Step

LEMMA Initially == Init => ReadInv
<1> SUFFICES ASSUME Init PROVE ReadInv
  OBVIOUS
<1>1. RiTypeOK
  BY InitType
<1>2. Announced = {}
  BY DEF Init, Announced
<1>3. ReadersCounted
  BY <1>2, FS_EmptySet DEF Init, ReadersCounted
<1> QED
  BY <1>1, <1>3 DEF Init, ReadInv, Intents, NoEventOverslept
-----------------------------------------------------------------------------
(* What it is for *)

\* Every variable of the threads' loops and of libwayland's display keeps its
\* type, with all habits; only threads in read() sleep.
THEOREM ReadTypeCorrect == Spec => []RiTypeOK
<1> QED
  BY InitType, TypeInductive, PTL DEF Spec

\* Whatever threads do between obtaining and resolving a read_intent, throwing
\* included, libwayland's count of readers is the number of those who still
\* mean to read, until the connection fails.
THEOREM ReadersCountedCorrect ==
    ASSUME "moved" \notin Habits
    PROVE  Spec => []ReadersCounted
<1>1. ReadInv => ReadersCounted
  BY DEF ReadInv
<1> QED
  BY <1>1, Initially, Inductive, PTL DEF Spec

\* No thread that has announced itself and may go to poll has events in its
\* queue, however many threads read at the same time.
THEOREM NoEventOversleptCorrect ==
    ASSUME "moved" \notin Habits
    PROVE  Spec => []NoEventOverslept
<1>1. ReadInv => NoEventOverslept
  BY DEF ReadInv
<1> QED
  BY <1>1, Initially, Inductive, PTL DEF Spec

\* While a thread holds its intent nobody takes events from the connection.
THEOREM NobodyReadsMeanwhileCorrect ==
    ASSUME "moved" \notin Habits
    PROVE  Spec => NobodyReadsMeanwhile
<1> DEFINE Kept == \A t \in Threads : at[t] = "holding" /\ at'[t] = "holding" =>
                      \A q \in Queues : socket'[q] >= socket[q]
<1>1. ASSUME ReadInv, [Next]_vars PROVE Kept \/ UNCHANGED vars
  <2> USE DEF loopVars, displayVars, streamVars
  <2>1. ASSUME NEW t \in Threads, ReadEvents(t) PROVE Kept
    <3>1. CASE last_error \/ reader_count # 1
      <4>1. socket' = socket
        BY <2>1, <3>1 DEF ReadEvents, wl_display_read_events
      <4> QED
        BY <1>1, <4>1 DEF ReadInv, RiTypeOK
    <3>2. CASE ~last_error /\ reader_count = 1
      <4>1. t \in Announced
        BY <2>1 DEF ReadEvents, Announced
      <4>2. Announced = {t}
        BY <1>1, <3>2, <4>1, LastReader DEF ReadInv
      <4>3. at'[t] # "holding"
        BY <1>1, <2>1 DEF ReadEvents, ReadInv, RiTypeOK
      <4> QED
        BY <4>2, <4>3 DEF Announced
    <3> QED
      BY <3>1, <3>2
  <2>2. ASSUME NEW q \in Queues, Send(q) PROVE Kept
    BY <1>1, <2>2 DEF Send, ReadInv, RiTypeOK
  <2>3. ASSUME socket' = socket PROVE Kept
    BY <1>1, <2>3 DEF ReadInv, RiTypeOK
  <2>4. CASE Next
    <3>1. ASSUME NEW t \in Threads,
                 \/ Prepare(t) \/ Wake(t) \/ Throw(t) \/ Dispatch(t) \/ DestructMoved(t)
                 \/ TimeOut(t) \/ Fail(t) \/ FailInside(t) \/ Move(t)
          PROVE  socket' = socket
      BY <3>1 DEF Prepare, Wake, Throw, Dispatch, DestructMoved, TimeOut, Fail, FailInside, Move
    <3>2. CloseConnection => socket' = socket
      BY DEF CloseConnection
    <3> QED
      BY <2>1, <2>2, <2>3, <2>4, <3>1, <3>2 DEF Next, Step, Read, Unpolled
  <2> QED
    BY <1>1, <2>4
<1>2. ReadInv /\ [Next]_vars => [Kept]_vars
  BY <1>1
<1> QED
  BY <1>2, Initially, Inductive, PTL DEF Spec, NobodyReadsMeanwhile
=============================================================================
