------------------------- MODULE ProxyEventsProofs -------------------------
(***************************************************************************)
(* Proofs about ProxyEvents, for any number of handles, objects, wrappers, *)
(* queues and events: what proxy_t guarantees (ProxyProofs) it guarantees  *)
(* to event handlers as well, and what events create is owned like         *)
(* everything else.                                                        *)
(***************************************************************************)
EXTENDS ProxyEvents, ProxyProofs, SequenceTheorems

\* One thread dispatches and releases, and no event names an object that another
\* library made.
Confined == Habits \cap {"other_thread", "foreign_arg"} = {}

\* The types of the variables of this module.
EvTypes == /\ pending \in Seq(Events) /\ Len(pending) <= MaxEvents
           /\ event \in Events \cup {NoEvent} /\ at \in Places
           /\ theirs \in SUBSET Objects /\ raw \in SUBSET Objects

\* The other library's objects have no block, and no event names them; an object
\* without a dispatcher is there and ours.
Apart == /\ theirs \subseteq live \ allocated /\ theirs \cap Named = {}
         /\ raw \subseteq live \ theirs

\* An object without a block is new, or the other library's.
Known == live \cap Objects \subseteq allocated \cup raw \cup theirs

\* The dispatcher's locals keep the target and the argument.
Held(s, p) == Full(s) /\ proxy[s] = p /\ type[s] = "standard"
ArgHeld == IF event.arg = None THEN Empty(Arg) ELSE Held(Arg, event.arg)
LocalsOK ==
    /\ at = "idle" => event = NoEvent /\ Empty(Arg) /\ Empty(Target)
    /\ at = "args" => /\ Empty(Arg) /\ Empty(Target)
                      /\ event.target \in live \cap allocated
                      /\ event.arg # None => event.arg \in live
    /\ at = "target" => /\ ArgHeld /\ Empty(Target)
                        /\ event.target \in live \cap allocated
    /\ at \in {"call", "running", "leaving"} => ArgHeld /\ Held(Target, event.target)
    /\ at = "left" => IF event = NoEvent THEN Empty(Target) ELSE ArgHeld

\* Until the handler is called, nobody is in the middle of a release.
NoReleases == at \in {"args", "target", "call"} => Quiet

EvInv == /\ WrapInv /\ Typed /\ Owned
         /\ EvTypes /\ Apart /\ Known /\ LocalsOK /\ NoReleases
-----------------------------------------------------------------------------
(* What the client and its releases do, seen from the dispatcher *)

LEMMA LocalFacts ==
    /\ Arg \in Handles /\ Target \in Handles /\ Arg # Target
    /\ Arg \in Slots /\ Target \in Slots /\ Arg \notin Wrappers /\ Target \notin Wrappers
    /\ ClientHandles \subseteq Handles /\ Arg \notin ClientHandles /\ Target \notin ClientHandles
    /\ Objects \subseteq Proxies /\ None \notin Objects /\ Display \notin Objects
BY LocalsAssumption, AddressAssumption DEF ClientHandles, Slots, Proxies

\* A step of some handles leaves the others alone.
LEMMA OthersStay ==
    ASSUME IInv, NEW H \in SUBSET Handles, Client(H), NEW s \in Handles \ H
    PROVE  proxy'[s] = proxy[s] /\ type'[s] = type[s] /\ stage'[s] = stage[s]
<1>0. H \subseteq Slots /\ s \in Slots /\ s \notin Wrappers /\ TypeOK
  BY AddressAssumption DEF Slots, IInv
<1> DEFINE Same == proxy'[s] = proxy[s] /\ type'[s] = type[s] /\ stage'[s] = stage[s]
<1>1. ASSUME NEW h \in H, Connect(h) \/ WrapForeign(h) PROVE Same
  <2>1. stage' = stage
    BY <1>1 DEF Connect, WrapForeign
  <2> QED
    BY <1>0, <1>1, <2>1, SlotsOf
<1>2. ASSUME NEW h \in H, Release(h) \/ Destruct(h) PROVE Same
  BY <1>0, <1>2, ReleasedStep
<1>3. ASSUME NEW g \in H, NEW h \in H, Copy(g, h) \/ Move(g, h) PROVE Same
  <2>1. stage' = stage
    BY <1>3 DEF Copy, Move
  <2> QED
    BY <1>0, <1>3, <2>1, SlotsOf
<1>4. ASSUME NEW g \in H, NEW h \in H, NEW o \in Objects, Create(g, h, o) PROVE Same
  <2>1. stage' = stage
    BY <1>4 DEF Create
  <2> QED
    BY <1>0, <1>4, <2>1, SlotsOf
<1>5. ASSUME NEW g \in H, NEW h \in H, NEW w \in Wrappers, CreateWrapper(g, h, w) PROVE Same
  <2>1. stage' = stage
    BY <1>5 DEF CreateWrapper, Wrap
  <2> QED
    BY <1>0, <1>5, <2>1, SlotsOf
<1>6. ASSUME NEW h \in H, \/ \E q \in Queues : CreateQueue(h, q)
                          \/ \E q \in Queues \cup {None} : SetQueue(h, q)
      PROVE  Same
  BY <1>6, SlotsStay
<1> QED
  BY <1>1, <1>2, <1>3, <1>4, <1>5, <1>6 DEF Client

\* A release in progress leaves the handles alone that are not part of it.
LEMMA IdleStay ==
    ASSUME IInv, (\E s \in Slots : Continue(s)) \/ (\E w \in Wrappers : Unwrap(w)),
           NEW t \in Handles, Idle(t)
    PROVE  proxy'[t] = proxy[t] /\ type'[t] = type[t] /\ stage'[t] = stage[t]
<1>0. t \in Slots /\ t \notin Wrappers /\ Wrappers \subseteq Slots /\ TypeOK
  BY AddressAssumption DEF Slots, IInv
<1>1. ASSUME NEW s \in Slots, Continue(s)
      PROVE  proxy'[t] = proxy[t] /\ type'[t] = type[t] /\ stage'[t] = stage[t]
  BY <1>0, <1>1, SlotsContinued
<1>2. ASSUME NEW w \in Wrappers, Unwrap(w)
      PROVE  proxy'[t] = proxy[t] /\ type'[t] = type[t] /\ stage'[t] = stage[t]
  BY <1>0, <1>2, ReleasedStep
<1> QED
  BY <1>1, <1>2

\* When no release is in progress there is none to go on with.
LEMMA NothingToContinue ==
    ASSUME Quiet
    PROVE  (\A s \in Slots : ~Continue(s)) /\ (\A w \in Wrappers : ~Unwrap(w))
<1>1. \A s \in Slots : stage[s] = "idle"
  BY DEF Quiet, Idle
<1> QED
  BY <1>1 DEF Continue, Close, Free, Unwrap

\* What the client makes is new; it frees nothing.
LEMMA ClientObjects ==
    ASSUME IInv, NEW H \in SUBSET Handles, Client(H) \/ \E q \in Queues : DropQueue(q)
    PROVE  /\ live \subseteq live' /\ allocated \subseteq allocated'
           /\ allocated' \ allocated \subseteq Proxies \ live
           /\ live' \ live \subseteq allocated'
<1>0. Display \in Proxies /\ Objects \subseteq Proxies /\ Wrappers \subseteq Proxies
  BY DEF Proxies
<1>1. ASSUME NEW h \in H, Connect(h)
      PROVE  \E p \in Proxies \ live : live' = live \cup {p} /\ allocated' = allocated \cup {p}
  BY <1>0, <1>1 DEF Connect, NewData, Unused
<1>2. ASSUME NEW g \in H, NEW h \in H, NEW o \in Objects, Create(g, h, o)
      PROVE  \E p \in Proxies \ live : live' = live \cup {p} /\ allocated' = allocated \cup {p}
  BY <1>0, <1>2 DEF Create, NewData, Unused
<1>3. ASSUME NEW g \in H, NEW h \in H, NEW w \in Wrappers, CreateWrapper(g, h, w)
      PROVE  \E p \in Proxies \ live : live' = live \cup {p} /\ allocated' = allocated \cup {p}
  BY <1>0, <1>3 DEF CreateWrapper, Wrap, NewData, Unused
<1>4. ASSUME NEW h, WrapForeign(h) \/ Release(h) \/ Destruct(h)
      PROVE  live' = live /\ allocated' = allocated
  BY <1>4 DEF WrapForeign, Release, Destruct, dataVars, wlVars
<1>5. ASSUME NEW g, NEW h, Copy(g, h) \/ Move(g, h)
      PROVE  live' = live /\ allocated' = allocated
  BY <1>5 DEF Copy, Move, dataVars, wlVars
<1>6. ASSUME NEW h, NEW q, CreateQueue(h, q) \/ SetQueue(h, q) \/ DropQueue(q)
      PROVE  live' = live /\ allocated' = allocated
  BY <1>6 DEF CreateQueue, SetQueue, DropQueue, dataVars, wlVars
<1>7. \/ live' = live /\ allocated' = allocated
      \/ \E p \in Proxies \ live : live' = live \cup {p} /\ allocated' = allocated \cup {p}
  <2>1. CASE \E q \in Queues : DropQueue(q)
    BY <1>6, <2>1
  <2>2. CASE Client(H)
    BY <1>1, <1>2, <1>3, <1>4, <1>5, <1>6, <2>2 DEF Client
  <2> QED
    BY <2>1, <2>2
<1> QED
  BY <1>7

\* Releases destroy objects that have a block, and free the blocks of those that
\* are destroyed.
LEMMA ReleasedObjects ==
    ASSUME IInv, Gone, (\E s \in Slots : Continue(s)) \/ (\E w \in Wrappers : Unwrap(w))
    PROVE  /\ live' \subseteq live /\ allocated' \subseteq allocated
           /\ live \ live' \subseteq allocated /\ allocated \cap live' \subseteq allocated'
<1>1. ASSUME NEW s \in Slots, Close(s)
      PROVE  live' = live \ {proxy[s]} /\ proxy[s] \in allocated /\ allocated' = allocated
  BY <1>1 DEF Close, dataVars, IInv, Releasing, Idle
<1>2. ASSUME NEW s \in Slots, Free(s)
      PROVE  allocated' = allocated \ {proxy[s]} /\ proxy[s] \notin live /\ live' = live
  BY <1>2 DEF Free, wlVars, Gone
<1>3. ASSUME NEW w \in Wrappers, Unwrap(w) PROVE live' = live /\ allocated' = allocated
  BY <1>3 DEF Unwrap, wlVars
<1> QED
  BY <1>1, <1>2, <1>3 DEF Continue
-----------------------------------------------------------------------------
(* What c_dispatcher does to the objects *)

\* A local takes up an object: what changes,
LEMMA AcquiredFrame ==
    ASSUME IInv, NEW s \in {Arg, Target}, Empty(s), NEW p \in Objects, Acquire(s, p)
    PROVE  /\ Held(s, p)' /\ HasData(s)' /\ stage' = stage /\ live' = live
           /\ allocated' = allocated \cup {p} /\ p \in live
           /\ \A t \in Slots \ {s} : proxy'[t] = proxy[t] /\ type'[t] = type[t]
           /\ UNCHANGED <<ending, wlVars, queueVars>>
<1>1. s \in Slots /\ p # None
  BY LocalFacts
<1>2. proxy \in [Slots -> Proxies \cup {None}] /\ type \in [Slots -> WrapperTypes]
  BY DEF IInv, TypeOK
<1>3. /\ proxy' = [proxy EXCEPT ![s] = p] /\ type' = [type EXCEPT ![s] = "standard"]
      /\ stage' = stage /\ p \in live /\ UNCHANGED <<ending, wlVars, queueVars>>
  BY DEF Acquire
<1>4. allocated' = allocated \cup {p} /\ live' = live
  BY <1>3 DEF Acquire, NewData, wlVars
<1>5. /\ proxy'[s] = p /\ type'[s] = "standard"
      /\ \A t \in Slots \ {s} : proxy'[t] = proxy[t] /\ type'[t] = type[t]
  BY <1>1, <1>2, <1>3
<1>6. Held(s, p)' /\ HasData(s)'
  BY <1>1, <1>3, <1>5 DEF Held, Full, HasData, Empty, Idle
<1> QED
  BY <1>3, <1>4, <1>5, <1>6

\* and that references stay counted.
LEMMA AcquiredCounts ==
    ASSUME IInv, Quiet, NEW s \in {Arg, Target}, Empty(s), NEW p \in Objects, Acquire(s, p)
    PROVE  IInv'
<1>0. /\ s \in Handles /\ s \in Slots /\ s \notin Wrappers /\ p \in Proxies /\ p # None /\ p # Display
      /\ Idle(s) /\ ~HasData(s)
  BY LocalFacts DEF Empty, HasData
<1>1. /\ Held(s, p)' /\ HasData(s)' /\ stage' = stage /\ live' = live
      /\ allocated' = allocated \cup {p} /\ p \in live
      /\ \A t \in Slots \ {s} : proxy'[t] = proxy[t] /\ type'[t] = type[t]
      /\ UNCHANGED <<ending, wlVars, queueVars>>
  BY AcquiredFrame
<1>2. /\ proxy' = [proxy EXCEPT ![s] = p] /\ type' = [type EXCEPT ![s] = "standard"]
      /\ proxy'[s] = p /\ "standard" \in WrapperTypes \ {"foreign"}
  BY <1>1 DEF Acquire, Held, WrapperTypes
<1>3. TypeOK'
  <2>1. CASE p \in allocated
    BY <1>0, <1>1, <1>2, <2>1 DEF Acquire, IInv, TypeOK, wlVars, queueVars
  <2>2. CASE p \notin allocated
    BY <1>0, <1>1, <1>2, <2>2 DEF Acquire, NewData, IInv, TypeOK, wlVars, queueVars
  <2> QED
    BY <2>1, <2>2
<1>4. ForeignOwned'
  BY <1>0, <1>1 DEF IInv, ForeignOwned, wlVars
<1>5. CASE p \notin allocated
  <2>1. counter' = [counter EXCEPT ![p] = 1]
    BY <1>5 DEF Acquire
  <2>2. live' = live \cup {p}
    BY <1>1
  <2>3. RefInv'
    BY <1>0, <1>1, <1>2, <1>5, <2>1, <2>2, NewHolder
  <2> QED
    BY <1>3, <1>4, <2>3 DEF IInv, RefInv
<1>6. CASE p \in allocated
  <2>1. /\ counter' = [counter EXCEPT ![p] = @ + 1] /\ allocated' = allocated
        /\ counter'[p] = counter[p] + 1
        /\ \A q \in Proxies \ {p} : counter'[q] = counter[q]
    BY <1>0, <1>6 DEF Acquire, IInv, TypeOK
  <2>2. /\ \A t \in Slots : Idle(t) /\ Idle(t)'
        /\ \A t \in Slots \ {s} : HasData(t)' <=> HasData(t)
    BY <1>1 DEF Quiet, Idle, HasData
  <2>3. NoDangling'
    BY <1>1, <1>2, <1>6, <2>1, <2>2 DEF IInv, NoDangling
  <2>4. Releasing' /\ DestroyedOnce'
    BY <2>2 DEF Releasing, DestroyedOnce
  <2>5. MembersOwned'
    BY <1>0, <1>1, <2>1 DEF IInv, MembersOwned, Slots
  <2>6. ASSUME NEW q \in allocated' PROVE CountOK(q)'
    <3>1. q \in Proxies /\ q # None /\ CountOK(q)
      BY <2>1, AddressAssumption DEF IInv, TypeOK
    <3>2. s \notin Refs(q)
      BY <1>0, <3>1 DEF Refs, HasData
    <3>3. CASE q = p
      <4>1. Refs(p)' = Refs(p) \cup {s}
        BY <1>0, <1>1, <1>2, <2>2 DEF Refs, HasData
      <4> QED
        BY <2>1, <3>1, <3>2, <3>3, <4>1, CountAdd DEF IInv
    <3>4. CASE q # p
      <4>1. Refs(q)' = Refs(q)
        BY <1>0, <1>1, <1>2, <2>2, <3>2, <3>4 DEF Refs
      <4> QED
        BY <2>1, <3>1, <3>4, <4>1, CountSame
    <3> QED
      BY <3>3, <3>4
  <2> QED
    BY <1>3, <1>4, <2>3, <2>4, <2>5, <2>6 DEF IInv
<1> QED
  BY <1>5, <1>6

LEMMA Acquired ==
    ASSUME WrapInv, Typed, Owned, Quiet, NEW s \in {Arg, Target}, Empty(s), NEW p \in Objects,
           Acquire(s, p)
    PROVE  WrapInv' /\ Typed' /\ Owned'
<1>0. IInv /\ s \in Slots /\ s \notin Wrappers /\ p \in Proxies
  BY LocalFacts DEF WrapInv
<1>1. /\ Held(s, p)' /\ stage' = stage /\ live' = live
      /\ allocated' = allocated \cup {p}
      /\ \A t \in Slots \ {s} : proxy'[t] = proxy[t] /\ type'[t] = type[t]
  BY <1>0, AcquiredFrame
<1>2. \A t \in Slots : stage[t] = "idle"
  BY DEF Quiet, Idle
<1>3. Holding' /\ Gone' /\ Grounded'
  <2>1. \A w \in Wrappers \cap live' : /\ proxy'[w] = proxy[w] /\ type'[w] = type[w]
                                       /\ stage'[w] = stage[w] /\ w \in allocated'
    BY <1>0, <1>1 DEF Slots, WrapInv, Holding
  <2> QED
    BY <1>1, <1>2, <2>1, WrappersStay
<1>4. Typed'
  <2>1. type'[s] \in Kinds(p) /\ proxy'[s] = p
    BY <1>1, LocalFacts DEF Held, Kinds
  <2>2. \A t \in Slots : proxy'[t] # None => type'[t] \in Kinds(proxy'[t])
    BY <1>1, <2>1 DEF Typed
  <2> QED
    BY <2>2 DEF Typed, Kinds
<1>5. \A q \in allocated' : counter'[q] # 0
  <2>1. \A q \in allocated : counter[q] # 0 /\ counter[q] \in Nat
    BY <1>0, <1>2 DEF Owned, Idle, IInv, TypeOK
  <2>2. \/ p \in allocated /\ counter' = [counter EXCEPT ![p] = @ + 1]
        \/ counter' = [counter EXCEPT ![p] = 1]
    BY DEF Acquire
  <2>3. counter \in [Proxies -> Nat] /\ allocated \subseteq Proxies
    BY <1>0 DEF IInv, TypeOK
  <2> QED
    BY <1>0, <1>1, <2>1, <2>2, <2>3
<1>6. Owned'
  BY <1>5 DEF Owned
<1> QED
  BY <1>0, <1>3, <1>4, <1>6, AcquiredCounts DEF WrapInv

\* Steps that leave the handles and the blocks alone, and destroy nothing that has
\* a block.
LEMMA AroundObjects ==
    ASSUME WrapInv, Typed, Owned, UNCHANGED <<slotVars, allocated, counter, queue, foreign, queueVars>>,
           has_destroy_opcode' \in SUBSET Proxies, resource' \in SUBSET Objects,
           wlQueue' \in [Proxies -> Queues \cup {None}],
           live' \in SUBSET Proxies, live' \cap allocated = live \cap allocated,
           live' \ Objects = live \ Objects
    PROVE  WrapInv' /\ Typed' /\ Owned'
<1>0. /\ proxy' = proxy /\ type' = type /\ stage' = stage /\ allocated' = allocated /\ IInv
      /\ Display \notin Objects /\ Objects \cap Wrappers = {}
  BY AddressAssumption DEF slotVars, WrapInv
<1>1. IInv'
  <2>1. RefInv'
    BY <1>0, Unaffected
  <2>2. TypeOK'
    BY DEF WrapInv, IInv, TypeOK, slotVars, queueVars
  <2>3. ForeignOwned'
    BY <1>0 DEF IInv, ForeignOwned
  <2> QED
    BY <2>1, <2>2, <2>3 DEF IInv, RefInv
<1>2. Holding' /\ Gone' /\ Grounded'
  <2>1. Wrappers \cap live' \subseteq live
    BY <1>0
  <2>2. \A w \in Wrappers \cap live' : w \in allocated'
    BY <1>0, <2>1 DEF WrapInv, Holding
  <2> QED
    BY <1>0, <2>1, <2>2, WrappersStay
<1>3. Typed' /\ Owned'
  BY <1>0 DEF Typed, Owned, Idle, Kinds
<1> QED
  BY <1>1, <1>2, <1>3 DEF WrapInv
-----------------------------------------------------------------------------
(* The invariant *)

\* What a step of Proxy keeps.
LEMMA ObjectsKept ==
    ASSUME WrapInv, Typed, Owned, [Next]_vars
    PROVE  WrapInv' /\ Typed' /\ Owned'
BY Inductive, WrappersStep, TypedStep, OwnedStep DEF WrapInv

\* What is said of the locals depends on their slots only, and on what is live
\* until the argument and the target have been taken up.
LEMMA LocalsStay ==
    ASSUME LocalsOK, event' = event, at' = at,
           \A s \in {Arg, Target} : Idle(s) => /\ proxy'[s] = proxy[s] /\ type'[s] = type[s]
                                              /\ stage'[s] = stage[s],
           at \in {"args", "target"} => live \subseteq live' /\ allocated \subseteq allocated'
    PROVE  LocalsOK'
<1> USE DEF Held, Full, Empty, Idle, ArgHeld
<1>1. \A p : \A s \in {Arg, Target} : Held(s, p) => Held(s, p)'
  OBVIOUS
<1>2. \A s \in {Arg, Target} : Empty(s) => Empty(s)'
  OBVIOUS
<1>3. ArgHeld => ArgHeld'
  BY <1>1, <1>2
<1> HIDE DEF Held, Full, Empty, Idle, ArgHeld
<1> QED
  BY <1>1, <1>2, <1>3 DEF LocalsOK

\* The client's calls.
LEMMA ClientStepKeeps ==
    ASSUME Confined, EvInv, ClientStep
    PROVE  EvInv'
<1>0. WrapInv /\ IInv /\ Typed /\ Owned /\ EvTypes /\ Apart /\ Known /\ LocalsOK
  BY DEF EvInv, WrapInv
<1>1. /\ at \in {"idle", "running"}
      /\ Client(ClientHandles) \/ \E q \in Queues : DropQueue(q)
      /\ UNCHANGED eventVars
  BY DEF ClientStep, Confined
<1>2. ClientHandles \in SUBSET Handles /\ Arg \in Handles \ ClientHandles
      /\ Target \in Handles \ ClientHandles
  BY LocalFacts
<1>3. Next
  <2>1. Client(ClientHandles) => Client(Handles)
    BY <1>2 DEF Client
  <2> QED
    BY <1>1, <2>1 DEF Next
<1>4. WrapInv' /\ Typed' /\ Owned'
  BY <1>0, <1>3, ObjectsKept
<1>5. /\ live \subseteq live' /\ allocated \subseteq allocated'
      /\ allocated' \ allocated \subseteq Proxies \ live
      /\ live' \ live \subseteq allocated'
  BY <1>0, <1>1, <1>2, ClientObjects
<1>6. \A s \in {Arg, Target} : proxy'[s] = proxy[s] /\ type'[s] = type[s] /\ stage'[s] = stage[s]
  <2>1. CASE Client(ClientHandles)
    BY <1>0, <1>2, <2>1, OthersStay
  <2>2. CASE \E q \in Queues : DropQueue(q)
    BY <2>2, SlotsStay
  <2> QED
    BY <1>1, <2>1, <2>2
<1>7. event' = event /\ at' = at /\ pending' = pending /\ theirs' = theirs /\ raw' = raw
  BY <1>1 DEF eventVars
<1>8. LocalsOK'
  BY <1>0, <1>1, <1>6, <1>7, LocalsStay
<1>9. EvTypes'
  BY <1>0, <1>7 DEF EvTypes
<1>10. Apart'
  BY <1>0, <1>5, <1>7 DEF Apart, Named, Undone
<1>11. Known'
  BY <1>0, <1>5, <1>7 DEF Known
<1>12. NoReleases'
  BY <1>1, <1>7 DEF NoReleases
<1> QED
  BY <1>4, <1>8, <1>9, <1>10, <1>11, <1>12 DEF EvInv

\* Releases going on.
LEMMA ReleaseStepKeeps ==
    ASSUME EvInv, ReleaseStep
    PROVE  EvInv'
<1>0. WrapInv /\ IInv /\ Gone /\ Typed /\ Owned /\ EvTypes /\ Apart /\ Known /\ LocalsOK
  BY DEF EvInv, WrapInv
<1>1. (\E s \in Slots : Continue(s)) \/ (\E w \in Wrappers : Unwrap(w))
  BY DEF ReleaseStep
<1>2. ~Quiet /\ at \notin {"args", "target", "call"}
  <2>1. ~Quiet
    BY <1>1, NothingToContinue
  <2> QED
    BY <2>1 DEF EvInv, NoReleases
<1>3. WrapInv' /\ Typed' /\ Owned'
  BY <1>0, <1>1, ObjectsKept DEF Next
<1>4. /\ live' \subseteq live /\ allocated' \subseteq allocated
      /\ live \ live' \subseteq allocated /\ allocated \cap live' \subseteq allocated'
  BY <1>0, <1>1, ReleasedObjects
<1>5. /\ raw' = raw \cap live'
      /\ pending' = pending /\ event' = event /\ at' = at /\ theirs' = theirs
  BY DEF ReleaseStep
<1>6. \A s \in {Arg, Target} : Idle(s) => /\ proxy'[s] = proxy[s] /\ type'[s] = type[s]
                                         /\ stage'[s] = stage[s]
  BY <1>0, <1>1, LocalFacts, IdleStay
<1>7. LocalsOK'
  BY <1>0, <1>2, <1>5, <1>6, LocalsStay
<1>8. EvTypes'
  BY <1>0, <1>5 DEF EvTypes
<1>9. Apart'
  BY <1>0, <1>4, <1>5 DEF Apart, Named, Undone
<1>10. Known'
  BY <1>0, <1>4, <1>5 DEF Known
<1>11. NoReleases'
  BY <1>2, <1>5 DEF NoReleases
<1> QED
  BY <1>3, <1>7, <1>8, <1>9, <1>10, <1>11 DEF EvInv

\* What an event more, or one less, does to the queue.
LEMMA Queueing ==
    ASSUME EvTypes, NEW e \in Events
    PROVE  /\ Append(pending, e) \in Seq(Events) /\ Len(Append(pending, e)) = Len(pending) + 1
           /\ \A i \in 1..Len(Append(pending, e)) :
                  \/ Append(pending, e)[i] = e
                  \/ i \in 1..Len(pending) /\ Append(pending, e)[i] = pending[i]
BY DEF EvTypes

LEMMA Unqueueing ==
    ASSUME EvTypes, pending # <<>>
    PROVE  /\ Head(pending) \in Events /\ Tail(pending) \in Seq(Events)
           /\ Len(Tail(pending)) <= MaxEvents
           /\ Head(pending) \in Undone
           /\ \A i \in 1..Len(Tail(pending)) : i + 1 \in 1..Len(pending)
                                               /\ Tail(pending)[i] = pending[i + 1]
<1>1. pending \in Seq(Events) /\ Len(pending) \in Nat \ {0} /\ Len(pending) <= MaxEvents
  BY DEF EvTypes
<1>2. /\ Tail(pending) \in Seq(Events) /\ Len(Tail(pending)) = Len(pending) - 1
      /\ \A i \in 1..Len(Tail(pending)) : Tail(pending)[i] = pending[i + 1]
  BY <1>1
<1>3. Head(pending) = pending[1] /\ 1 \in 1..Len(pending)
  BY <1>1
<1>4. Head(pending) \in Events /\ Head(pending) \in Undone
  BY <1>1, <1>3 DEF Undone
<1>5. Len(Tail(pending)) <= MaxEvents
  BY <1>1, <1>2, BoundAssumption
<1>6. \A i \in 1..Len(Tail(pending)) : i + 1 \in 1..Len(pending)
  BY <1>1, <1>2
<1> QED
  BY <1>2, <1>4, <1>5, <1>6

\* A new event names its target and its argument beside what was named before.
LEMMA NamedOnReceive ==
    ASSUME EvTypes, NEW e \in Events, pending' = Append(pending, e), event' = event
    PROVE  Named' \subseteq Named \cup {e.target, e.arg}
<1>1. Undone' \subseteq Undone \cup {e}
  BY Queueing DEF Undone
<1> QED
  BY <1>1 DEF Named

\* The compositor's events and the objects they introduce.
LEMMA ReceiveKeeps ==
    ASSUME Confined, EvInv, NEW o \in Objects, NEW a \in Objects \cup {None}, NEW new \in BOOLEAN,
           Receive(o, a, new)
    PROVE  EvInv'
<1> DEFINE e == [target |-> o, arg |-> a, new |-> new]
<1>0. WrapInv /\ IInv /\ Typed /\ Owned /\ EvTypes /\ Apart /\ Known /\ LocalsOK
  BY DEF EvInv, WrapInv
<1>1. /\ e \in Events /\ e.target = o /\ e.arg = a
      /\ pending' = Append(pending, e) /\ Len(pending) < MaxEvents
      /\ o \in live \ theirs
      /\ UNCHANGED <<slotVars, dataVars, foreign, queueVars, event, at, theirs>>
  BY DEF Receive, Events
<1>2. \/ /\ a \in Objects \ theirs /\ a \notin live \cup allocated
         /\ live' = live \cup {a} /\ raw' = raw \cup {a}
         /\ wlQueue' = [wlQueue EXCEPT ![a] = wlQueue[o]]
         /\ resource' = IF a \in Destroyable THEN resource \cup {a} ELSE resource
      \/ /\ a \notin theirs
         /\ UNCHANGED <<live, wlQueue, resource, raw>>
  <2>1. CASE new
    BY <2>1 DEF Receive, Unused
  <2>2. CASE ~new
    <3>1. a \in theirs => "foreign_arg" \in Habits
      BY <2>2 DEF Receive
    <3> QED
      BY <2>2, <3>1 DEF Receive, Confined
  <2> QED
    BY <2>1, <2>2
<1>3. WrapInv' /\ Typed' /\ Owned'
  <2>1. /\ resource' \in SUBSET Objects /\ wlQueue' \in [Proxies -> Queues \cup {None}]
        /\ live' \in SUBSET Proxies /\ has_destroy_opcode' \in SUBSET Proxies
    <3>1. o \in Proxies /\ Objects \subseteq Proxies
      BY LocalFacts
    <3>2. wlQueue \in [Proxies -> Queues \cup {None}] /\ live \in SUBSET Proxies
          /\ resource \in SUBSET Objects /\ has_destroy_opcode \in SUBSET Proxies
      BY <1>0 DEF IInv, TypeOK
    <3>3. wlQueue' \in [Proxies -> Queues \cup {None}]
      <4>1. wlQueue[o] \in Queues \cup {None}
        BY <3>1, <3>2
      <4> QED
        BY <1>2, <3>2, <4>1
    <3>4. resource' \in SUBSET Objects /\ live' \in SUBSET Proxies
      BY <1>2, <3>1, <3>2
    <3> QED
      BY <1>1, <3>2, <3>3, <3>4 DEF dataVars
  <2>2. live' \cap allocated = live \cap allocated /\ live' \ Objects = live \ Objects
    BY <1>2
  <2> QED
    BY <1>0, <1>1, <2>1, <2>2, AroundObjects DEF dataVars
<1>4. EvTypes'
  <2>1. raw' \in SUBSET Objects
    BY <1>0, <1>2 DEF EvTypes
  <2>2. pending' \in Seq(Events) /\ Len(pending') <= MaxEvents
    BY <1>0, <1>1, Queueing, BoundAssumption DEF EvTypes
  <2> QED
    BY <1>0, <1>1, <2>1, <2>2 DEF EvTypes
<1>5. Apart'
  <2>1. Named' \subseteq Named \cup {o, a}
    BY <1>0, <1>1, NamedOnReceive
  <2> QED
    BY <1>0, <1>1, <1>2, <2>1 DEF Apart, dataVars
<1>6. Known'
  BY <1>0, <1>1, <1>2 DEF Known, dataVars
<1>7. LocalsOK'
  BY <1>0, <1>1, <1>2, LocalsStay DEF slotVars, dataVars
<1>8. NoReleases'
  BY <1>1 DEF EvInv, NoReleases, Quiet, Idle, slotVars
<1> QED
  BY <1>3, <1>4, <1>5, <1>6, <1>7, <1>8 DEF EvInv

\* The other library.
LEMMA TheirsKeep ==
    ASSUME Confined, EvInv, NEW o \in Objects, TheirCreate(o) \/ TheirDestroy(o)
    PROVE  EvInv'
<1>0. WrapInv /\ IInv /\ Typed /\ Owned /\ EvTypes /\ Apart /\ Known /\ LocalsOK
  BY DEF EvInv, WrapInv
<1>1. /\ UNCHANGED <<slotVars, dataVars, resource, foreign, queueVars>>
      /\ UNCHANGED <<pending, event, at, raw>>
  BY DEF TheirCreate, TheirDestroy
<1>2. \/ /\ o \notin live \cup allocated \cup Named
         /\ live' = live \cup {o} /\ theirs' = theirs \cup {o}
      \/ /\ o \in theirs /\ at \in {"idle", "running"}
         /\ live' = live \ {o} /\ theirs' = theirs \ {o}
  BY DEF TheirCreate, TheirDestroy, Unused, Confined
<1>3. WrapInv' /\ Typed' /\ Owned'
  <2>1. wlQueue' \in [Proxies -> Queues \cup {None}]
    BY <1>0 DEF TheirCreate, TheirDestroy, IInv, TypeOK
  <2>2. /\ resource' \in SUBSET Objects /\ has_destroy_opcode' \in SUBSET Proxies
        /\ live' \in SUBSET Proxies
    BY <1>0, <1>1, <1>2, LocalFacts DEF IInv, TypeOK, dataVars
  <2>3. live' \cap allocated = live \cap allocated /\ live' \ Objects = live \ Objects
    BY <1>0, <1>2 DEF Apart
  <2> QED
    BY <1>0, <1>1, <2>1, <2>2, <2>3, AroundObjects DEF dataVars
<1>4. EvTypes'
  BY <1>0, <1>1, <1>2 DEF EvTypes
<1>5. Apart'
  BY <1>0, <1>1, <1>2 DEF Apart, dataVars, Named, Undone
<1>6. Known'
  BY <1>0, <1>1, <1>2 DEF Known, dataVars
<1>7. LocalsOK'
  BY <1>0, <1>1, <1>2, LocalsStay DEF slotVars, dataVars
<1>8. NoReleases'
  BY <1>1 DEF EvInv, NoReleases, Quiet, Idle, slotVars
<1> QED
  BY <1>3, <1>4, <1>5, <1>6, <1>7, <1>8 DEF EvInv
-----------------------------------------------------------------------------
(* The steps of a dispatch *)

\* The locals are there from WrapArg and WrapTarget until the last of them goes.
LEMMA HeldObject ==
    ASSUME NoDangling, NEW s \in Slots, NEW p \in Objects, Held(s, p)
    PROVE  p \in live \cap allocated
BY DEF Held, Full, Idle, NoDangling, HasData

LEMMA TakeKeeps ==
    ASSUME Confined, EvInv, Take
    PROVE  EvInv'
<1> DEFINE e == Head(pending)
<1>0. WrapInv /\ Typed /\ Owned /\ EvTypes /\ Apart /\ Known /\ LocalsOK
  BY DEF EvInv
<1>1. /\ at = "idle" /\ Quiet /\ pending # <<>> /\ pending' = Tail(pending)
      /\ UNCHANGED <<vars, theirs, raw>>
  BY DEF Take, Confined
<1>2. \/ /\ e.target \in live \ (raw \cup theirs) /\ at' = "args"
         /\ event' = [e EXCEPT !.arg = IF @ \in live THEN @ ELSE None]
      \/ event' = event /\ at' = at
  BY DEF Take
<1>3. WrapInv' /\ Typed' /\ Owned'
  BY <1>0, <1>1, ObjectsKept
<1>4. /\ e \in Events /\ e \in Undone /\ Tail(pending) \in Seq(Events)
      /\ Len(Tail(pending)) <= MaxEvents
      /\ \A i \in 1..Len(Tail(pending)) : i + 1 \in 1..Len(pending)
                                          /\ Tail(pending)[i] = pending[i + 1]
  BY <1>0, <1>1, Unqueueing
<1>5. e.target \in Objects /\ e.arg \in Objects \cup {None} /\ e.new \in BOOLEAN
  BY <1>4 DEF Events
<1>6. /\ event = NoEvent /\ Empty(Arg) /\ Empty(Target)
  BY <1>0, <1>1 DEF LocalsOK
<1>7. \/ /\ event' \in Events /\ event'.target = e.target /\ event'.arg \in {e.arg, None}
         /\ event'.arg # None => event'.arg \in live
         /\ e.target \in live \ (raw \cup theirs) /\ at' = "args"
      \/ event' = NoEvent /\ at' = "idle"
  BY <1>1, <1>2, <1>4, <1>5, <1>6 DEF Events
<1>8. EvTypes'
  BY <1>0, <1>1, <1>4, <1>7 DEF EvTypes, Places
<1>9. Apart'
  <2>1. \A f \in Undone' \ {event'} : f \in Undone
    BY <1>1, <1>4 DEF Undone
  <2>2. Named' \subseteq Named \cup {event'.target, event'.arg}
    BY <2>1 DEF Named
  <2>3. event'.target \in Named \cup {None} /\ event'.arg \in Named \cup {None}
    BY <1>4, <1>7 DEF Named, NoEvent
  <2>4. None \notin theirs
    BY <1>0, LocalFacts DEF EvTypes
  <2> QED
    BY <1>0, <1>1, <2>2, <2>3, <2>4 DEF Apart, vars, wlVars, dataVars
<1>10. Known'
  BY <1>0, <1>1 DEF Known, vars, wlVars, dataVars
<1>11. LocalsOK'
  <2>1. Empty(Arg)' /\ Empty(Target)'
    BY <1>1, <1>6 DEF Empty, Idle, vars, slotVars
  <2>2. /\ live' = live /\ allocated' = allocated
    BY <1>1 DEF vars, wlVars, dataVars
  <2>3. e.target \in live \ (raw \cup theirs) => e.target \in live \cap allocated
    BY <1>0, <1>5 DEF Known
  <2> QED
    BY <1>7, <2>1, <2>2, <2>3 DEF LocalsOK
<1>12. NoReleases'
  BY <1>1 DEF NoReleases, Quiet, Idle, vars, slotVars
<1> QED
  BY <1>3, <1>8, <1>9, <1>10, <1>11, <1>12 DEF EvInv

LEMMA WrapArgKeeps ==
    ASSUME EvInv, WrapArg
    PROVE  EvInv'
<1>0. WrapInv /\ IInv /\ Typed /\ Owned /\ EvTypes /\ Apart /\ Known /\ LocalsOK /\ Quiet
  <2>1. at = "args"
    BY DEF WrapArg
  <2> QED
    BY <2>1 DEF EvInv, WrapInv, NoReleases
<1>1. /\ at = "args" /\ at' = "target" /\ Empty(Arg) /\ Empty(Target)
      /\ event.target \in live \cap allocated /\ event.arg \in Objects \cup {None}
      /\ pending' = pending /\ event' = event /\ theirs' = theirs /\ raw' = raw
  <2>1. event.arg \in Objects \cup {None}
    BY <1>0 DEF EvTypes, Events, NoEvent
  <2> QED
    BY <1>0, <2>1 DEF WrapArg, LocalsOK
<1>2. CASE event.arg = None
  <2>1. UNCHANGED vars
    BY <1>2 DEF WrapArg
  <2>2. WrapInv' /\ Typed' /\ Owned'
    BY <1>0, <2>1, ObjectsKept
  <2>3. EvTypes' /\ Apart' /\ Known'
    BY <1>0, <1>1, <2>1 DEF EvTypes, Places, Apart, Known, Named, Undone, vars, wlVars, dataVars
  <2>4. LocalsOK'
    BY <1>1, <1>2, <2>1 DEF LocalsOK, ArgHeld, Empty, Idle, vars, slotVars, wlVars, dataVars
  <2>5. NoReleases'
    BY <1>0, <2>1 DEF NoReleases, Quiet, Idle, vars, slotVars
  <2> QED
    BY <2>2, <2>3, <2>4, <2>5 DEF EvInv
<1>3. CASE event.arg # None
  <2> DEFINE p == event.arg
  <2>1. Acquire(Arg, p) /\ p \in Objects
    BY <1>1, <1>3 DEF WrapArg
  <2>2. WrapInv' /\ Typed' /\ Owned'
    BY <1>0, <1>1, <2>1, Acquired
  <2>3. /\ Held(Arg, p)' /\ stage' = stage /\ live' = live
        /\ allocated' = allocated \cup {p} /\ p \in live
        /\ proxy'[Target] = proxy[Target] /\ type'[Target] = type[Target]
    BY <1>0, <1>1, <2>1, AcquiredFrame, LocalFacts
  <2>4. p \in Named
    BY DEF Named, Undone
  <2>5. EvTypes' /\ Apart' /\ Known'
    BY <1>0, <1>1, <2>3, <2>4 DEF EvTypes, Places, Apart, Known, Named, Undone
  <2>6. LocalsOK'
    BY <1>1, <1>3, <2>3 DEF LocalsOK, ArgHeld, Empty, Idle, Held
  <2>7. NoReleases'
    BY <1>0, <2>3 DEF NoReleases, Quiet, Idle
  <2> QED
    BY <2>2, <2>5, <2>6, <2>7 DEF EvInv
<1> QED
  BY <1>2, <1>3

LEMMA WrapTargetKeeps ==
    ASSUME EvInv, WrapTarget
    PROVE  EvInv'
<1> DEFINE p == event.target
<1>0. WrapInv /\ IInv /\ Typed /\ Owned /\ EvTypes /\ Apart /\ Known /\ LocalsOK /\ Quiet
  <2>1. at = "target"
    BY DEF WrapTarget
  <2> QED
    BY <2>1 DEF EvInv, WrapInv, NoReleases
<1>1. /\ at = "target" /\ at' = "call" /\ ArgHeld /\ Empty(Target)
      /\ p \in live \cap allocated /\ Acquire(Target, p)
      /\ pending' = pending /\ event' = event /\ theirs' = theirs /\ raw' = raw
  BY <1>0 DEF WrapTarget, LocalsOK
<1>2. p \in Objects
  <2>1. None \notin allocated
    BY <1>0, AddressAssumption DEF IInv, TypeOK
  <2> QED
    BY <1>0, <1>1, <2>1 DEF EvTypes, Events, NoEvent
<1>3. WrapInv' /\ Typed' /\ Owned'
  BY <1>0, <1>1, <1>2, Acquired
<1>4. /\ Held(Target, p)' /\ stage' = stage /\ live' = live /\ allocated' = allocated
      /\ proxy'[Arg] = proxy[Arg] /\ type'[Arg] = type[Arg]
  BY SMTT(30), <1>0, <1>1, <1>2, AcquiredFrame, LocalFacts
<1>5. EvTypes' /\ Apart' /\ Known'
  BY <1>0, <1>1, <1>4 DEF EvTypes, Places, Apart, Known, Named, Undone
<1>6. LocalsOK'
  BY <1>1, <1>4 DEF LocalsOK, ArgHeld, Held, Full, Empty, Idle
<1>7. NoReleases'
  BY <1>0, <1>4 DEF NoReleases, Quiet, Idle
<1> QED
  BY <1>3, <1>5, <1>6, <1>7 DEF EvInv

LEMMA CallKeeps ==
    ASSUME EvInv, Call
    PROVE  EvInv'
<1>0. WrapInv /\ IInv /\ NoDangling /\ Typed /\ Owned /\ EvTypes /\ Apart /\ Known /\ LocalsOK
  BY DEF EvInv, WrapInv, IInv
<1>1. /\ at = "call" /\ at' \in {"running", "leaving"} /\ raw' \in {raw, raw \ {event.arg}}
      /\ UNCHANGED <<slotVars, allocated, counter, queue, wlVars, queueVars, pending, event, theirs>>
      /\ has_destroy_opcode' \in {has_destroy_opcode,
                                  has_destroy_opcode \cup ({event.arg} \cap Destroyable)}
  BY DEF Call
<1>2. ArgHeld /\ Held(Target, event.target) /\ event.arg \in Objects \cup {None}
  BY <1>0, <1>1 DEF LocalsOK, EvTypes, Events, NoEvent
<1>3. WrapInv' /\ Typed' /\ Owned'
  <2>1. has_destroy_opcode' \in SUBSET Proxies
    BY <1>0, <1>1, AddressAssumption, LocalFacts DEF IInv, TypeOK
  <2>2. /\ live' = live /\ wlQueue' = wlQueue /\ resource' = resource
        /\ live \in SUBSET Proxies /\ resource \in SUBSET Objects
        /\ wlQueue \in [Proxies -> Queues \cup {None}]
    BY <1>0, <1>1 DEF IInv, TypeOK, wlVars
  <2> QED
    BY <1>0, <1>1, <2>1, <2>2, AroundObjects DEF wlVars
<1>4. EvTypes'
  BY <1>0, <1>1 DEF EvTypes, Places
<1>5. Apart'
  BY <1>0, <1>1 DEF Apart, Named, Undone, wlVars
<1>6. Known'
  <2>1. event.arg # None => event.arg \in allocated
    BY <1>0, <1>2, LocalFacts, HeldObject DEF ArgHeld
  <2> QED
    BY <1>0, <1>1, <2>1, LocalFacts DEF Known, wlVars
<1>7. LocalsOK'
  BY <1>1, <1>2 DEF LocalsOK, ArgHeld, Held, Full, Empty, Idle, slotVars
<1>8. NoReleases'
  BY <1>1 DEF NoReleases
<1> QED
  BY <1>3, <1>4, <1>5, <1>6, <1>7, <1>8 DEF EvInv

\* The handler keeps its argument, or returns.
LEMMA RunningKeeps ==
    ASSUME EvInv, NEW h \in Handles, Keep(h) \/ Return
    PROVE  EvInv'
<1>0. WrapInv /\ IInv /\ Typed /\ Owned /\ EvTypes /\ Apart /\ Known /\ LocalsOK
  BY DEF EvInv, WrapInv
<1>1. /\ at = "running" /\ at' \in {"running", "leaving"}
      /\ pending' = pending /\ event' = event /\ theirs' = theirs /\ raw' = raw
  BY DEF Keep, Return, eventVars
<1>2. (Copy(Arg, h) /\ h \in ClientHandles) \/ UNCHANGED vars
  BY DEF Keep, Return
<1>3. WrapInv' /\ Typed' /\ Owned'
  <2>1. Copy(Arg, h) => Next
    BY LocalFacts DEF Next, Client
  <2> QED
    BY <1>0, <1>2, <2>1, ObjectsKept
<1>4. live' = live /\ allocated' = allocated
  BY <1>2 DEF Copy, vars, wlVars, dataVars
<1>5. \A s \in {Arg, Target} : proxy'[s] = proxy[s] /\ type'[s] = type[s] /\ stage'[s] = stage[s]
  <2>1. CASE Copy(Arg, h) /\ h \in ClientHandles
    <3>1. stage' = stage
      BY <2>1 DEF Copy
    <3> QED
      BY <1>0, <2>1, <3>1, SlotsOf, LocalFacts
  <2>2. CASE UNCHANGED vars
    BY <2>2 DEF vars, slotVars
  <2> QED
    BY <1>2, <2>1, <2>2
<1>6. EvTypes' /\ Apart' /\ Known' /\ NoReleases'
  BY <1>0, <1>1, <1>4 DEF EvTypes, Places, Apart, Known, Named, Undone, NoReleases
<1>7. LocalsOK'
  <2>1. ArgHeld /\ Held(Target, event.target)
    BY <1>0, <1>1 DEF LocalsOK
  <2>2. ArgHeld' /\ Held(Target, event.target)'
    BY <1>1, <1>5, <2>1 DEF ArgHeld, Held, Full, Empty, Idle
  <2> QED
    BY <1>1, <2>2 DEF LocalsOK
<1> QED
  BY <1>3, <1>6, <1>7 DEF EvInv

\* The locals are destructed.
LEMMA LeaveKeeps ==
    ASSUME EvInv, LeaveTarget \/ LeaveArg
    PROVE  EvInv'
<1>0. WrapInv /\ IInv /\ TypeOK /\ Typed /\ Owned /\ EvTypes /\ Apart /\ Known /\ LocalsOK
  BY DEF EvInv, WrapInv, IInv
<1>1. /\ at \in {"leaving", "left"} /\ at' = "left"
      /\ pending' = pending /\ event' \in {event, NoEvent} /\ theirs' = theirs /\ raw' = raw
  BY DEF LeaveTarget, LeaveArg
<1>2. PICK s \in {Arg, Target} : Destruct(s)
  BY DEF LeaveTarget, LeaveArg
<1>3. WrapInv' /\ Typed' /\ Owned'
  <2>1. Next
    BY <1>2, LocalFacts DEF Next, Client
  <2> QED
    BY <1>0, <2>1, ObjectsKept
<1>4. live' = live /\ allocated' = allocated
  BY <1>0, <1>2, ReleasedStep, LocalFacts DEF wlVars
<1>5. EvTypes'
  BY <1>0, <1>1 DEF EvTypes, Places
<1>6. Apart'
  <2>1. Named' \subseteq Named \cup {None}
    BY <1>1 DEF Named, Undone, NoEvent
  <2>2. None \notin theirs
    BY <1>0, LocalFacts DEF EvTypes
  <2> QED
    BY <1>0, <1>1, <1>4, <2>1, <2>2 DEF Apart
<1>7. Known' /\ NoReleases'
  BY <1>0, <1>1, <1>4 DEF Known, NoReleases
<1>8. LocalsOK'
  <2>1. CASE LeaveTarget
    <3>1. at = "leaving" /\ Destruct(Target) /\ event' = event
      BY <2>1 DEF LeaveTarget
    <3>2. ArgHeld /\ Held(Target, event.target)
      BY <1>0, <3>1 DEF LocalsOK
    <3>3. proxy'[Arg] = proxy[Arg] /\ type'[Arg] = type[Arg] /\ stage'[Arg] = stage[Arg]
      BY <1>0, <3>1, ReleasedStep, LocalFacts
    <3>4. event # NoEvent /\ ArgHeld'
      BY <3>1, <3>2, <3>3 DEF ArgHeld, Held, Full, Empty, Idle, NoEvent
    <3> QED
      BY <1>1, <3>1, <3>4 DEF LocalsOK
  <2>2. CASE LeaveArg
    <3>1. at = "left" /\ Empty(Target) /\ Destruct(Arg) /\ event' = NoEvent
      BY <2>2 DEF LeaveArg
    <3>2. /\ proxy'[Target] = proxy[Target] /\ stage'[Target] = stage[Target]
      BY <1>0, <3>1, ReleasedStep, LocalFacts
    <3> QED
      BY <1>1, <3>1, <3>2 DEF LocalsOK, Empty, Idle
  <2> QED
    BY <2>1, <2>2
<1> QED
  BY <1>3, <1>5, <1>6, <1>7, <1>8 DEF EvInv

\* c_dispatcher has returned, or nothing happens.
LEMMA RestKeeps ==
    ASSUME EvInv, Done \/ UNCHANGED evVars
    PROVE  EvInv'
<1>0. WrapInv /\ Typed /\ Owned /\ EvTypes /\ Apart /\ Known /\ LocalsOK
  BY DEF EvInv
<1>1. /\ UNCHANGED vars
      /\ pending' = pending /\ event' = event /\ theirs' = theirs /\ raw' = raw
      /\ \/ at = "left" /\ at' = "idle" /\ event = NoEvent /\ Empty(Arg)
         \/ at' = at
  BY DEF Done, evVars, eventVars
<1>2. WrapInv' /\ Typed' /\ Owned'
  BY <1>0, <1>1, ObjectsKept
<1>3. EvTypes' /\ Apart' /\ Known'
  BY <1>0, <1>1 DEF EvTypes, Places, Apart, Known, Named, Undone, vars, wlVars, dataVars
<1>4. LocalsOK'
  BY <1>0, <1>1 DEF LocalsOK, ArgHeld, Held, Full, Empty, Idle, vars, slotVars, wlVars, dataVars
<1>5. NoReleases'
  BY <1>1 DEF EvInv, NoReleases, Quiet, Idle, vars, slotVars
<1> QED
  BY <1>2, <1>3, <1>4, <1>5 DEF EvInv
-----------------------------------------------------------------------------
(* The theorems *)

LEMMA EvInitial == EvInit => EvInv
<1> SUFFICES ASSUME EvInit PROVE EvInv
  OBVIOUS
<1>1. Init /\ pending = <<>> /\ event = NoEvent /\ at = "idle" /\ theirs = {} /\ raw = {}
  BY DEF EvInit
<1>2. WrapInv /\ Typed /\ Owned
  <2>1. KeepInv /\ LastInv
    BY <1>1, KeepInitial, LastInitial
  <2>2. Owned
    BY <1>1 DEF Init, Owned
  <2> QED
    BY <2>1, <2>2 DEF KeepInv, QueueInv, LastInv
<1>3. EvTypes
  BY <1>1, BoundAssumption DEF EvTypes, Places
<1>4. live = {} /\ allocated = {}
  BY <1>1 DEF Init
<1>5. Apart /\ Known
  BY <1>1, <1>4 DEF Apart, Known
<1>6. LocalsOK
  BY <1>1, LocalFacts DEF LocalsOK, Init, Empty, Idle
<1>7. NoReleases
  BY <1>1 DEF NoReleases
<1> QED
  BY <1>2, <1>3, <1>5, <1>6, <1>7 DEF EvInv

LEMMA EvInductive == Confined /\ EvInv /\ [EvNext]_evVars => EvInv'
<1> SUFFICES ASSUME Confined, EvInv, [EvNext]_evVars PROVE EvInv'
  OBVIOUS
<1>1. CASE ClientStep
  BY <1>1, ClientStepKeeps
<1>2. CASE ReleaseStep
  BY <1>2, ReleaseStepKeeps
<1>3. CASE Dispatch
  BY <1>3, LocalFacts, TakeKeeps, WrapArgKeeps, WrapTargetKeeps, CallKeeps, RunningKeeps,
     LeaveKeeps, RestKeeps
     DEF Dispatch
<1>4. CASE \E h \in Handles : Keep(h)
  BY <1>4, RunningKeeps
<1>5. CASE \E o \in Objects, a \in Objects \cup {None}, new \in BOOLEAN : Receive(o, a, new)
  BY <1>5, ReceiveKeeps
<1>6. CASE \E o \in Objects : TheirCreate(o) \/ TheirDestroy(o)
  BY <1>6, TheirsKeep
<1>7. CASE UNCHANGED evVars
  BY <1>7, RestKeeps
<1> QED
  BY <1>1, <1>2, <1>3, <1>4, <1>5, <1>6, <1>7 DEF EvNext

LEMMA EvInvariance == ASSUME Confined PROVE EvSpec => []EvInv
<1>1. EvInv /\ [EvNext]_evVars => EvInv'
  BY EvInductive
<1> QED
  BY <1>1, EvInitial, PTL DEF EvSpec

\* The variables keep their types, the dispatcher's locals among them, and events
\* stay within their bound.
THEOREM EventTypeCorrect == ASSUME Confined PROVE EvSpec => []EvTypeOK
<1>1. EvInv => EvTypeOK
  BY DEF EvInv, WrapInv, IInv, EvTypes, EvTypeOK
<1> QED
  BY <1>1, EvInvariance, PTL

\* A handler may release every handle the client has: the object it is called for
\* and the object it is given have their blocks until it returns, because the
\* dispatcher's locals count.
THEOREM HandlerKeepsObjectsCorrect ==
    ASSUME Confined
    PROVE  EvSpec => []HandlerKeepsObjects
<1>1. ASSUME EvInv PROVE HandlerKeepsObjects
  <2>1. SUFFICES ASSUME at \in {"call", "running"}
                 PROVE  /\ event.target \in live \cap allocated
                        /\ event.arg # None => event.arg \in live \cap allocated
    BY DEF HandlerKeepsObjects
  <2>2. ArgHeld /\ Held(Target, event.target) /\ NoDangling
    BY <1>1, <2>1 DEF EvInv, LocalsOK, WrapInv, IInv
  <2>3. event \in Events
    BY <1>1, <2>2 DEF EvInv, EvTypes, Held, Full, NoEvent
  <2> QED
    BY <2>2, <2>3, HeldObject, LocalFacts DEF ArgHeld, Events
<1> QED
  BY <1>1, EvInvariance, PTL

\* c_dispatcher makes proxy_t's only of a target that has a block and of an argument
\* that libwayland has not freed.
THEOREM TargetKnownCorrect == ASSUME Confined PROVE EvSpec => []TargetKnown
<1>1. ASSUME EvInv PROVE TargetKnown
  <2>1. LocalsOK /\ NoDangling
    BY <1>1 DEF EvInv, WrapInv, IInv
  <2>2. CASE at = "target" /\ event.arg # None
    <3>1. event.arg \in Objects
      BY <1>1, <2>2 DEF EvInv, EvTypes, Events, NoEvent
    <3>2. event.arg \in live
      BY <2>1, <2>2, <3>1, HeldObject, LocalFacts DEF LocalsOK, ArgHeld
    <3> QED
      BY <2>1, <2>2, <3>2 DEF LocalsOK, TargetKnown
  <2> QED
    BY <2>1, <2>2 DEF LocalsOK, TargetKnown
<1> QED
  BY <1>1, EvInvariance, PTL

\* Dispatching counts like everything else: counters stay the number of references,
\* nothing dangles, and one slot at most destroys an object.
THEOREM EventsCounted ==
    ASSUME Confined
    PROVE  EvSpec => [](/\ NoDangling /\ DestroyedOnce
                        /\ "copy_over" \notin Careless => Counted)
<1>1. EvInv => NoDangling /\ DestroyedOnce /\ \A p \in allocated : CountOK(p)
  BY DEF EvInv, WrapInv, IInv
<1>2. (\A p \in allocated : CountOK(p)) => ("copy_over" \notin Careless => Counted)
  BY DEF CountOK, Counted
<1> QED
  BY <1>1, <1>2, EvInvariance, PTL
-----------------------------------------------------------------------------
(* Objects with events are SharedObjects *)

\* An object without holders is not taken up again: a block has a holder, unless
\* a release is in progress or references have been lost.
LEMMA BlockHeld ==
    ASSUME IInv, Owned, Quiet, "copy_over" \notin Careless, NEW p \in allocated
    PROVE  Refs(p) # {}
<1>1. counter[p] # 0
  BY DEF Owned, Quiet
<1>2. counter[p] = Cardinality(Refs(p))
  BY DEF IInv, CountOK
<1> QED
  BY <1>1, <1>2, FS_EmptySet

\* The dispatcher takes up an object: a further holder, or the first one.
LEMMA ObjectAcquired ==
    ASSUME IInv, Owned, Quiet, "copy_over" \notin Careless, NEW s \in {Arg, Target}, Empty(s),
           NEW q \in Objects, Acquire(s, q), NEW p \in Objects \cup Wrappers
    PROVE  ObjectStep(p)
<1>1. s \in Slots /\ q \in Proxies /\ p \in Proxies /\ p # None
  BY LocalFacts, AddressAssumption DEF Proxies
<1>2. /\ proxy'[s] = q /\ type'[s] = "standard" /\ stage' = stage /\ stage[s] = "idle"
      /\ live' = live /\ allocated' = allocated \cup {q} /\ q \in live
      /\ \A t \in Slots \ {s} : proxy'[t] = proxy[t] /\ type'[t] = type[t]
  BY AcquiredFrame DEF Held, Empty, Idle
<1>3. s \in Refs(p)' <=> p = q
  BY <1>1, <1>2 DEF Refs, Idle
<1>4. CASE q \in allocated \/ p # q
  <2>1. (p \in live' \cap allocated') <=> (p \in live \cap allocated)
    BY <1>2, <1>4
  <2>2. s \in Refs(p)' => Refs(p) # {}
    BY <1>3, <1>4, BlockHeld
  <2> QED
    BY <1>1, <1>2, <2>1, <2>2, ObjectTaken
<1>5. CASE q \notin allocated /\ p = q
  <2>1. Refs(p) = {}
    BY <1>1, <1>5, Fresh
  <2>2. \A t \in Slots \ {s} : t \notin Refs(p)'
    BY <1>2, <2>1, HoldersBut
  <2>3. Refs(p)' = {s}
    BY <1>3, <1>5, <2>2 DEF Refs
  <2> QED
    BY <1>1, <1>2, <1>5, <2>3 DEF ObjectStep
<1> QED
  BY <1>4, <1>5

\* Every step of ProxyEvents is a step or a stutter of each object.
LEMMA EventsObjectsStep ==
    ASSUME Confined, "copy_over" \notin Careless, EvInv, [EvNext]_evVars,
           NEW p \in Objects \cup Wrappers
    PROVE  ObjectStep(p)
<1>0. IInv /\ Gone /\ Owned /\ EvTypes /\ Apart /\ LocalsOK /\ NoReleases
  BY DEF EvInv, WrapInv
<1>1. CASE [Next]_vars
  BY <1>0, <1>1, ObjectsStep
<1>2. CASE ClientStep \/ ReleaseStep \/ (\E h \in Handles : Keep(h)) \/ LeaveTarget \/ LeaveArg
  <2>1. Client(ClientHandles) => Client(Handles)
    BY LocalFacts DEF Client
  <2>2. \A h \in Handles : Copy(Arg, h) \/ Destruct(h) => Client(Handles)
    BY LocalFacts DEF Client
  <2>3. Next
    BY <1>2, <2>1, <2>2, LocalFacts
       DEF ClientStep, ReleaseStep, Keep, LeaveTarget, LeaveArg, Next
  <2> QED
    BY <1>1, <2>3
<1>3. CASE Take \/ Return \/ Done \/ UNCHANGED evVars
  <2>1. UNCHANGED vars
    BY <1>3 DEF Take, Return, Done, evVars
  <2> QED
    BY <1>1, <2>1
<1>4. CASE WrapArg
  <2>1. Quiet /\ Empty(Arg) /\ event.arg \in Objects \cup {None}
    BY <1>0, <1>4 DEF WrapArg, NoReleases, LocalsOK, EvTypes, Events, NoEvent
  <2>2. UNCHANGED vars \/ (event.arg # None /\ Acquire(Arg, event.arg))
    BY <1>4 DEF WrapArg
  <2> QED
    BY <1>0, <1>1, <2>1, <2>2, ObjectAcquired
<1>5. CASE WrapTarget
  <2>1. Quiet /\ Empty(Target) /\ event.target \in allocated /\ Acquire(Target, event.target)
    BY <1>0, <1>5 DEF WrapTarget, NoReleases, LocalsOK
  <2>2. event.target \in Objects
    BY <1>0, <2>1, AddressAssumption DEF IInv, TypeOK, EvTypes, Events, NoEvent
  <2> QED
    BY <1>0, <2>1, <2>2, ObjectAcquired
<1>6. ASSUME UNCHANGED <<slotVars, allocated>>, live' \cap allocated = live \cap allocated
      PROVE  ObjectStep(p)
  <2>1. proxy' = proxy /\ type' = type /\ stage' = stage /\ allocated' = allocated
    BY <1>6 DEF slotVars
  <2> QED
    BY <1>6, <2>1, ObjectKept
<1>7. CASE Call
  BY <1>6, <1>7 DEF Call, wlVars
<1>8. ASSUME NEW o \in Objects, NEW a \in Objects \cup {None}, NEW new \in BOOLEAN,
             Receive(o, a, new)
      PROVE  ObjectStep(p)
  <2>1. UNCHANGED <<slotVars, allocated>>
    BY <1>8 DEF Receive, dataVars
  <2>2. live' = live \/ (a \notin allocated /\ live' = live \cup {a})
    BY <1>8 DEF Receive, Unused
  <2> QED
    BY <1>6, <2>1, <2>2
<1>9. ASSUME NEW o \in Objects, TheirCreate(o) \/ TheirDestroy(o) PROVE ObjectStep(p)
  <2>1. UNCHANGED <<slotVars, allocated>>
    BY <1>9 DEF TheirCreate, TheirDestroy, dataVars
  <2>2. o \notin allocated /\ (live' = live \cup {o} \/ live' = live \ {o})
    BY <1>0, <1>9 DEF TheirCreate, TheirDestroy, Unused, Apart
  <2> QED
    BY <1>6, <2>1, <2>2
<1> QED
  BY <1>2, <1>3, <1>4, <1>5, <1>7, <1>8, <1>9 DEF EvNext, Dispatch

\* The safety part of ImplementsSharedObject with events: what a queued event names
\* is only taken up while something holds it, or when the event introduces it; an event
\* for an object that has lost its last handle brings nothing back.
THEOREM EventsImplement ==
    ASSUME Confined, "copy_over" \notin Careless
    PROVE  EvSpec => Shared!Init /\ [][Shared!Next]_(Shared!vars)
<1>1. EvInit => Shared!Init
  BY SharedInitially DEF EvInit
<1>2. EvInv /\ [EvNext]_evVars => [Shared!Next]_(Shared!vars)
  <2> SUFFICES ASSUME EvInv, [EvNext]_evVars PROVE Shared!Next
    OBVIOUS
  <2> QED
    BY EventsObjectsStep, ObjectStepsRefine
<1> QED
  BY <1>1, <1>2, EvInvariance, PTL DEF EvSpec
-----------------------------------------------------------------------------
(* What events introduce: a second invariant *)

\* The new object that the dispatcher has taken up and not given its class yet.
AsYet == IF at \in {"target", "call"} /\ event.new THEN {event.arg} ELSE {}

\* Events to t are dropped: t is gone, or it was introduced by an event that was dropped.
Doomed(t) == t \in live => t \in raw /\ \A e \in Undone : e.new => e.arg # t

\* An object without a block that an event names as an existing one is introduced
\* by an earlier event to the same target, or the event will be dropped.
Introduced ==
    \A i \in 1..Len(pending) :
        ~pending[i].new /\ pending[i].arg \in live \ allocated =>
            \/ Doomed(pending[i].target)
            \/ event.new /\ event.arg = pending[i].arg
            \/ \E j \in 1..(i - 1) : /\ pending[j].new /\ pending[j].arg = pending[i].arg
                                     /\ pending[j].target = pending[i].target

\* No event names an object before the one that introduces it.
FirstNamed ==
    \A j \in 1..Len(pending) : pending[j].new =>
        \A i \in 1..(j - 1) : pending[j].arg # pending[i].target

\* What has no dispatcher has no block, until the dispatcher takes it up.
RawBare == raw \cap allocated \subseteq AsYet

\* An existing argument that is taken up has a block.
ArgHasBlock == at = "args" /\ ~event.new /\ event.arg # None => event.arg \in allocated

IntroInv == Introduced /\ FirstNamed /\ RawBare /\ ArgHasBlock

\* Steps of Proxy touch no object that is there without a block.
LEMMA BesideBlocks ==
    ASSUME IInv, [Next]_vars
    PROVE  /\ resource' \subseteq resource \cup (live' \ live)
           /\ \A p \in live \ allocated : wlQueue'[p] = wlQueue[p]
<1> DEFINE Goal == /\ resource' \subseteq resource \cup (live' \ live)
                   /\ \A p \in live \ allocated : wlQueue'[p] = wlQueue[p]
<1>0. wlQueue \in [Proxies -> Queues \cup {None}] /\ live \subseteq Proxies
  BY DEF IInv, TypeOK
<1>1. ASSUME NEW h \in Handles, Connect(h) PROVE Goal
  BY <1>0, <1>1 DEF Connect, Unused
<1>2. ASSUME NEW g \in Handles, NEW h \in Handles, NEW o \in Objects, Create(g, h, o) PROVE Goal
  BY <1>0, <1>2 DEF Create, Unused
<1>3. ASSUME NEW g \in Handles, NEW h \in Handles, NEW w \in Wrappers, CreateWrapper(g, h, w)
      PROVE  Goal
  BY <1>0, <1>3 DEF CreateWrapper, Wrap, Unused
<1>4. ASSUME NEW g \in Handles, NEW q \in Queues \cup {None}, SetQueue(g, q) PROVE Goal
  <2>1. proxy[g] \in allocated /\ resource' = resource /\ wlQueue' = [wlQueue EXCEPT ![proxy[g]] = q]
    BY <1>4 DEF SetQueue, Full, IInv, NoDangling, Idle, Slots
  <2> QED
    BY <1>0, <2>1
<1>5. ASSUME NEW s \in Slots, Continue(s) PROVE Goal
  BY <1>5 DEF Continue, Close, Free, wlVars
<1>6. ASSUME NEW s, Unwrap(s) \/ Release(s) \/ Destruct(s) \/ WrapForeign(s) \/ DropQueue(s)
      PROVE  Goal
  BY <1>6 DEF Unwrap, Release, Destruct, WrapForeign, DropQueue, wlVars
<1>7. ASSUME NEW g, NEW h, Copy(g, h) \/ Move(g, h) \/ CreateQueue(g, h) PROVE Goal
  BY <1>7 DEF Copy, Move, CreateQueue, wlVars
<1>8. CASE ForeignConnect \/ ForeignDisconnect \/ UNCHANGED vars
  BY <1>0, <1>8 DEF ForeignConnect, ForeignDisconnect, Unused, vars, wlVars
<1>9. CASE Client(Handles)
  BY <1>9, <1>1, <1>2, <1>3, <1>4, <1>6, <1>7 DEF Client
<1> QED
  BY <1>5, <1>6, <1>8, <1>9 DEF Next

\* Events stay introduced if the queue does, no object that is named comes to life
\* or loses its block alone, and those that are doomed stay so.
LEMMA IntroducedStay ==
    ASSUME Introduced, pending' = pending,
           \/ event' = event
           \/ event' = NoEvent /\ event.arg \notin live' \ allocated',
           \A t \in Named : /\ t \in live' => t \in live
                            /\ t \in live' \ allocated' => t \notin allocated
                            /\ t \in raw \cap live' /\ Doomed(t) => t \in raw'
    PROVE  Introduced'
<1>1. Undone' \subseteq Undone \cup {NoEvent} /\ ~NoEvent.new
  BY DEF Undone, NoEvent
<1>2. ASSUME NEW t \in Named, Doomed(t) PROVE Doomed(t)'
  BY <1>1, <1>2 DEF Doomed
<1> SUFFICES ASSUME NEW i \in 1..Len(pending),
                    ~pending[i].new, pending[i].arg \in live' \ allocated'
             PROVE  \/ Doomed(pending[i].target)'
                    \/ event'.new /\ event'.arg = pending[i].arg
                    \/ \E j \in 1..(i - 1) : /\ pending[j].new /\ pending[j].arg = pending[i].arg
                                             /\ pending[j].target = pending[i].target
  BY DEF Introduced
<1>3. pending[i] \in Undone /\ pending[i].arg \in Named /\ pending[i].target \in Named
  BY DEF Undone, Named
<1>4. pending[i].arg \in live \ allocated
  BY <1>3
<1> QED
  BY <1>2, <1>3, <1>4 DEF Introduced

\* What the client does, and its releases, between dispatches and in handlers.
LEMMA IntroBetween ==
    ASSUME Confined, EvInv, IntroInv, ClientStep \/ ReleaseStep
    PROVE  IntroInv'
<1>0. IInv /\ Gone /\ Apart /\ NoReleases /\ Introduced /\ FirstNamed /\ RawBare
  BY DEF EvInv, WrapInv, IntroInv
<1>1. /\ pending' = pending /\ event' = event /\ at' = at /\ at \notin {"args", "target", "call"}
      /\ raw' = raw \cap live' /\ (live' \ live) \cap Named = {}
      /\ allocated' \cap raw \subseteq allocated /\ allocated \cap live' \subseteq allocated'
  <2>1. CASE ClientStep
    <3>1. /\ at \in {"idle", "running"} /\ UNCHANGED eventVars /\ (live' \ live) \cap Named = {}
          /\ Client(ClientHandles) \/ \E q \in Queues : DropQueue(q)
      BY <2>1 DEF ClientStep, Confined
    <3>2. /\ live \subseteq live' /\ allocated \subseteq allocated'
          /\ allocated' \ allocated \subseteq Proxies \ live
      BY <1>0, <3>1, ClientObjects, LocalFacts
    <3> QED
      BY <1>0, <3>1, <3>2 DEF Apart, eventVars
  <2>2. CASE ReleaseStep
    <3>1. /\ raw' = raw \cap live' /\ UNCHANGED <<pending, event, at>>
          /\ (\E s \in Slots : Continue(s)) \/ (\E w \in Wrappers : Unwrap(w))
      BY <2>2 DEF ReleaseStep
    <3>2. at \notin {"args", "target", "call"}
      BY <1>0, <3>1, NothingToContinue DEF NoReleases
    <3>3. /\ live' \subseteq live /\ allocated' \subseteq allocated
          /\ allocated \cap live' \subseteq allocated'
      BY <1>0, <3>1, ReleasedObjects
    <3> QED
      BY <3>1, <3>2, <3>3
  <2> QED
    BY <2>1, <2>2
<1>2. Introduced'
  BY <1>0, <1>1, IntroducedStay
<1>3. FirstNamed' /\ ArgHasBlock'
  BY <1>0, <1>1 DEF FirstNamed, ArgHasBlock
<1>4. RawBare'
  BY <1>0, <1>1 DEF RawBare, AsYet
<1> QED
  BY <1>2, <1>3, <1>4 DEF IntroInv

\* The handler keeps its argument, returns, and the locals go.
LEMMA IntroAfter ==
    ASSUME EvInv, IntroInv, NEW h \in Handles,
           Keep(h) \/ Return \/ LeaveTarget \/ LeaveArg \/ Done \/ UNCHANGED evVars
    PROVE  IntroInv'
<1>0. /\ IInv /\ NoDangling /\ TypeOK /\ EvTypes /\ LocalsOK
      /\ Introduced /\ FirstNamed /\ RawBare /\ ArgHasBlock
  BY DEF EvInv, WrapInv, IInv, IntroInv
<1>1. /\ pending' = pending /\ raw' = raw
      /\ \/ event' = event /\ at' = at
         \/ /\ at \in {"running", "leaving", "left"} /\ at' \in {"leaving", "left", "idle"}
            /\ event' = event
         \/ /\ event' = NoEvent /\ at = "left" /\ at' = "left" /\ event # NoEvent
  BY DEF Keep, Return, LeaveTarget, LeaveArg, Done, evVars, eventVars
<1>2. live' = live /\ allocated' = allocated
  <2>1. ASSUME NEW s \in {Arg, Target}, Destruct(s) PROVE live' = live /\ allocated' = allocated
    BY <2>1 DEF Destruct, wlVars
  <2>2. CASE LeaveTarget \/ LeaveArg
    BY <2>1, <2>2 DEF LeaveTarget, LeaveArg
  <2>3. CASE Keep(h) \/ Return \/ Done \/ UNCHANGED evVars
    BY <2>3 DEF Keep, Copy, Return, Done, evVars, vars, wlVars, dataVars
  <2> QED
    BY <2>2, <2>3
<1>3. event' # event => event.arg \notin live' \ allocated'
  <2>1. SUFFICES ASSUME event' # event, event.arg # None PROVE event.arg \in allocated
    BY <1>0, <1>2, AddressAssumption DEF TypeOK
  <2>2. ArgHeld /\ event.arg \in Objects
    BY <1>0, <1>1, <2>1 DEF LocalsOK, EvTypes, Events, NoEvent
  <2> QED
    BY <1>0, <2>1, <2>2, HeldObject, LocalFacts DEF ArgHeld
<1>4. Introduced'
  BY <1>0, <1>1, <1>2, <1>3, IntroducedStay
<1>5. FirstNamed'
  BY <1>0, <1>1 DEF FirstNamed
<1>6. RawBare' /\ ArgHasBlock'
  BY <1>0, <1>1, <1>2 DEF RawBare, AsYet, ArgHasBlock
<1> QED
  BY <1>4, <1>5, <1>6 DEF IntroInv

\* The argument and the target are taken up.
LEMMA IntroWraps ==
    ASSUME EvInv, IntroInv, WrapArg \/ WrapTarget
    PROVE  IntroInv'
<1>0. /\ IInv /\ TypeOK /\ EvTypes /\ LocalsOK /\ NoReleases /\ Introduced /\ FirstNamed /\ RawBare
      /\ ArgHasBlock
  BY DEF EvInv, WrapInv, IInv, IntroInv
<1>1. /\ pending' = pending /\ raw' = raw /\ event' = event
      /\ \/ at = "args" /\ at' = "target"
         \/ at = "target" /\ at' = "call"
  BY DEF WrapArg, WrapTarget
<1>2. /\ live' = live /\ allocated \subseteq allocated'
      /\ at = "args" => allocated' \subseteq allocated \cup ({event.arg} \ {None})
      /\ at = "target" => allocated' = allocated
  <2>1. CASE WrapArg
    <3>1. at = "args" /\ Empty(Arg) /\ event.arg \in Objects \cup {None}
      BY <1>0, <2>1 DEF WrapArg, LocalsOK, EvTypes, Events, NoEvent
    <3>2. CASE event.arg = None
      BY <2>1, <3>1, <3>2 DEF WrapArg, vars, wlVars, dataVars
    <3>3. CASE event.arg # None
      BY <1>0, <2>1, <3>1, <3>3, AcquiredFrame DEF WrapArg
    <3> QED
      BY <3>2, <3>3
  <2>2. CASE WrapTarget
    <3>1. at = "target" /\ Empty(Target) /\ event.target \in allocated
      BY <1>0, <2>2 DEF WrapTarget, LocalsOK
    <3>2. event.target \in Objects
      BY <1>0, <3>1, AddressAssumption DEF TypeOK, EvTypes, Events, NoEvent
    <3>3. live' = live /\ allocated' = allocated \cup {event.target}
      BY <1>0, <2>2, <3>1, <3>2, AcquiredFrame DEF WrapTarget
    <3> QED
      BY <3>1, <3>3
  <2> QED
    BY <2>1, <2>2
<1>3. Introduced'
  BY <1>0, <1>1, <1>2, IntroducedStay
<1>4. FirstNamed' /\ ArgHasBlock'
  BY <1>0, <1>1 DEF FirstNamed, ArgHasBlock
<1>5. RawBare'
  <2>1. CASE at = "args"
    BY <1>0, <1>1, <1>2, <2>1 DEF RawBare, AsYet, ArgHasBlock
  <2>2. CASE at = "target"
    BY <1>0, <1>1, <1>2, <2>2 DEF RawBare, AsYet
  <2> QED
    BY <1>1, <2>1, <2>2
<1> QED
  BY <1>3, <1>4, <1>5 DEF IntroInv

\* The new object gets its class.
LEMMA IntroCalls ==
    ASSUME EvInv, IntroInv, Call, "unhandled" \notin Habits
    PROVE  IntroInv'
<1>0. /\ IInv /\ NoDangling /\ EvTypes /\ LocalsOK
      /\ Introduced /\ FirstNamed /\ RawBare
  BY DEF EvInv, WrapInv, IInv, IntroInv
<1>1. /\ pending' = pending /\ event' = event /\ live' = live /\ allocated' = allocated
      /\ at = "call" /\ at' \in {"running", "leaving"}
      /\ \/ raw' = raw \ {event.arg}
         \/ raw' = raw /\ ~event.new
  BY DEF Call, wlVars
<1>2. raw' \cap allocated = {}
  BY <1>0, <1>1 DEF RawBare, AsYet
<1>3. ASSUME NEW t \in Named, t \in raw, Doomed(t), t \in live PROVE t \in raw'
  <2>1. CASE event.new
    <3>1. event \in Undone /\ event.arg # t
      BY <1>3, <2>1 DEF Doomed, Undone
    <3> QED
      BY <1>1, <1>3, <3>1
  <2>2. CASE ~event.new /\ event.arg = t
    <3>1. t \in Objects /\ t # None /\ ArgHeld
      BY <1>0, <1>1, <1>3, LocalFacts DEF EvTypes, LocalsOK
    <3>2. t \in allocated
      BY <1>0, <2>2, <3>1, HeldObject, LocalFacts DEF ArgHeld
    <3> QED
      BY <1>0, <1>3, <2>2, <3>2 DEF RawBare, AsYet
  <2> QED
    BY <1>1, <1>3, <2>1, <2>2
<1>4. Introduced'
  BY <1>0, <1>1, <1>3, IntroducedStay
<1>5. FirstNamed' /\ ArgHasBlock'
  BY <1>0, <1>1 DEF FirstNamed, ArgHasBlock
<1>6. RawBare'
  BY <1>1, <1>2 DEF RawBare
<1> QED
  BY <1>4, <1>5, <1>6 DEF IntroInv

\* The other library.
LEMMA IntroTheirs ==
    ASSUME EvInv, IntroInv, NEW o \in Objects, TheirCreate(o) \/ TheirDestroy(o)
    PROVE  IntroInv'
<1>0. Apart /\ Introduced /\ FirstNamed /\ RawBare /\ ArgHasBlock
  BY DEF EvInv, IntroInv
<1>1. /\ UNCHANGED <<dataVars, pending, event, at, raw>>
      /\ \/ live' = live \cup {o} /\ o \notin Named
         \/ live' = live \ {o}
  BY DEF TheirCreate, TheirDestroy
<1>2. Introduced'
  BY <1>0, <1>1, IntroducedStay DEF dataVars
<1>3. FirstNamed' /\ RawBare' /\ ArgHasBlock'
  BY <1>0, <1>1 DEF FirstNamed, RawBare, AsYet, ArgHasBlock, dataVars
<1> QED
  BY <1>2, <1>3 DEF IntroInv

\* A further event.
LEMMA IntroReceive ==
    ASSUME Confined, EvInv, IntroInv,
           NEW o \in Objects, NEW a \in Objects \cup {None}, NEW new \in BOOLEAN,
           Receive(o, a, new)
    PROVE  IntroInv'
<1> DEFINE e == [target |-> o, arg |-> a, new |-> new]
           n == Len(pending)
           Still(t) == t \in live' => t \in raw' /\ \A f \in Undone' : f.new => f.arg # t
<1>0. /\ IInv /\ TypeOK /\ EvTypes /\ Apart /\ Introduced /\ FirstNamed /\ RawBare /\ ArgHasBlock
  BY DEF EvInv, WrapInv, IInv, IntroInv
<1>1. /\ e.target = o /\ e.arg = a /\ e.new = new
      /\ pending' = Append(pending, e) /\ allocated' = allocated /\ event' = event /\ at' = at
  BY DEF Receive, dataVars
<1>2. \/ /\ new /\ a \notin Named /\ a \notin allocated
         /\ live' = live \cup {a} /\ raw' = raw \cup {a}
      \/ ~new /\ live' = live /\ raw' = raw
  BY DEF Receive, Unused
<1>3. /\ n \in Nat /\ Len(pending') = n + 1 /\ pending'[n + 1] = e
      /\ \A i \in 1..n : pending'[i] = pending[i]
      /\ \A i \in 1..(n + 1) : i = n + 1 \/ i \in 1..n
  BY <1>0, <1>1 DEF EvTypes
<1> HIDE DEF e, n
<1>4. /\ Undone' = Undone \cup {e}
      /\ \A i \in 1..n : /\ pending[i] \in Undone
                         /\ pending[i].arg \in Named /\ pending[i].target \in Named
  BY <1>1, <1>3 DEF Undone, Named, n
<1>5. ASSUME NEW t \in Named, Doomed(t) PROVE Still(t)
  BY <1>1, <1>2, <1>4, <1>5 DEF Doomed
<1>6. Introduced'
  <2> SUFFICES ASSUME NEW i \in 1..(n + 1),
                      ~pending'[i].new, pending'[i].arg \in live' \ allocated'
               PROVE  \/ Still(pending'[i].target)
                      \/ event'.new /\ event'.arg = pending'[i].arg
                      \/ \E j \in 1..(i - 1) : /\ pending'[j].new
                                               /\ pending'[j].arg = pending'[i].arg
                                               /\ pending'[j].target = pending'[i].target
    BY <1>3 DEF Introduced, Doomed
  <2>1. CASE i \in 1..n
    <3>1. pending'[i] = pending[i] /\ pending[i].arg \in live \ allocated
      BY <1>1, <1>2, <1>3, <1>4, <2>1
    <3>2. \/ Doomed(pending[i].target)
          \/ event.new /\ event.arg = pending[i].arg
          \/ \E j \in 1..(i - 1) : /\ pending[j].new /\ pending[j].arg = pending[i].arg
                                   /\ pending[j].target = pending[i].target
      BY <2>1, <3>1 DEF Introduced, IntroInv, n
    <3>3. \A j \in 1..(i - 1) : j \in 1..n /\ pending'[j] = pending[j]
      BY <1>3, <2>1
    <3> QED
      BY <1>1, <1>4, <1>5, <2>1, <3>1, <3>2, <3>3
  <2>2. CASE i = n + 1
    <3>1. ~new /\ a \in live \ allocated /\ pending'[i] = e
      BY <1>1, <1>2, <1>3, <2>2
    <3>2. a \in Announced(o)
      <4>1. a # None /\ a \notin theirs
        BY <1>0, <3>1, AddressAssumption DEF Receive, Confined, TypeOK
      <4> QED
        BY <3>1, <4>1 DEF Receive
    <3>3. PICK f \in Undone : f.new /\ f.arg = a /\ f.target = o
      BY <3>2 DEF Announced
    <3>4. CASE f = event
      BY <1>1, <3>1, <3>3, <3>4
    <3>5. CASE f # event
      <4>1. PICK j \in 1..n : f = pending[j]
        BY <3>5 DEF Undone, n
      <4>2. j \in 1..(i - 1) /\ pending'[j] = f
        BY <1>3, <2>2, <4>1
      <4> QED
        BY <1>1, <3>1, <3>3, <4>2
    <3> QED
      BY <3>4, <3>5
  <2> QED
    BY <1>3, <2>1, <2>2
<1>7. FirstNamed'
  <2> SUFFICES ASSUME NEW j \in 1..(n + 1), pending'[j].new, NEW i \in 1..(j - 1)
               PROVE  pending'[j].arg # pending'[i].target
    BY <1>3 DEF FirstNamed
  <2>1. i \in 1..n /\ pending'[i] = pending[i]
    BY <1>3
  <2>2. CASE j \in 1..n
    BY <1>0, <1>3, <2>1, <2>2 DEF FirstNamed, n
  <2>3. CASE j = n + 1
    <3>1. new /\ pending'[j].arg = a
      BY <1>1, <1>3, <2>3
    <3> QED
      BY <1>2, <1>4, <2>1, <3>1
  <2> QED
    BY <1>3, <2>2, <2>3
<1>8. RawBare' /\ ArgHasBlock'
  BY <1>0, <1>1, <1>2 DEF RawBare, AsYet, ArgHasBlock
<1> QED
  BY <1>6, <1>7, <1>8 DEF IntroInv

\* An event less: it is dropped, and what it would have introduced is not named to a
\* handler any more; or it is dispatched.
LEMMA IntroTake ==
    ASSUME Confined, EvInv, IntroInv, Take
    PROVE  IntroInv'
<1> DEFINE e == pending[1]
           n == Len(pending)
           Still(t) == t \in live' => t \in raw' /\ \A f \in Undone' : f.new => f.arg # t
<1>0. EvTypes /\ Apart /\ LocalsOK /\ Introduced /\ FirstNamed /\ RawBare
  BY DEF EvInv, IntroInv
<1>1. /\ at = "idle" /\ pending # <<>> /\ pending' = Tail(pending)
      /\ live' = live /\ allocated' = allocated /\ raw' = raw
  BY DEF Take, vars, wlVars, dataVars
<1>2. event = NoEvent /\ ~event.new
  BY <1>0, <1>1 DEF LocalsOK, NoEvent
<1>3. /\ n \in Nat \ {0} /\ Head(pending) = e /\ Len(pending') = n - 1
      /\ \A i \in 1..(n - 1) : i + 1 \in 1..n /\ pending'[i] = pending[i + 1]
  BY <1>0, <1>1 DEF EvTypes
<1>4. e \in Events /\ e \in Undone /\ e.target \in Named
  BY <1>0, <1>1, <1>3, Unqueueing DEF Named
<1> HIDE DEF e, n
<1>5. \/ /\ e.target \in live \ raw /\ at' = "args"
         /\ event'.new = e.new /\ event'.arg = IF e.arg \in live THEN e.arg ELSE None
      \/ e.target \notin live \ raw /\ event' = NoEvent /\ at' = "idle"
  <2>1. e.target \notin theirs
    BY <1>0, <1>4 DEF Apart
  <2>2. [e EXCEPT !.arg = IF @ \in live THEN @ ELSE None].new = e.new
        /\ [e EXCEPT !.arg = IF @ \in live THEN @ ELSE None].arg = IF e.arg \in live THEN e.arg ELSE None
    BY <1>4 DEF Events
  <2> QED
    BY <1>1, <1>2, <1>3, <2>1, <2>2 DEF Take
<1>6. /\ \A i \in 1..n : pending[i] \in Undone
      /\ \A f \in Undone' : f = event' \/ \E k \in 1..(n - 1) : f = pending[k + 1]
  BY <1>1, <1>3 DEF Undone, n
<1>7. ASSUME NEW t, Doomed(t) PROVE Still(t)
  <2> SUFFICES ASSUME t \in live
               PROVE  t \in raw /\ \A f \in Undone' : f.new => f.arg # t
    BY <1>1
  <2>1. t \in raw /\ \A g \in Undone : g.new => g.arg # t
    BY <1>7 DEF Doomed
  <2>2. event'.new => event'.arg # t
    <3>1. SUFFICES ASSUME event'.new PROVE event'.arg # t
      OBVIOUS
    <3>2. e.new /\ event'.arg \in {e.arg, None}
      <4>1. ~NoEvent.new
        BY DEF NoEvent
      <4> QED
        BY <1>5, <3>1, <4>1
    <3>3. None \notin live
      BY AddressAssumption DEF EvInv, WrapInv, IInv, TypeOK
    <3> QED
      BY <1>4, <2>1, <3>2, <3>3
  <2>3. \A k \in 1..(n - 1) : pending[k + 1].new => pending[k + 1].arg # t
    BY <1>3, <1>6, <2>1
  <2> QED
    BY <1>6, <2>1, <2>2, <2>3
<1>8. Introduced'
  <2> SUFFICES ASSUME NEW i \in 1..(n - 1),
                      ~pending'[i].new, pending'[i].arg \in live \ allocated
               PROVE  \/ Still(pending'[i].target)
                      \/ event'.new /\ event'.arg = pending'[i].arg
                      \/ \E j \in 1..(i - 1) : /\ pending'[j].new
                                               /\ pending'[j].arg = pending'[i].arg
                                               /\ pending'[j].target = pending'[i].target
    BY <1>1, <1>3 DEF Introduced, Doomed
  <2>1. i + 1 \in 1..n /\ pending'[i] = pending[i + 1]
    BY <1>3
  <2>2. CASE Doomed(pending'[i].target)
    BY <1>7, <2>2
  <2>3. CASE \E j \in 1..i : /\ pending[j].new /\ pending[j].arg = pending'[i].arg
                             /\ pending[j].target = pending'[i].target
    <3>1. PICK j \in 1..i : /\ pending[j].new /\ pending[j].arg = pending'[i].arg
                            /\ pending[j].target = pending'[i].target
      BY <2>3
    <3>2. CASE j = 1
      <4>1. e.new /\ e.arg = pending'[i].arg /\ e.target = pending'[i].target
        BY <3>1, <3>2 DEF e
      <4>2. CASE e.target \in live \ raw
        BY <1>5, <4>1, <4>2
      <4>3. CASE e.target \notin live \ raw
        <5>1. ASSUME NEW f \in Undone', f.new PROVE f.arg # e.target
          <6>1. event' = NoEvent /\ ~NoEvent.new
            BY <1>5, <4>3 DEF NoEvent
          <6>2. PICK k \in 1..(n - 1) : f = pending[k + 1]
            BY <1>6, <5>1, <6>1
          <6>3. k + 1 \in 1..n /\ 1 \in 1..k
            BY <1>3
          <6> QED
            BY <1>0, <5>1, <6>2, <6>3 DEF FirstNamed, e, n
        <5> QED
          BY <1>1, <4>1, <4>3, <5>1
      <4> QED
        BY <4>2, <4>3
    <3>3. CASE j # 1
      <4>1. j - 1 \in 1..(i - 1) /\ j - 1 \in 1..(n - 1) /\ (j - 1) + 1 = j
        BY <1>3, <3>3
      <4>2. pending'[j - 1] = pending[j]
        BY <1>3, <4>1
      <4> QED
        BY <3>1, <4>1, <4>2
    <3> QED
      BY <3>2, <3>3
  <2>4. (i + 1) - 1 = i
    BY <1>3
  <2>5. \/ Doomed(pending'[i].target)
        \/ \E j \in 1..i : /\ pending[j].new /\ pending[j].arg = pending'[i].arg
                           /\ pending[j].target = pending'[i].target
    BY <1>0, <1>2, <2>1, <2>4 DEF Introduced, n
  <2> QED
    BY <2>2, <2>3, <2>5
<1>9. FirstNamed'
  <2> SUFFICES ASSUME NEW j \in 1..(n - 1), pending'[j].new, NEW i \in 1..(j - 1)
               PROVE  pending'[j].arg # pending'[i].target
    BY <1>1, <1>3 DEF FirstNamed
  <2>1. /\ j + 1 \in 1..n /\ i + 1 \in 1..((j + 1) - 1)
        /\ pending'[j] = pending[j + 1] /\ pending'[i] = pending[i + 1]
    BY <1>3
  <2> QED
    BY <1>0, <2>1 DEF FirstNamed, n
<1>10. ArgHasBlock'
  <2> SUFFICES ASSUME at' = "args", ~event'.new, event'.arg # None, event'.arg \notin allocated
               PROVE  FALSE
    BY <1>1 DEF ArgHasBlock
  <2>1. e.target \in live \ raw /\ ~e.new /\ e.arg \in live \ allocated
    BY <1>5
  <2>2. 1 \in 1..n /\ ~Doomed(e.target)
    BY <1>3, <2>1 DEF Doomed
  <2> QED
    BY <1>0, <1>2, <2>1, <2>2 DEF Introduced, e, n
<1>11. RawBare'
  BY <1>0, <1>1, <1>5 DEF RawBare, AsYet
<1> QED
  BY <1>8, <1>9, <1>10, <1>11 DEF IntroInv

LEMMA IntroInductive ==
    ASSUME Confined, "unhandled" \notin Habits, EvInv, IntroInv, [EvNext]_evVars
    PROVE  IntroInv'
<1>1. CASE ClientStep \/ ReleaseStep
  BY <1>1, IntroBetween
<1>2. CASE Take
  BY <1>2, IntroTake
<1>3. CASE WrapArg \/ WrapTarget
  BY <1>3, IntroWraps
<1>4. CASE Call
  BY <1>4, IntroCalls
<1>5. CASE (\E h \in Handles : Keep(h)) \/ Return \/ LeaveTarget \/ LeaveArg \/ Done
           \/ UNCHANGED evVars
  BY <1>5, IntroAfter, LocalFacts
<1>6. CASE \E o \in Objects, a \in Objects \cup {None}, new \in BOOLEAN : Receive(o, a, new)
  BY <1>6, IntroReceive
<1>7. CASE \E o \in Objects : TheirCreate(o) \/ TheirDestroy(o)
  BY <1>7, IntroTheirs
<1> QED
  BY <1>1, <1>2, <1>3, <1>4, <1>5, <1>6, <1>7 DEF EvNext, Dispatch

\* The steps that are steps of Proxy.
LEMMA StepsOfProxy ==
    ASSUME Confined, EvInv, NEW h \in Handles,
           \/ ClientStep \/ ReleaseStep \/ Take \/ Keep(h) \/ Return
           \/ LeaveTarget \/ LeaveArg \/ Done \/ UNCHANGED evVars
    PROVE  /\ [Next]_vars /\ theirs' = theirs /\ raw' = raw \cap live'
           /\ at \notin {"target", "call"} \/ (at' = at /\ event' = event /\ UNCHANGED vars)
           /\ at' \notin {"target", "call"} \/ (at' = at /\ event' = event /\ UNCHANGED vars)
<1>0. IInv /\ Apart /\ NoReleases
  BY DEF EvInv, WrapInv
<1>1. CASE ClientStep
  <2>1. /\ at \in {"idle", "running"} /\ UNCHANGED eventVars
        /\ Client(ClientHandles) \/ \E q \in Queues : DropQueue(q)
    BY <1>1 DEF ClientStep, Confined
  <2>2. live \subseteq live'
    BY <1>0, <2>1, ClientObjects, LocalFacts
  <2>3. Next
    BY <2>1, LocalFacts DEF Client, Next
  <2> QED
    BY <1>0, <2>1, <2>2, <2>3 DEF eventVars, Apart
<1>2. CASE ReleaseStep
  <2>1. /\ (\E s \in Slots : Continue(s)) \/ (\E w \in Wrappers : Unwrap(w))
        /\ raw' = raw \cap live' /\ UNCHANGED <<at, theirs>>
    BY <1>2 DEF ReleaseStep
  <2>2. at \notin {"target", "call"}
    BY <1>0, <2>1, NothingToContinue DEF NoReleases
  <2> QED
    BY <2>1, <2>2 DEF Next
<1>3. CASE Keep(h) \/ LeaveTarget \/ LeaveArg
  <2>1. /\ \E g \in Handles : Copy(Arg, g) \/ Destruct(g)
        /\ at \in {"running", "leaving", "left"} /\ at' \in {"running", "leaving", "left"}
        /\ theirs' = theirs /\ raw' = raw
    BY <1>3, LocalFacts DEF Keep, LeaveTarget, LeaveArg, eventVars
  <2>2. Next /\ live' = live
    BY <2>1, LocalFacts DEF Next, Client, Copy, Destruct, wlVars
  <2> QED
    BY <1>0, <2>1, <2>2 DEF Apart
<1>4. CASE Take \/ Return \/ Done \/ UNCHANGED evVars
  <2>1. /\ UNCHANGED vars /\ theirs' = theirs /\ raw' = raw
        /\ \/ at \notin {"target", "call"} /\ at' \notin {"target", "call"}
           \/ at' = at /\ event' = event
    BY <1>4 DEF Take, Return, Done, evVars, eventVars
  <2> QED
    BY <1>0, <2>1 DEF Apart, vars, wlVars
<1> QED
  BY <1>1, <1>2, <1>3, <1>4

\* What the dispatcher's proxy_t(p) does to the blocks; a new one only for what has
\* been introduced.
LEMMA WrapBlocks ==
    ASSUME EvInv, (WrapArg /\ event.arg # None) \/ WrapTarget
    PROVE  \E p \in Objects :
               /\ p \in live /\ UNCHANGED <<wlVars, queueVars>> /\ UNCHANGED <<event, theirs, raw>>
               /\ \/ at = "args" /\ at' = "target" /\ p = event.arg
                  \/ at = "target" /\ at' = "call" /\ p \in allocated
               /\ IF p \in allocated
                  THEN UNCHANGED <<allocated, queue, has_destroy_opcode>>
                  ELSE NewData(p, None, FALSE) /\ p \in raw
<1>0. IInv /\ TypeOK /\ EvTypes /\ Apart /\ Known /\ LocalsOK
  BY DEF EvInv, WrapInv, IInv
<1>1. CASE WrapArg /\ event.arg # None
  <2>1. /\ event.arg \in Objects /\ Acquire(Arg, event.arg) /\ event.arg \in Named
        /\ at = "args" /\ at' = "target" /\ UNCHANGED <<event, theirs, raw>>
    BY <1>0, <1>1 DEF WrapArg, EvTypes, Events, NoEvent, Named, Undone
  <2>2. event.arg \in live
    BY <2>1 DEF Acquire
  <2>3. event.arg \notin allocated => event.arg \in raw
    BY <1>0, <2>1, <2>2 DEF Known, Apart
  <2> QED
    BY <2>1, <2>2, <2>3 DEF Acquire
<1>2. CASE WrapTarget
  <2>1. /\ Acquire(Target, event.target) /\ event.target \in live \cap allocated
        /\ at = "target" /\ at' = "call" /\ UNCHANGED <<event, theirs, raw>>
    BY <1>0, <1>2 DEF WrapTarget, LocalsOK
  <2>2. event.target \in Objects
    BY <1>0, <2>1, AddressAssumption DEF TypeOK, EvTypes, Events, NoEvent
  <2> QED
    BY <2>1, <2>2 DEF Acquire
<1> QED
  BY <1>1, <1>2
-----------------------------------------------------------------------------
(* Destroy requests of objects that events introduce *)

FlagInv == FlaggedBut(AsYet) /\ theirs \cap resource = {}

LEMMA FlagInductive ==
    ASSUME Confined, "unhandled" \notin Habits, EvInv, IntroInv, FlagInv, [EvNext]_evVars
    PROVE  FlagInv'
<1>0. IInv /\ TypeOK /\ Typed /\ Apart /\ ArgHasBlock /\ FlaggedBut(AsYet) /\ theirs \cap resource = {}
  BY DEF EvInv, WrapInv, IInv, IntroInv, FlagInv
<1>1. ASSUME NEW h \in Handles,
             \/ ClientStep \/ ReleaseStep \/ Take \/ Keep(h) \/ Return
             \/ LeaveTarget \/ LeaveArg \/ Done \/ UNCHANGED evVars
      PROVE  FlagInv'
  <2>1. /\ [Next]_vars /\ theirs' = theirs
        /\ \/ at \notin {"target", "call"} /\ at' \notin {"target", "call"}
           \/ at' = at /\ event' = event /\ UNCHANGED vars
    BY <1>1, StepsOfProxy
  <2>2. theirs' \cap resource' = {}
    BY <1>0, <2>1, BesideBlocks DEF Apart
  <2>3. CASE at \notin {"target", "call"} /\ at' \notin {"target", "call"}
    <3>1. AsYet = {} /\ AsYet' = {}
      BY <2>3 DEF AsYet
    <3>2. FlaggedBut({})'
      BY <1>0, <2>1, <3>1, FlaggedStep
    <3> QED
      BY <2>2, <3>1, <3>2 DEF FlagInv, FlaggedBut
  <2>4. CASE at' = at /\ event' = event /\ UNCHANGED vars
    BY <1>0, <2>2, <2>4 DEF FlagInv, FlaggedBut, AsYet, vars, wlVars, dataVars
  <2> QED
    BY <2>1, <2>3, <2>4
<1>2. CASE WrapArg /\ event.arg = None
  <2>1. at = "args" /\ UNCHANGED vars /\ theirs' = theirs
    BY <1>2 DEF WrapArg
  <2> QED
    BY <1>0, <2>1 DEF FlagInv, FlaggedBut, AsYet, vars, wlVars, dataVars
<1>3. CASE (WrapArg /\ event.arg # None) \/ WrapTarget
  <2>1. PICK p \in Objects :
            /\ UNCHANGED <<wlVars, queueVars>> /\ UNCHANGED <<event, theirs, raw>>
            /\ \/ at = "args" /\ at' = "target" /\ p = event.arg
               \/ at = "target" /\ at' = "call" /\ p \in allocated
            /\ IF p \in allocated
               THEN UNCHANGED <<allocated, queue, has_destroy_opcode>>
               ELSE NewData(p, None, FALSE)
    BY <1>3, WrapBlocks
  <2>2. AsYet \subseteq AsYet' /\ (p \notin allocated => p \in AsYet')
    BY <1>0, <2>1, LocalFacts DEF AsYet, ArgHasBlock
  <2>3. allocated' \subseteq allocated \cup {p} /\ has_destroy_opcode \subseteq has_destroy_opcode' \cup AsYet'
    BY <2>1, <2>2 DEF NewData
  <2>4. p \in allocated => allocated' = allocated
    BY <2>1
  <2>5. live' = live /\ resource' = resource /\ theirs' = theirs
    BY <2>1 DEF wlVars
  <2> QED
    BY <1>0, <2>2, <2>3, <2>4, <2>5 DEF FlagInv, FlaggedBut
<1>4. CASE Call
  <2>1. /\ live' = live /\ resource' = resource /\ allocated' = allocated /\ theirs' = theirs
        /\ \/ has_destroy_opcode' = has_destroy_opcode \cup ({event.arg} \cap Destroyable)
           \/ has_destroy_opcode' = has_destroy_opcode /\ ~event.new
    BY <1>4 DEF Call, wlVars
  <2>2. AsYet \subseteq {event.arg} /\ (~event.new => AsYet = {})
    BY DEF AsYet
  <2> QED
    BY <1>0, <2>1, <2>2 DEF FlagInv, FlaggedBut
<1>5. ASSUME NEW o \in Objects, NEW a \in Objects \cup {None}, NEW new \in BOOLEAN, Receive(o, a, new)
      PROVE  FlagInv'
  <2>1. UNCHANGED <<allocated, has_destroy_opcode, event, at, theirs>>
    BY <1>5 DEF Receive, dataVars
  <2>2. \/ live' = live /\ resource' = resource
        \/ /\ a \notin theirs /\ a \notin allocated /\ live' = live \cup {a}
           /\ resource' = IF a \in Destroyable THEN resource \cup {a} ELSE resource
    BY <1>5 DEF Receive, Unused
  <2> QED
    BY <1>0, <2>1, <2>2 DEF FlagInv, FlaggedBut, AsYet
<1>6. ASSUME NEW o \in Objects, TheirCreate(o) \/ TheirDestroy(o) PROVE FlagInv'
  <2>1. UNCHANGED <<allocated, has_destroy_opcode, resource, event, at>>
    BY <1>6 DEF TheirCreate, TheirDestroy, dataVars
  <2>2. \/ o \notin live /\ live' = live \cup {o} /\ theirs' = theirs \cup {o}
        \/ o \in theirs /\ live' = live \ {o} /\ theirs' = theirs \ {o}
    BY <1>6 DEF TheirCreate, TheirDestroy, Unused
  <2> QED
    BY <1>0, <2>1, <2>2 DEF FlagInv, FlaggedBut, AsYet
<1> QED
  BY <1>1, <1>2, <1>3, <1>4, <1>5, <1>6, LocalFacts DEF EvNext, Dispatch

\* The wl_proxy of an object with a destroy request never goes without that request,
\* objects that events introduce included, if every event with a new object has a
\* handler: the typed constructor that the generated dispatcher calls for it comes
\* before anything can release the object.
THEOREM EventsLeakNothing ==
    ASSUME Confined, "unhandled" \notin Habits
    PROVE  EvSpec => []NoCompositorLeak
<1>1. EvInit => EvInv /\ IntroInv /\ FlagInv
  <2> SUFFICES ASSUME EvInit PROVE IntroInv /\ FlagInv
    BY EvInitial
  <2>1. /\ Init /\ pending = <<>> /\ at = "idle" /\ theirs = {} /\ raw = {}
        /\ live = {} /\ resource = {} /\ allocated = {}
    BY DEF EvInit, Init
  <2>2. IntroInv
    BY <2>1 DEF IntroInv, Introduced, FirstNamed, RawBare, ArgHasBlock
  <2>3. FlagInv
    BY <2>1 DEF FlagInv, FlaggedBut
  <2> QED
    BY <2>2, <2>3
<1>2. EvInv /\ IntroInv /\ FlagInv /\ [EvNext]_evVars => EvInv' /\ IntroInv' /\ FlagInv'
  BY EvInductive, IntroInductive, FlagInductive
<1>3. FlagInv => NoCompositorLeak
  BY DEF FlagInv, FlaggedBut, NoCompositorLeak
<1> QED
  BY <1>1, <1>2, <1>3, PTL DEF EvSpec
-----------------------------------------------------------------------------
(* The queues of objects that events introduce *)

\* An object that an event has introduced is on the default queue, which a new block
\* has.
QueuesInv == Queued /\ \A o \in raw \ allocated : wlQueue[o] = None

LEMMA QueuesInductive ==
    ASSUME Confined, "queued_factory" \notin Habits, EvInv, QueuesInv, [EvNext]_evVars
    PROVE  QueuesInv'
<1>0. /\ WrapInv /\ IInv /\ Gone /\ TypeOK /\ Apart /\ Queued
      /\ QueueInv /\ \A o \in raw \ allocated : wlQueue[o] = None
  BY DEF EvInv, WrapInv, IInv, QueuesInv, QueueInv
<1>1. ASSUME NEW h \in Handles,
             \/ ClientStep \/ ReleaseStep \/ Take \/ Keep(h) \/ Return
             \/ LeaveTarget \/ LeaveArg \/ Done \/ UNCHANGED evVars
      PROVE  QueuesInv'
  <2>1. [Next]_vars /\ raw' = raw \cap live'
    BY <1>1, StepsOfProxy
  <2>2. \A o \in allocated : o \in raw' => o \in allocated'
    <3>1. CASE ReleaseStep
      BY <1>0, <2>1, <3>1, ReleasedObjects DEF ReleaseStep
    <3>2. CASE ClientStep
      BY <1>0, <3>2, ClientObjects, LocalFacts DEF ClientStep
    <3>3. CASE Take \/ Keep(h) \/ Return \/ LeaveTarget \/ LeaveArg \/ Done \/ UNCHANGED evVars
      BY <3>3 DEF Take, Keep, Copy, Return, LeaveTarget, LeaveArg, Destruct, Done, evVars, vars, dataVars
    <3> QED
      BY <1>1, <3>1, <3>2, <3>3
  <2> QED
    BY <1>0, <2>1, <2>2, QueuedStep, BesideBlocks DEF QueuesInv, Apart
<1>2. CASE WrapArg /\ event.arg = None
  BY <1>0, <1>2 DEF WrapArg, QueuesInv, Queued, vars, wlVars, dataVars, queueVars
<1>3. CASE (WrapArg /\ event.arg # None) \/ WrapTarget
  <2>1. PICK p \in Objects :
            /\ p \in live /\ UNCHANGED <<wlVars, queueVars>> /\ UNCHANGED <<event, theirs, raw>>
            /\ IF p \in allocated
               THEN UNCHANGED <<allocated, queue, has_destroy_opcode>>
               ELSE NewData(p, None, FALSE) /\ p \in raw
    BY <1>3, WrapBlocks
  <2>2. CASE p \in allocated
    BY <1>0, <2>1, <2>2 DEF QueuesInv, Queued, wlVars, queueVars
  <2>3. CASE p \notin allocated
    <3>1. /\ allocated' = allocated \cup {p} /\ queue'[p] = None /\ wlQueue[p] = None
          /\ \A r \in Proxies \ {p} : queue'[r] = queue[r]
      BY <1>0, <2>1, <2>3, LocalFacts DEF NewData, TypeOK
    <3>2. UNCHANGED <<live, wlQueue, foreign, queues, raw>> /\ allocated \subseteq Proxies
      BY <1>0, <2>1 DEF wlVars, queueVars, TypeOK
    <3> QED
      BY <1>0, <3>1, <3>2 DEF QueuesInv, Queued
  <2> QED
    BY <2>2, <2>3
<1>4. CASE Call
  BY <1>0, <1>4 DEF Call, QueuesInv, Queued, wlVars, queueVars
<1>5. ASSUME NEW o \in Objects, NEW a \in Objects \cup {None}, NEW new \in BOOLEAN, Receive(o, a, new)
      PROVE  QueuesInv'
  <2>1. UNCHANGED <<allocated, queue, foreign, queues>>
    BY <1>5 DEF Receive, dataVars, queueVars
  <2>2. \/ live' = live /\ wlQueue' = wlQueue /\ raw' = raw
        \/ /\ a \in Objects /\ a \notin allocated
           /\ live' = live \cup {a} /\ raw' = raw \cup {a}
           /\ wlQueue' = [wlQueue EXCEPT ![a] = None]
    BY <1>5 DEF Receive, Unused
  <2>3. Display \in Proxies \ Objects /\ allocated \subseteq Proxies /\ raw \subseteq Proxies
    BY <1>0, LocalFacts DEF EvInv, EvTypes, TypeOK, Proxies
  <2>4. CASE live' = live /\ wlQueue' = wlQueue /\ raw' = raw
    BY <1>0, <2>1, <2>4 DEF QueuesInv, Queued
  <2>5. CASE /\ a \in Objects /\ a \notin allocated
             /\ live' = live \cup {a} /\ raw' = raw \cup {a}
             /\ wlQueue' = [wlQueue EXCEPT ![a] = None]
    <3>1. /\ a \in Proxies => wlQueue'[a] = None
          /\ \A r \in Proxies \ {a} : wlQueue'[r] = wlQueue[r]
      BY <1>0, <2>5 DEF TypeOK
    <3>2. Queued'
      BY <1>0, <2>1, <2>3, <2>5, <3>1 DEF Queued
    <3>3. \A r \in raw' \ allocated' : wlQueue'[r] = None
      BY <1>0, <2>1, <2>3, <2>5, <3>1, LocalFacts
    <3> QED
      BY <3>2, <3>3 DEF QueuesInv
  <2> QED
    BY <2>2, <2>4, <2>5
<1>6. ASSUME NEW o \in Objects, TheirCreate(o) \/ TheirDestroy(o) PROVE QueuesInv'
  <2>1. UNCHANGED <<allocated, queue, foreign, queues, raw>>
    BY <1>6 DEF TheirCreate, TheirDestroy, dataVars, queueVars
  <2>2. /\ \A r \in Proxies : wlQueue'[r] = wlQueue[r] \/ wlQueue'[r] = None
        /\ \A r \in Proxies \ {o} : wlQueue'[r] = wlQueue[r]
        /\ o \notin allocated /\ live' \ {o} = live \ {o}
    BY <1>0, <1>6 DEF TheirCreate, TheirDestroy, Unused, Apart, TypeOK
  <2>3. Display \in Proxies /\ allocated \subseteq Proxies /\ raw \subseteq Proxies
    BY <1>0, LocalFacts DEF EvInv, EvTypes, TypeOK, Proxies
  <2> QED
    BY <1>0, <2>1, <2>2, <2>3 DEF QueuesInv, Queued
<1> QED
  BY <1>1, <1>2, <1>3, <1>4, <1>5, <1>6, LocalFacts DEF EvNext, Dispatch

\* The queue that libwayland puts a wl_proxy's events in exists as long as the wl_proxy
\* and its block do, with events that introduce objects too, unless the object that
\* introduces them is on a queue of the client's: MCProxyEventsQueue shows what happens
\* then.
THEOREM EventQueuesRetained ==
    ASSUME Confined, "queued_factory" \notin Habits
    PROVE  EvSpec => []QueueRetained
<1>1. EvInit => EvInv /\ QueuesInv
  <2> SUFFICES ASSUME EvInit PROVE QueuesInv
    BY EvInitial
  <2> QED
    BY DEF EvInit, Init, QueuesInv, Queued
<1>2. EvInv /\ QueuesInv /\ [EvNext]_evVars => EvInv' /\ QueuesInv'
  BY EvInductive, QueuesInductive
<1>3. QueuesInv => QueueRetained
  BY DEF QueuesInv, Queued, QueueRetained
<1> QED
  BY <1>1, <1>2, <1>3, PTL DEF EvSpec
=============================================================================
