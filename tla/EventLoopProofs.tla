-------------------------- MODULE EventLoopProofs --------------------------
(***************************************************************************)
(* Proofs about EventLoop, for any number of loops, handles and sources:   *)
(* the counters are right, each source is removed once, and a program that *)
(* has none of the Habits never uses what was freed.                       *)
(***************************************************************************)
EXTENDS EventLoop, FiniteSetTheorems, TLAPS

-----------------------------------------------------------------------------
(* Types *)

LEMMA TypeOfLoops == ASSUME LoopTypeOK PROVE LoopStep => LoopTypeOK'
<1> SUFFICES ASSUME LoopStep PROVE LoopTypeOK'
  OBVIOUS
<1> USE NamesAssumption DEF loopVars, handleVars, sourceVars, dispatchVars, otherVars, AllLoops
<1>1. ASSUME NEW h \in Handles, NEW l \in Loops, CreateLoop(h, l) PROVE LoopTypeOK'
  BY <1>1 DEF CreateLoop, init, Unused, LoopTypeOK
<1>2. ASSUME NEW h \in Handles, GetEventLoop(h) PROVE LoopTypeOK'
  BY <1>2 DEF GetEventLoop, init, managed, found, Unused, LoopTypeOK
<1>3. ASSUME NEW h \in Handles, DropLoop(h) PROVE LoopTypeOK'
  <2>1. CASE h \in moved
    <3>1. faults' \subseteq {"block", "source"}
      <4>1. faults' = faults \cup {"block"} /\ faults \subseteq {"block", "source"}
        BY <1>3, <2>1 DEF DropLoop, LoopTypeOK
      <4> QED
        BY <4>1
    <3>2. /\ moved' = moved \ {h} /\ loop' = loop
          /\ UNCHANGED <<display, state, block, counter, do_delete, functions, source, added, of,
                         removals, ready, current, phase, batch, running, closing>>
      BY <1>3, <2>1 DEF DropLoop
    <3> QED
      BY <3>1, <3>2 DEF LoopTypeOK
  <2>2. CASE h \notin moved
    <3>1. closing' \in AllLoops \cup {None}
      BY <1>3, <2>2 DEF DropLoop, fini, LoopTypeOK
    <3>2. /\ loop' = [loop EXCEPT ![h] = None] /\ moved' = moved
          /\ counter' = [counter EXCEPT ![loop[h]] = @ - 1]
          /\ UNCHANGED <<display, state, block, do_delete, functions, source, added, of,
                         removals, ready, current, phase, batch, running, faults>>
      BY <1>3, <2>2 DEF DropLoop
    <3>3. loop[h] \in AllLoops /\ counter' \in [AllLoops -> Int]
      BY <1>3, <2>2, <3>2 DEF DropLoop, LoopTypeOK
    <3>4. loop' \in [Handles -> AllLoops \cup {None}] /\ moved' \subseteq {x \in Handles : loop'[x] = None}
      BY <3>2 DEF LoopTypeOK
    <3> QED
      BY <3>1, <3>2, <3>3, <3>4 DEF LoopTypeOK
  <2> QED
    BY <2>1, <2>2
<1>4. ASSUME NEW h \in Handles, NEW from \in Handles, CopyLoop(h, from) PROVE LoopTypeOK'
  BY <1>4 DEF CopyLoop, Unused, LoopTypeOK
<1>5. ASSUME NEW h \in Handles, NEW from \in Handles, AssignLoop(h, from) PROVE LoopTypeOK'
  BY <1>5 DEF AssignLoop, fini, LoopTypeOK
<1>6. ASSUME NEW h \in Handles, NEW from \in Handles, MoveLoop(h, from) PROVE LoopTypeOK'
  BY <1>6 DEF MoveLoop, Unused, LoopTypeOK
<1>7. ASSUME NEW h \in Handles, NEW from \in Handles, SwapLoops(h, from) PROVE LoopTypeOK'
  BY <1>7 DEF SwapLoops, Unused, LoopTypeOK
<1>8. ASSUME CreateDisplay \/ DestroyDisplay PROVE LoopTypeOK'
  <2>1. CASE CreateDisplay
    BY <2>1 DEF CreateDisplay, LoopTypeOK
  <2>2. CASE DestroyDisplay
    BY <2>2 DEF DestroyDisplay, LoopTypeOK
  <2> QED
    BY <1>8, <2>1, <2>2
<1> QED
  BY <1>1, <1>2, <1>3, <1>4, <1>5, <1>6, <1>7, <1>8 DEF LoopStep

LEMMA TypeOfSources == ASSUME LoopTypeOK PROVE SourceStep => LoopTypeOK'
<1> SUFFICES ASSUME SourceStep PROVE LoopTypeOK'
  OBVIOUS
<1> USE DEF loopVars, handleVars, sourceVars, dispatchVars, otherVars
<1>1. ASSUME NEW h \in Handles, NEW v \in SourceHandles, NEW s \in Sources, AddSource(h, v, s)
      PROVE  LoopTypeOK'
  BY <1>1 DEF AddSource, push_back, LoopTypeOK
<1>2. ASSUME NEW v \in SourceHandles, NEW from \in SourceHandles, CopySource(v, from)
      PROVE  LoopTypeOK'
  BY <1>2 DEF CopySource, LoopTypeOK
<1>3. ASSUME NEW v \in SourceHandles, DropSource(v) PROVE LoopTypeOK'
  <2>1. CASE source[v] = Null
    <3>1. faults' \subseteq {"block", "source"}
      BY <1>3, <2>1 DEF DropSource, LoopTypeOK
    <3>2. source' \in [SourceHandles -> Sources \cup {None, Null}]
      BY <1>3 DEF DropSource, LoopTypeOK
    <3>3. UNCHANGED <<display, state, block, counter, do_delete, functions, loop, moved, added, of,
                      removals, ready, current, phase, batch, running, closing>>
      BY <1>3, <2>1 DEF DropSource
    <3> QED
      BY <3>1, <3>2, <3>3 DEF LoopTypeOK
  <2>2. CASE source[v] # Null
    <3>1. source[v] \in Sources
      BY <1>3, <2>2 DEF DropSource, Free, LoopTypeOK
    <3>2. /\ removals' \in [Sources -> Nat] /\ functions' = functions
          /\ added' \in [Sources -> {"none", "active", "removed", "freed"}]
      BY <1>3, <2>2, <3>1 DEF DropSource, deleter, wl_event_source_remove, LoopTypeOK
    <3>3. source' \in [SourceHandles -> Sources \cup {None, Null}]
      BY <1>3 DEF DropSource, LoopTypeOK
    <3>4. UNCHANGED <<display, state, block, counter, do_delete, loop, moved, of,
                      ready, current, phase, batch, running, closing, faults>>
      BY <1>3, <2>2 DEF DropSource
    <3> QED
      BY <3>2, <3>3, <3>4 DEF LoopTypeOK
  <2> QED
    BY <2>1, <2>2
<1> QED
  BY <1>1, <1>2, <1>3 DEF SourceStep

LEMMA TypeOfLibrary ==
    ASSUME LoopTypeOK,
           LibraryStep \/ (\E l \in AllLoops : Dispatch(l)) \/ (\E s \in Sources : Arrives(s))
    PROVE  LoopTypeOK'
<1> USE DEF loopVars, handleVars, sourceVars, dispatchVars, otherVars
<1>1. ASSUME DestroyLoop PROVE LoopTypeOK'
  BY <1>1 DEF DestroyLoop, destroy_func, LoopTypeOK
<1>2. ASSUME Poll PROVE LoopTypeOK'
  BY <1>2 DEF Poll, Active, SourcesOf, LoopTypeOK
<1>3. ASSUME ProcessDestroyList PROVE LoopTypeOK'
  BY <1>3 DEF ProcessDestroyList, LoopTypeOK
<1>4. ASSUME DispatchReturns PROVE LoopTypeOK'
  BY <1>4 DEF DispatchReturns, LoopTypeOK
<1>5. ASSUME HandlerReturns PROVE LoopTypeOK'
  BY <1>5 DEF HandlerReturns, wl_event_source_remove, LoopTypeOK
<1>6. ASSUME NEW s \in Sources, RunIdle(s) \/ RunReady(s) \/ Arrives(s) PROVE LoopTypeOK'
  BY ZenonT(30), <1>6 DEF RunIdle, RunReady, Arrives, LoopTypeOK
<1>7. ASSUME NEW l \in AllLoops, Dispatch(l) PROVE LoopTypeOK'
  BY <1>7 DEF Dispatch, LoopTypeOK
<1> QED
  BY <1>1, <1>2, <1>3, <1>4, <1>5, <1>6, <1>7 DEF LibraryStep

LEMMA TypeInductive == LoopTypeOK /\ [Next]_vars => LoopTypeOK'
<1> SUFFICES ASSUME LoopTypeOK, [Next]_vars PROVE LoopTypeOK'
  OBVIOUS
<1>1. CASE UNCHANGED vars
  BY <1>1 DEF vars, loopVars, handleVars, sourceVars, dispatchVars, LoopTypeOK
<1>2. CASE Next
  BY <1>2, TypeOfLoops, TypeOfSources, TypeOfLibrary DEF Next
<1> QED
  BY <1>1, <1>2

\* Every variable of the program, of the blocks and of libwayland's loops keeps
\* its type, with all habits; a handle that was moved from refers to nothing.
THEOREM LoopTypeCorrect == Spec => []LoopTypeOK
<1>1. Init => LoopTypeOK
  BY DEF Init, LoopTypeOK
<1> QED
  BY <1>1, TypeInductive, PTL DEF Spec
-----------------------------------------------------------------------------
(* Counters *)

\* A loop has a block, or had one, as soon as it has handles, and no loop has
\* one before it is there.
BlocksMade ==
    /\ \A h \in Handles : loop[h] # None => block[loop[h]] # "none"
    /\ \A l \in Loops : state[l] = "none" => block[l] = "none"

CountInv == LoopTypeOK /\ LoopCounted /\ BlocksMade

LEMMA HandlesFinite ==
    ASSUME NEW l PROVE IsFiniteSet(HandlesOf(l)) /\ Cardinality(HandlesOf(l)) \in Nat
BY FiniteAssumption, FS_Subset, FS_CardinalityType DEF HandlesOf

\* How a counter follows the handles: one more,
LEMMA OneMore ==
    ASSUME NEW l, NEW h \in Handles, loop[h] # l, HandlesOf(l)' = HandlesOf(l) \cup {h}
    PROVE  Cardinality(HandlesOf(l)') = Cardinality(HandlesOf(l)) + 1
<1>1. h \notin HandlesOf(l)
  BY DEF HandlesOf
<1> QED
  BY <1>1, HandlesFinite, FS_AddElement

\* one less,
LEMMA OneLess ==
    ASSUME NEW l, NEW h \in Handles, loop[h] = l, HandlesOf(l)' = HandlesOf(l) \ {h}
    PROVE  Cardinality(HandlesOf(l)') = Cardinality(HandlesOf(l)) - 1
<1>1. h \in HandlesOf(l)
  BY DEF HandlesOf
<1> QED
  BY <1>1, HandlesFinite, FS_RemoveElement

\* or another one.
LEMMA Another ==
    ASSUME NEW l, NEW h \in Handles, NEW g \in Handles, loop[h] = l, loop[g] # l,
           HandlesOf(l)' = (HandlesOf(l) \ {h}) \cup {g}
    PROVE  Cardinality(HandlesOf(l)') = Cardinality(HandlesOf(l))
<1>1. h \in HandlesOf(l) /\ g \notin HandlesOf(l) \ {h}
  BY DEF HandlesOf
<1>2. IsFiniteSet(HandlesOf(l) \ {h})
      /\ Cardinality(HandlesOf(l) \ {h}) = Cardinality(HandlesOf(l)) - 1
  BY <1>1, HandlesFinite, FS_RemoveElement
<1>3. Cardinality(HandlesOf(l)') = Cardinality(HandlesOf(l) \ {h}) + 1
  BY <1>2, <1>1, FS_AddElement
<1> QED
  BY <1>2, <1>3, HandlesFinite

\* Steps that leave handles and counters alone, and make no block.
LEMMA CountFrame ==
    ASSUME CountInv, loop' = loop, counter' = counter,
           \A l \in AllLoops : /\ block'[l] = "alive" => block[l] = "alive"
                               /\ block'[l] = "none" <=> block[l] = "none",
           \A l \in Loops : state'[l] = "none" => state[l] = "none"
    PROVE  LoopCounted' /\ BlocksMade'
<1>1. \A l : HandlesOf(l)' = HandlesOf(l)
  BY DEF HandlesOf
<1> QED
  BY <1>1 DEF CountInv, LoopTypeOK, LoopCounted, BlocksMade, AllLoops

LEMMA CountOfNew ==
    ASSUME CountInv, NEW h \in Handles, NEW l \in AllLoops, loop[h] = None,
           block[l] = "none", loop' = [loop EXCEPT ![h] = l],
           block' = [block EXCEPT ![l] = "alive"], counter' = [counter EXCEPT ![l] = 1]
    PROVE  LoopCounted' /\ \A g \in Handles : loop'[g] # None => block'[loop'[g]] # "none"
<1>1. HandlesOf(l) = {}
  BY NamesAssumption DEF CountInv, BlocksMade, HandlesOf, AllLoops
<1>2. HandlesOf(l)' = {h}
  BY <1>1 DEF HandlesOf, CountInv, LoopTypeOK
<1>3. Cardinality(HandlesOf(l)') = 1
  BY <1>2, FS_Singleton
<1>4. \A k \in AllLoops \ {l} : HandlesOf(k)' = HandlesOf(k)
  BY NamesAssumption DEF HandlesOf, CountInv, LoopTypeOK, AllLoops
<1> QED
  BY <1>3, <1>4 DEF CountInv, LoopCounted, LoopTypeOK, BlocksMade

LEMMA CountOfCopy ==
    ASSUME CountInv, NEW h \in Handles, NEW l \in AllLoops, loop[h] = None,
           block[l] # "none", loop' = [loop EXCEPT ![h] = l], block' = block, state' = state,
           counter' = [counter EXCEPT ![l] = @ + 1]
    PROVE  LoopCounted' /\ BlocksMade'
<1>1. l # None
  BY NamesAssumption DEF AllLoops
<1>2. HandlesOf(l)' = HandlesOf(l) \cup {h}
  BY DEF HandlesOf, CountInv, LoopTypeOK
<1>3. Cardinality(HandlesOf(l)') = Cardinality(HandlesOf(l)) + 1
  BY <1>1, <1>2, OneMore
<1>4. \A k \in AllLoops \ {l} : HandlesOf(k)' = HandlesOf(k)
  BY NamesAssumption DEF HandlesOf, CountInv, LoopTypeOK, AllLoops
<1>5. block[l] = "alive" => counter'[l] = Cardinality(HandlesOf(l)')
  BY <1>3 DEF CountInv, LoopCounted, LoopTypeOK
<1>6. \A k \in AllLoops \ {l} : counter'[k] = counter[k]
  BY DEF CountInv, LoopTypeOK
<1>7. LoopCounted'
  BY <1>4, <1>5, <1>6 DEF CountInv, LoopCounted
<1> QED
  BY <1>7 DEF CountInv, LoopTypeOK, BlocksMade

LEMMA CountOfDrop ==
    ASSUME CountInv, NEW h \in Handles, NEW l \in AllLoops, loop[h] = l,
           loop' = [loop EXCEPT ![h] = None], block' = block, state' = state,
           counter' = [counter EXCEPT ![l] = @ - 1]
    PROVE  LoopCounted' /\ BlocksMade'
<1>1. l # None
  BY NamesAssumption DEF AllLoops
<1>2. HandlesOf(l)' = HandlesOf(l) \ {h}
  BY <1>1 DEF HandlesOf, CountInv, LoopTypeOK
<1>3. Cardinality(HandlesOf(l)') = Cardinality(HandlesOf(l)) - 1
  BY <1>2, OneLess
<1>4. \A k \in AllLoops \ {l} : HandlesOf(k)' = HandlesOf(k) /\ counter'[k] = counter[k]
  BY NamesAssumption DEF HandlesOf, CountInv, LoopTypeOK, AllLoops
<1>5. block[l] = "alive" => counter'[l] = Cardinality(HandlesOf(l)')
  BY <1>3 DEF CountInv, LoopCounted, LoopTypeOK
<1>6. LoopCounted'
  BY <1>4, <1>5 DEF CountInv, LoopCounted
<1> QED
  BY <1>6 DEF CountInv, LoopTypeOK, BlocksMade

\* Two handles exchange what they refer to; None is nothing.
LEMMA CountOfSwap ==
    ASSUME CountInv, NEW h \in Handles, NEW g \in Handles, h # g,
           loop' = [loop EXCEPT ![h] = loop[g], ![g] = loop[h]],
           block' = block, state' = state, counter' = counter
    PROVE  LoopCounted' /\ BlocksMade'
<1>1. ASSUME NEW l \in AllLoops PROVE Cardinality(HandlesOf(l)') = Cardinality(HandlesOf(l))
  <2>1. CASE loop[h] = l /\ loop[g] # l
    <3>1. HandlesOf(l)' = (HandlesOf(l) \ {h}) \cup {g}
      BY <2>1 DEF HandlesOf, CountInv, LoopTypeOK
    <3> QED
      BY <2>1, <3>1, Another
  <2>2. CASE loop[h] # l /\ loop[g] = l
    <3>1. HandlesOf(l)' = (HandlesOf(l) \ {g}) \cup {h}
      BY <2>2 DEF HandlesOf, CountInv, LoopTypeOK
    <3> QED
      BY <2>2, <3>1, Another
  <2>3. CASE (loop[h] = l) = (loop[g] = l)
    <3>1. HandlesOf(l)' = HandlesOf(l)
      BY <2>3 DEF HandlesOf, CountInv, LoopTypeOK
    <3> QED
      BY <3>1
  <2> QED
    BY <2>1, <2>2, <2>3
<1>2. LoopCounted'
  BY <1>1 DEF CountInv, LoopCounted
<1> QED
  BY <1>2 DEF CountInv, LoopTypeOK, BlocksMade

LEMMA CountOfAssign ==
    ASSUME CountInv, NEW h \in Handles, NEW from \in Handles, AssignLoop(h, from)
    PROVE  LoopCounted' /\ BlocksMade'
<1>1. loop[h] \in AllLoops /\ loop[from] \in AllLoops
  BY DEF AssignLoop, CountInv, LoopTypeOK
<1>2. CASE loop[h] = loop[from]
  <2>1. loop' = loop /\ counter' = counter /\ block' = block /\ state' = state
    BY <1>1, <1>2 DEF AssignLoop, CountInv, LoopTypeOK
  <2> QED
    BY <2>1, CountFrame
<1>3. CASE loop[h] # loop[from]
  <2> SUFFICES ASSUME NEW l \in AllLoops, loop[h] = l, NEW k \in AllLoops, loop[from] = k
               PROVE  LoopCounted' /\ BlocksMade'
    BY <1>1
  <2>1. HandlesOf(l)' = HandlesOf(l) \ {h} /\ HandlesOf(k)' = HandlesOf(k) \cup {h}
    BY <1>3 DEF AssignLoop, HandlesOf, CountInv, LoopTypeOK
  <2>2. /\ Cardinality(HandlesOf(l)') = Cardinality(HandlesOf(l)) - 1
        /\ Cardinality(HandlesOf(k)') = Cardinality(HandlesOf(k)) + 1
    BY <1>3, <2>1, OneLess, OneMore
  <2>3. /\ counter'[l] = counter[l] - 1 /\ counter'[k] = counter[k] + 1
        /\ \A m \in AllLoops \ {l, k} : counter'[m] = counter[m]
    BY <1>1, <1>3 DEF AssignLoop, CountInv, LoopTypeOK
  <2>4. \A m \in AllLoops \ {l, k} : HandlesOf(m)' = HandlesOf(m)
    BY <1>1 DEF AssignLoop, HandlesOf, CountInv, LoopTypeOK
  <2>5. block' = block /\ state' = state
    BY DEF AssignLoop
  <2>6. LoopCounted'
    BY <1>1, <2>2, <2>3, <2>4, <2>5 DEF CountInv, LoopCounted
  <2> QED
    BY <2>5, <2>6 DEF AssignLoop, CountInv, LoopTypeOK, BlocksMade
<1> QED
  BY <1>2, <1>3

LEMMA CountInductive == CountInv /\ [Next]_vars => CountInv'
<1> SUFFICES ASSUME CountInv, [Next]_vars PROVE LoopCounted' /\ BlocksMade'
  BY TypeInductive DEF CountInv
<1> USE DEF loopVars, handleVars, sourceVars, dispatchVars, otherVars
<1>1. CASE UNCHANGED vars
  BY <1>1, CountFrame DEF vars
<1>2. CASE LoopStep
  <2>1. ASSUME NEW h \in Handles, NEW l \in Loops, CreateLoop(h, l)
        PROVE  LoopCounted' /\ BlocksMade'
    <3>1. block[l] = "none" /\ loop[h] = None /\ l \in AllLoops
      BY <2>1 DEF CreateLoop, Unused, CountInv, BlocksMade, AllLoops
    <3>2. LoopCounted' /\ \A g \in Handles : loop'[g] # None => block'[loop'[g]] # "none"
      BY <2>1, <3>1, CountOfNew DEF CreateLoop, init
    <3> QED
      BY <2>1, <3>2 DEF CreateLoop, init, CountInv, LoopTypeOK, BlocksMade, AllLoops
  <2>2. ASSUME NEW h \in Handles, GetEventLoop(h) PROVE LoopCounted' /\ BlocksMade'
    <3>1. Default \in AllLoops /\ Default \notin Loops /\ loop[h] = None
      BY <2>2, NamesAssumption DEF AllLoops, GetEventLoop, Unused
    <3>2. CASE block[Default] = "none"
      <4>1. LoopCounted' /\ \A g \in Handles : loop'[g] # None => block'[loop'[g]] # "none"
        BY <2>2, <3>1, <3>2, CountOfNew DEF GetEventLoop, init
      <4> QED
        BY <2>2, <3>1, <3>2, <4>1 DEF GetEventLoop, init, CountInv, LoopTypeOK, BlocksMade, AllLoops
    <3>3. CASE block[Default] # "none"
      BY <2>2, <3>1, <3>3, CountOfCopy DEF GetEventLoop, found
    <3> QED
      BY <3>2, <3>3
  <2>3. ASSUME NEW h \in Handles, DropLoop(h) PROVE LoopCounted' /\ BlocksMade'
    <3>1. CASE h \in moved
      BY <2>3, <3>1, CountFrame DEF DropLoop
    <3>2. CASE h \notin moved
      <4>1. loop[h] \in AllLoops
        BY <2>3, <3>2 DEF DropLoop, CountInv, LoopTypeOK
      <4> QED
        BY <2>3, <3>2, <4>1, CountOfDrop DEF DropLoop
    <3> QED
      BY <3>1, <3>2
  <2>4. ASSUME NEW h \in Handles, NEW from \in Handles, CopyLoop(h, from)
        PROVE  LoopCounted' /\ BlocksMade'
    <3>1. loop[from] \in AllLoops /\ block[loop[from]] # "none" /\ loop[h] = None
      BY <2>4 DEF CopyLoop, Unused, CountInv, LoopTypeOK, BlocksMade
    <3> QED
      BY <2>4, <3>1, CountOfCopy DEF CopyLoop
  <2>5. ASSUME NEW h \in Handles, NEW from \in Handles, MoveLoop(h, from) \/ SwapLoops(h, from)
        PROVE  LoopCounted' /\ BlocksMade'
    <3>1. h # from /\ loop' = [loop EXCEPT ![h] = loop[from], ![from] = loop[h]]
      BY <2>5 DEF MoveLoop, SwapLoops, Unused
    <3>2. block' = block /\ state' = state /\ counter' = counter
      BY <2>5 DEF MoveLoop, SwapLoops
    <3> QED
      BY <3>1, <3>2, CountOfSwap
  <2>6. ASSUME CreateDisplay \/ DestroyDisplay PROVE LoopCounted' /\ BlocksMade'
    <3>1. /\ loop' = loop /\ counter' = counter /\ block' = block
          /\ \A l \in Loops : state'[l] = state[l]
      BY <2>6, NamesAssumption DEF CreateDisplay, DestroyDisplay, CountInv, LoopTypeOK, AllLoops
    <3> QED
      BY <3>1, CountFrame
  <2> QED
    BY <1>2, <2>1, <2>2, <2>3, <2>4, <2>5, <2>6, CountOfAssign DEF LoopStep
<1>3. CASE SourceStep
  BY <1>3, CountFrame DEF SourceStep, AddSource, CopySource, DropSource
<1>4. CASE DestroyLoop
  <2>1. /\ loop' = loop /\ counter' = counter
        /\ \A l \in AllLoops : /\ block'[l] = "alive" => block[l] = "alive"
                               /\ block'[l] = "none" <=> block[l] = "none"
    BY <1>4 DEF DestroyLoop, destroy_func, CountInv, LoopTypeOK
  <2>2. \A l \in Loops : state'[l] = "none" => state[l] = "none"
    BY <1>4 DEF DestroyLoop, CountInv, LoopTypeOK, AllLoops
  <2> QED
    BY <2>1, <2>2, CountFrame
<1>5. CASE \/ Poll \/ ProcessDestroyList \/ DispatchReturns \/ HandlerReturns
           \/ \E s \in Sources : RunIdle(s) \/ RunReady(s) \/ Arrives(s)
           \/ \E l \in AllLoops : Dispatch(l)
  BY <1>5, CountFrame DEF Poll, ProcessDestroyList, DispatchReturns, HandlerReturns,
                          RunIdle, RunReady, Arrives, Dispatch
<1> QED
  BY <1>1, <1>2, <1>3, <1>4, <1>5 DEF Next, LibraryStep

LEMMA CountInvariance == Spec => []CountInv
<1>1. Init => CountInv
  <2>1. Init => LoopTypeOK
    BY DEF Init, LoopTypeOK
  <2> QED
    BY <2>1 DEF Init, CountInv, LoopCounted, BlocksMade, AllLoops
<1> QED
  BY <1>1, CountInductive, PTL DEF Spec

\* The counter of a loop's block is the number of event_loop_t that refer to
\* it, however they are copied, moved, swapped and assigned, and whatever a
\* program neglects, as long as there is a block.
THEOREM LoopCountedCorrect == Spec => []LoopCounted
<1>1. CountInv => LoopCounted
  BY DEF CountInv
<1> QED
  BY <1>1, CountInvariance, PTL
-----------------------------------------------------------------------------
(* Removing a source *)

\* Only a source with handles can be removed by a handle, and only an idle one
\* by libwayland; a task that runs has not been removed.
Removable ==
    /\ \A s \in Sources : added[s] \in {"none", "active"} => removals[s] = 0
    /\ \A s \in Sources : KindOf[s] # "idle" /\ SharedBy(s) # {} => removals[s] = 0
    /\ \A s \in Sources : added[s] = "none" => SharedBy(s) = {}
    /\ running # None /\ KindOf[running] = "idle" => added[running] = "active"

RemoveInv == LoopTypeOK /\ RemovedOnce /\ Removable

LEMMA RemoveFrame ==
    ASSUME RemoveInv, source' = source, added' = added, removals' = removals, running' = running
    PROVE  RemovedOnce' /\ Removable'
<1>1. \A s : SharedBy(s)' = SharedBy(s)
  BY DEF SharedBy
<1> QED
  BY <1>1 DEF RemoveInv, RemovedOnce, Removable

LEMMA RemoveAdd ==
    ASSUME RemoveInv, NEW v \in SourceHandles, NEW h \in Handles, NEW s \in Sources,
           AddSource(h, v, s)
    PROVE  RemovedOnce' /\ Removable'
<1>1. /\ removals' = removals /\ running' = running
      /\ added[s] = "none" /\ added'[s] # "none" /\ removals[s] = 0
      /\ \A r \in Sources \ {s} : added'[r] = added[r]
  BY DEF AddSource, otherVars, dispatchVars, RemoveInv, LoopTypeOK, Removable
<1>2. \A r \in Sources \ {s} : SharedBy(r)' = SharedBy(r)
  BY NamesAssumption DEF AddSource, SharedBy, Free, RemoveInv, LoopTypeOK
<1>3. running # None /\ KindOf[running] = "idle" => running # s
  BY <1>1 DEF RemoveInv, Removable
<1> QED
  BY <1>1, <1>2, <1>3 DEF RemoveInv, RemovedOnce, Removable, LoopTypeOK

LEMMA RemoveCopy ==
    ASSUME RemoveInv, NEW v \in SourceHandles, NEW from \in SourceHandles, CopySource(v, from)
    PROVE  RemovedOnce' /\ Removable'
<1>1. added' = added /\ removals' = removals /\ running' = running
  BY DEF CopySource, otherVars, dispatchVars
<1>2. \A r \in Sources : SharedBy(r)' # {} => SharedBy(r) # {}
  BY DEF CopySource, SharedBy, Free, RemoveInv, LoopTypeOK
<1> QED
  BY <1>1, <1>2 DEF RemoveInv, RemovedOnce, Removable

LEMMA RemoveDrop ==
    ASSUME RemoveInv, "idle_kept" \notin Habits, NEW v \in SourceHandles, DropSource(v)
    PROVE  RemovedOnce' /\ Removable'
<1>1. running' = running
  BY DEF DropSource, dispatchVars
<1>2. \A r \in Sources : SharedBy(r)' \subseteq SharedBy(r)
  BY NamesAssumption DEF DropSource, SharedBy, RemoveInv, LoopTypeOK
<1>3. CASE source[v] = Null \/ ~last(v)
  <2>1. added' = added /\ removals' = removals
    BY <1>3 DEF DropSource
  <2> QED
    BY <1>1, <1>2, <2>1 DEF RemoveInv, RemovedOnce, Removable
<1>4. CASE source[v] # Null /\ last(v)
  <2> SUFFICES ASSUME NEW s \in Sources, source[v] = s
               PROVE  RemovedOnce' /\ Removable'
    BY <1>4 DEF DropSource, Free, RemoveInv, LoopTypeOK
  <2>1. /\ Cancellable(s)
        /\ removals' = [removals EXCEPT ![s] = @ + 1]
        /\ added' = [added EXCEPT ![s] = IF @ = "active" THEN "removed" ELSE @]
    BY <1>4 DEF DropSource, deleter, wl_event_source_remove
  <2>2. SharedBy(s) = {v} /\ SharedBy(s)' = {}
    BY <1>4, NamesAssumption DEF last, SharedBy, DropSource, RemoveInv, LoopTypeOK
  <2>3. removals[s] = 0 /\ added[s] # "none"
    BY <2>1, <2>2 DEF Cancellable, RemoveInv, Removable
  <2>4. /\ removals'[s] = 1 /\ added'[s] \notin {"none", "active"}
        /\ \A r \in Sources \ {s} : removals'[r] = removals[r] /\ added'[r] = added[r]
    BY <2>1, <2>3 DEF RemoveInv, LoopTypeOK
  <2>5. running # None /\ KindOf[running] = "idle" => running # s
    BY <2>1 DEF Cancellable
  <2>6. RemovedOnce'
    BY <2>4 DEF RemoveInv, RemovedOnce
  <2> QED
    BY <1>1, <1>2, <2>2, <2>4, <2>5, <2>6 DEF RemoveInv, Removable, LoopTypeOK
<1> QED
  BY <1>3, <1>4

\* The memory of removed sources is freed.
LEMMA RemoveFreed ==
    ASSUME RemoveInv, source' = source, removals' = removals, running' = running,
           NEW l, added' = [s \in Sources |-> IF of[s] = l /\ added[s] = "removed"
                                              THEN "freed" ELSE added[s]]
    PROVE  RemovedOnce' /\ Removable'
<1>1. \A s : SharedBy(s)' = SharedBy(s)
  BY DEF SharedBy
<1>2. \A s \in Sources : /\ added'[s] \in {"none", "active"} => added'[s] = added[s]
                         /\ added[s] = "active" => added'[s] = "active"
  OBVIOUS
<1> QED
  BY <1>1, <1>2 DEF RemoveInv, RemovedOnce, Removable, LoopTypeOK

LEMMA RemoveReturn ==
    ASSUME RemoveInv, HandlerReturns
    PROVE  RemovedOnce' /\ Removable'
<1>1. source' = source /\ running' = None /\ running \in Sources
  BY DEF HandlerReturns, RemoveInv, LoopTypeOK
<1>2. \A s : SharedBy(s)' = SharedBy(s)
  BY <1>1 DEF SharedBy
<1>3. CASE KindOf[running] # "idle"
  <2>1. added' = added /\ removals' = removals
    BY <1>3 DEF HandlerReturns
  <2> QED
    BY <1>1, <1>2, <2>1 DEF RemoveInv, RemovedOnce, Removable
<1>4. CASE KindOf[running] = "idle"
  <2> SUFFICES ASSUME NEW s \in Sources, running = s PROVE RemovedOnce' /\ Removable'
    BY <1>1
  <2>1. /\ added[s] = "active" /\ removals[s] = 0
    BY <1>1, <1>4, NamesAssumption DEF RemoveInv, Removable, HandlerReturns
  <2>2. /\ added'[s] = "removed" /\ removals'[s] = 1
        /\ \A r \in Sources \ {s} : removals'[r] = removals[r] /\ added'[r] = added[r]
    BY <1>4, <2>1 DEF HandlerReturns, wl_event_source_remove, RemoveInv, LoopTypeOK
  <2>3. RemovedOnce'
    BY <2>2 DEF RemoveInv, RemovedOnce
  <2> QED
    BY <1>1, <1>2, <1>4, <2>2, <2>3 DEF RemoveInv, Removable
<1> QED
  BY <1>3, <1>4

LEMMA RemoveInductive ==
    ASSUME "idle_kept" \notin Habits
    PROVE  RemoveInv /\ [Next]_vars => RemoveInv'
<1> SUFFICES ASSUME RemoveInv, [Next]_vars PROVE RemovedOnce' /\ Removable'
  BY TypeInductive DEF RemoveInv
<1> USE DEF loopVars, handleVars, sourceVars, dispatchVars, otherVars
<1>1. CASE UNCHANGED vars
  BY <1>1, RemoveFrame DEF vars
<1>2. CASE LoopStep
  BY <1>2, RemoveFrame
     DEF LoopStep, CreateLoop, GetEventLoop, CopyLoop, AssignLoop, MoveLoop, SwapLoops,
         DropLoop, CreateDisplay, DestroyDisplay
<1>3. CASE SourceStep
  BY <1>3, RemoveAdd, RemoveCopy, RemoveDrop DEF SourceStep
<1>4. CASE DestroyLoop \/ ProcessDestroyList
  BY <1>4, RemoveFreed DEF DestroyLoop, ProcessDestroyList
<1>5. CASE \/ Poll \/ DispatchReturns \/ \E s \in Sources : Arrives(s)
           \/ \E l \in AllLoops : Dispatch(l)
  BY <1>5, RemoveFrame DEF Poll, DispatchReturns, Arrives, Dispatch
<1>6. ASSUME NEW s \in Sources, RunIdle(s) \/ RunReady(s) PROVE RemovedOnce' /\ Removable'
  <2>1. /\ source' = source /\ added' = added /\ removals' = removals
        /\ running' # None => running' = s /\ added[s] = "active"
    BY <1>6 DEF RunIdle, RunReady, Active
  <2>2. \A r : SharedBy(r)' = SharedBy(r)
    BY <2>1 DEF SharedBy
  <2> QED
    BY <2>1, <2>2 DEF RemoveInv, RemovedOnce, Removable
<1> QED
  BY <1>1, <1>2, <1>3, <1>4, <1>5, <1>6, RemoveReturn DEF Next, LibraryStep

\* A source is removed once, by the end of its last handle or by libwayland
\* after an idle task ran, for any number of shared handles and whatever the
\* handlers do, if no handle of an idle task is kept until it runs.
THEOREM RemovedOnceCorrect ==
    ASSUME "idle_kept" \notin Habits
    PROVE  Spec => []RemovedOnce
<1>1. Init => RemoveInv
  <2>1. Init => LoopTypeOK
    BY DEF Init, LoopTypeOK
  <2>2. Init => \A s \in Sources : SharedBy(s) = {}
    BY NamesAssumption DEF Init, SharedBy
  <2> QED
    BY <2>1, <2>2 DEF Init, RemoveInv, RemovedOnce, Removable
<1>2. RemoveInv => RemovedOnce
  BY DEF RemoveInv
<1> QED
  BY <1>1, <1>2, RemoveInductive, PTL DEF Spec
-----------------------------------------------------------------------------
(* Nothing that was freed is used *)

\* Sources have a loop once they are added, and those a round of dispatching
\* refers to are its loop's.
RoundOfOneLoop ==
    /\ \A s \in Sources : added[s] # "none" => of[s] \in AllLoops /\ state[of[s]] # "none"
    /\ \A s \in batch : of[s] = current /\ added[s] # "none"
    /\ phase # "ready" => batch = {}
    /\ running # None => added[running] # "none" /\ of[running] = current /\ current # None
    /\ current # None => state[current] = "alive"

\* A loop that ends has lost its handles, and is not the one that is running.
EndsInOrder ==
    /\ closing # None => /\ closing # current /\ HandlesOf(closing) = {}
                         /\ \A s \in SourcesOf(closing) : SharedBy(s) \subseteq Immortal
    /\ closing = Default => display = "freed"
    /\ Default \notin do_delete
    /\ display # "freed" => state[Default] = display
    /\ display # "freed" => block[Default] # "freed"

\* No handle that will be used again refers to a source that was removed.
RemovedUnshared ==
    \A s \in Sources : added[s] \in {"removed", "freed"} => SharedBy(s) \subseteq Immortal

SharedAreAdded ==
    \A v \in SourceHandles :
       source[v] # Null /\ (source[v] \in Sources => added[source[v]] # "none")

UseInv == /\ CountInv /\ NothingFreedInUse
          /\ RoundOfOneLoop /\ EndsInOrder /\ RemovedUnshared /\ SharedAreAdded

UseParts == NothingFreedInUse /\ RoundOfOneLoop /\ EndsInOrder /\ RemovedUnshared /\ SharedAreAdded

\* Steps of the program with loops: what they leave alone, and what remains to
\* be shown of each.
LEMMA UseOfLoops ==
    ASSUME UseInv, UNCHANGED <<sourceVars, dispatchVars, faults>>,
           \A l \in AllLoops : state'[l] = state[l] \/ state[l] = "none",
           \A h \in Handles : loop'[h] # None =>
                                 state'[loop'[h]] = "alive" /\ block'[loop'[h]] = "alive",
           EndsInOrder'
    PROVE  UseParts'
<1> USE DEF sourceVars, dispatchVars
<1>1. \A s : SharedBy(s)' = SharedBy(s)
  BY DEF SharedBy
<1>2. \A s \in Sources : added[s] # "none" => of[s] \in AllLoops /\ state'[of[s]] = state[of[s]]
  BY DEF UseInv, RoundOfOneLoop
<1>3. RoundOfOneLoop'
  <2>1. current # None => state'[current] = "alive"
    BY DEF UseInv, RoundOfOneLoop, CountInv, LoopTypeOK
  <2> QED
    BY <1>2, <2>1 DEF UseInv, RoundOfOneLoop
<1>4. \A v \in SourceHandles : source[v] \in Sources =>
                               state'[of[source[v]]] = state[of[source[v]]]
  BY <1>2 DEF UseInv, SharedAreAdded
<1>5. NothingFreedInUse'
  <2>1. \A v \in SourceHandles \ Immortal : source[v] \in Sources =>
             added[source[v]] # "freed" /\ state'[of[source[v]]] = "alive"
    BY <1>4 DEF UseInv, NothingFreedInUse
  <2>2. \A s \in Sources : added[s] = "active" /\ state'[of[s]] = "alive" => s \in functions
    BY <1>2 DEF UseInv, NothingFreedInUse
  <2>3. running # None => state'[of[running]] = "alive" /\ running \in functions
    BY <1>3 DEF UseInv, NothingFreedInUse, RoundOfOneLoop
  <2> QED
    BY <2>1, <2>2, <2>3 DEF UseInv, NothingFreedInUse
<1> QED
  BY <1>1, <1>3, <1>5 DEF UseParts, UseInv, RemovedUnshared, SharedAreAdded

\* A handle that loses its loop: if it was the last of an own loop, this ends.
LEMMA UseOfEnd ==
    ASSUME UseInv, Habits = {}, closing = None, NEW h \in Handles, NEW l \in AllLoops, loop[h] = l,
           counter[l] = 1 /\ l \in do_delete => MayEnd(l), fini(l),
           counter[l] = 1 => HandlesOf(l)' = {},
           UNCHANGED <<display, state, block, do_delete, sourceVars, dispatchVars>>
    PROVE  EndsInOrder'
<1> USE DEF sourceVars, dispatchVars
<1>1. \A s : SharedBy(s)' = SharedBy(s)
  BY DEF SharedBy
<1>2. \A k : SourcesOf(k)' = SourcesOf(k)
  BY DEF SourcesOf
<1>3. CASE counter[l] = 1 /\ l \in do_delete
  <2>1. closing' = l /\ HandlesOf(l)' = {}
    BY <1>3 DEF fini
  <2>2. current # l /\ \A s \in SourcesOf(l) : SharedBy(s) \subseteq Immortal
    BY <1>3 DEF MayEnd
  <2>3. l # Default
    BY <1>3 DEF UseInv, EndsInOrder
  <2>4. HandlesOf(closing)' = {}
    BY <2>1 DEF HandlesOf
  <2>5. \A s \in SourcesOf(closing)' : SharedBy(s)' \subseteq Immortal
    BY <1>1, <1>2, <2>1, <2>2 DEF SourcesOf
  <2> QED
    BY <2>1, <2>2, <2>3, <2>4, <2>5 DEF UseInv, EndsInOrder
<1>4. CASE ~(counter[l] = 1 /\ l \in do_delete)
  <2>1. closing' = None
    BY <1>4 DEF fini
  <2> QED
    BY <2>1, NamesAssumption DEF UseInv, EndsInOrder
<1> QED
  BY <1>3, <1>4

LEMMA UseDrop ==
    ASSUME UseInv, Habits = {}, NEW h \in Handles, DropLoop(h)
    PROVE  UseParts'
<1>1. /\ h \notin moved /\ closing = None /\ loop[h] # None
      /\ loop' = [loop EXCEPT ![h] = None] /\ faults' = faults
  BY DEF DropLoop, ProgramRuns
<1> SUFFICES ASSUME NEW l \in AllLoops, loop[h] = l PROVE UseParts'
  BY <1>1 DEF UseInv, CountInv, LoopTypeOK
<1>2. counter[l] = Cardinality(HandlesOf(l))
  BY <1>1 DEF UseInv, NothingFreedInUse, CountInv, LoopCounted
<1>3. counter[l] = 1 => HandlesOf(l) = {h}
  BY <1>2, HandlesFinite, FS_Singleton DEF HandlesOf
<1>4. counter[l] = 1 => HandlesOf(l)' = {}
  BY <1>1, <1>3, NamesAssumption DEF HandlesOf, UseInv, CountInv, LoopTypeOK, AllLoops
<1>5. EndsInOrder'
  BY <1>1, <1>4, UseOfEnd DEF DropLoop
<1>6. \A g \in Handles : loop'[g] # None => loop'[g] = loop[g]
  BY <1>1 DEF UseInv, CountInv, LoopTypeOK
<1>7. UNCHANGED <<sourceVars, dispatchVars, faults, state, block>>
  BY <1>1 DEF DropLoop
<1> QED
  BY <1>5, <1>6, <1>7, UseOfLoops DEF UseInv, NothingFreedInUse

LEMMA UseAssign ==
    ASSUME UseInv, Habits = {}, NEW h \in Handles, NEW from \in Handles, AssignLoop(h, from)
    PROVE  UseParts'
<1>1. /\ h # from /\ closing = None /\ loop[h] # None /\ loop[from] # None
      /\ loop' = [loop EXCEPT ![h] = loop[from]]
  BY DEF AssignLoop, ProgramRuns
<1> SUFFICES ASSUME NEW l \in AllLoops, loop[h] = l PROVE UseParts'
  BY <1>1 DEF UseInv, CountInv, LoopTypeOK
<1>2. counter[l] = Cardinality(HandlesOf(l))
  BY <1>1 DEF UseInv, NothingFreedInUse, CountInv, LoopCounted
<1>3. counter[l] = 1 => HandlesOf(l) = {h}
  BY <1>2, HandlesFinite, FS_Singleton DEF HandlesOf
<1>4. counter[l] = 1 => HandlesOf(l)' = {}
  BY <1>1, <1>3 DEF HandlesOf, UseInv, CountInv, LoopTypeOK
<1>5. EndsInOrder'
  BY <1>1, <1>4, UseOfEnd DEF AssignLoop
<1>6. \A g \in Handles : loop'[g] = loop[g] \/ loop'[g] = loop[from]
  BY <1>1 DEF UseInv, CountInv, LoopTypeOK
<1>7. UNCHANGED <<sourceVars, dispatchVars, faults, state, block>>
  BY DEF AssignLoop
<1> QED
  BY <1>1, <1>5, <1>6, <1>7, UseOfLoops DEF UseInv, NothingFreedInUse

LEMMA UseLoopStep ==
    ASSUME UseInv, Habits = {}, LoopStep
    PROVE  UseParts'
<1> USE DEF sourceVars, dispatchVars, otherVars, loopVars, handleVars
<1>1. ASSUME NEW h \in Handles, NEW l \in Loops, CreateLoop(h, l) PROVE UseParts'
  <2>1. /\ l \in AllLoops /\ l # Default /\ block[l] = "none" /\ closing' = None /\ closing = None
        /\ loop' = [loop EXCEPT ![h] = l]
    BY <1>1 DEF CreateLoop, ProgramRuns, AllLoops, UseInv, CountInv, BlocksMade
  <2>2. EndsInOrder'
    BY <1>1, <2>1, NamesAssumption
       DEF CreateLoop, init, EndsInOrder, UseInv, CountInv, LoopTypeOK, AllLoops
  <2>3. \A g \in Handles : loop'[g] = l \/ loop'[g] = loop[g]
    BY <2>1 DEF UseInv, CountInv, LoopTypeOK
  <2>4. /\ state'[l] = "alive" /\ block'[l] = "alive"
        /\ \A k \in AllLoops \ {l} : state'[k] = state[k] /\ block'[k] = block[k]
        /\ state[l] = "none"
    BY <1>1, <2>1 DEF CreateLoop, init, UseInv, CountInv, LoopTypeOK
  <2>5. \A g \in Handles : loop'[g] # None =>
                              state'[loop'[g]] = "alive" /\ block'[loop'[g]] = "alive"
    BY <2>3, <2>4 DEF UseInv, NothingFreedInUse, CountInv, LoopTypeOK
  <2> QED
    BY <1>1, <2>2, <2>4, <2>5, UseOfLoops DEF CreateLoop
<1>2. ASSUME NEW h \in Handles, GetEventLoop(h) PROVE UseParts'
  <2>1. /\ Default \in AllLoops /\ closing' = None /\ display' = "alive"
        /\ loop' = [loop EXCEPT ![h] = Default] /\ state' = state
    BY <1>2 DEF GetEventLoop, ProgramRuns, AllLoops
  <2>2. /\ state[Default] = "alive" /\ block'[Default] = "alive"
        /\ \A k \in AllLoops \ {Default} : block'[k] = block[k]
    BY <1>2, <2>1 DEF GetEventLoop, init, EndsInOrder, UseInv, CountInv, LoopTypeOK
  <2>3. do_delete' \subseteq do_delete
    BY <1>2 DEF GetEventLoop, managed
  <2>4. EndsInOrder'
    BY <2>1, <2>2, <2>3, NamesAssumption DEF EndsInOrder, UseInv
  <2>5. \A g \in Handles : loop'[g] = Default \/ loop'[g] = loop[g]
    BY <2>1 DEF UseInv, CountInv, LoopTypeOK
  <2>6. \A g \in Handles : loop'[g] # None =>
                              state'[loop'[g]] = "alive" /\ block'[loop'[g]] = "alive"
    BY <2>1, <2>2, <2>5 DEF UseInv, NothingFreedInUse, CountInv, LoopTypeOK
  <2> QED
    BY <1>2, <2>1, <2>4, <2>6, UseOfLoops DEF GetEventLoop
<1>3. ASSUME NEW h \in Handles, NEW from \in Handles,
             CopyLoop(h, from) \/ MoveLoop(h, from) \/ SwapLoops(h, from)
      PROVE  UseParts'
  <2>1. /\ closing = None /\ closing' = None
        /\ UNCHANGED <<display, state, block, do_delete, sourceVars, dispatchVars, faults>>
    BY <1>3 DEF CopyLoop, MoveLoop, SwapLoops, ProgramRuns
  <2>2. EndsInOrder'
    BY <2>1, NamesAssumption DEF EndsInOrder, UseInv
  <2>3. \A g \in Handles : \/ loop'[g] = None \/ loop'[g] = loop[g]
                           \/ loop'[g] = loop[h] \/ loop'[g] = loop[from]
    BY <1>3 DEF CopyLoop, MoveLoop, SwapLoops, UseInv, CountInv, LoopTypeOK
  <2>4. \A g \in Handles : loop'[g] # None =>
                              state'[loop'[g]] = "alive" /\ block'[loop'[g]] = "alive"
    BY <2>1, <2>3 DEF UseInv, NothingFreedInUse
  <2> QED
    BY <2>1, <2>2, <2>4, UseOfLoops
<1>4. ASSUME CreateDisplay PROVE UseParts'
  <2>1. /\ closing = None /\ closing' = None /\ display = "none" /\ display' = "alive"
        /\ state' = [state EXCEPT ![Default] = "alive"]
        /\ UNCHANGED <<loop, block, do_delete, sourceVars, dispatchVars, faults>>
    BY <1>4 DEF CreateDisplay, ProgramRuns
  <2>2. Default \in AllLoops /\ state'[Default] = "alive"
        /\ \A k \in AllLoops \ {Default} : state'[k] = state[k]
    BY <2>1 DEF AllLoops, UseInv, CountInv, LoopTypeOK
  <2>3. EndsInOrder'
    BY <2>1, <2>2, NamesAssumption DEF EndsInOrder, UseInv
  <2>4. state[Default] = "none"
    BY <2>1 DEF EndsInOrder, UseInv
  <2>5. \A g \in Handles : loop'[g] # None =>
                              state'[loop'[g]] = "alive" /\ block'[loop'[g]] = "alive"
    BY <2>1, <2>2 DEF UseInv, NothingFreedInUse, CountInv, LoopTypeOK
  <2> QED
    BY <2>1, <2>2, <2>3, <2>4, <2>5, UseOfLoops
<1>5. ASSUME DestroyDisplay PROVE UseParts'
  <2>1. /\ closing' = Default /\ display' = "freed" /\ current # Default
        /\ HandlesOf(Default) = {}
        /\ \A s \in SourcesOf(Default) : SharedBy(s) \subseteq Immortal
        /\ UNCHANGED <<loop, state, block, do_delete, sourceVars, dispatchVars, faults>>
    BY <1>5 DEF DestroyDisplay, MayEnd
  <2>2. HandlesOf(closing)' = {} /\ \A s \in SourcesOf(closing)' : SharedBy(s)' \subseteq Immortal
    BY <2>1 DEF HandlesOf, SourcesOf, SharedBy
  <2>3. EndsInOrder'
    BY <2>1, <2>2 DEF EndsInOrder, UseInv
  <2> QED
    BY <2>1, <2>3, UseOfLoops DEF UseInv, NothingFreedInUse
<1> QED
  BY <1>1, <1>2, <1>3, <1>4, <1>5, UseDrop, UseAssign DEF LoopStep

LEMMA UseAdd ==
    ASSUME UseInv, Habits = {}, NEW v \in SourceHandles, NEW h \in Handles, NEW s \in Sources,
           AddSource(h, v, s)
    PROVE  UseParts'
<1> USE DEF sourceVars, dispatchVars, otherVars, loopVars, handleVars
<1> SUFFICES ASSUME NEW l \in AllLoops, loop[h] = l PROVE UseParts'
  BY DEF AddSource, UseInv, CountInv, LoopTypeOK
<1>1. /\ closing = None /\ added[s] = "none" /\ source[v] = None
      /\ functions' = functions \cup {s} /\ of' = [of EXCEPT ![s] = l]
      /\ added' = [added EXCEPT ![s] = "active"] /\ source' = [source EXCEPT ![v] = s]
      /\ UNCHANGED <<loopVars, handleVars, closing, faults, dispatchVars>>
  BY DEF AddSource, push_back, ProgramRuns, Free
<1>2. state[l] = "alive"
  BY NamesAssumption DEF UseInv, NothingFreedInUse, AllLoops
<1>3. /\ of'[s] = l /\ added'[s] = "active"
      /\ \A r \in Sources \ {s} : of'[r] = of[r] /\ added'[r] = added[r]
  BY <1>1 DEF UseInv, CountInv, LoopTypeOK
<1>4. /\ source'[v] = s
      /\ \A w \in SourceHandles \ {v} : source'[w] = source[w] /\ source[w] # s
  BY <1>1 DEF UseInv, SharedAreAdded, CountInv, LoopTypeOK
<1>5. \A r \in Sources \ {s} : SharedBy(r)' = SharedBy(r)
  BY <1>1, <1>4, NamesAssumption DEF SharedBy
<1>6. running # s /\ s \notin batch
  BY <1>1, NamesAssumption DEF UseInv, RoundOfOneLoop
<1>7. RoundOfOneLoop'
  BY <1>1, <1>2, <1>3, <1>6 DEF RoundOfOneLoop, UseInv, CountInv, LoopTypeOK
<1>8. EndsInOrder'
  BY <1>1, NamesAssumption DEF EndsInOrder, UseInv
<1>9. RemovedUnshared' /\ SharedAreAdded'
  BY <1>3, <1>4, <1>5, NamesAssumption DEF RemovedUnshared, SharedAreAdded, UseInv
<1>10. NothingFreedInUse'
  <2>1. \A w \in SourceHandles \ Immortal : source'[w] \in Sources =>
             added'[source'[w]] # "freed" /\ state[of'[source'[w]]] = "alive"
    BY <1>2, <1>3, <1>4 DEF UseInv, NothingFreedInUse
  <2>2. \A r \in Sources : added'[r] = "active" /\ state[of'[r]] = "alive" => r \in functions'
    BY <1>1, <1>3 DEF UseInv, NothingFreedInUse
  <2>3. running # None => state[of'[running]] = "alive" /\ running \in functions'
    BY <1>1, <1>3, <1>6 DEF UseInv, NothingFreedInUse, CountInv, LoopTypeOK
  <2> QED
    BY <1>1, <2>1, <2>2, <2>3 DEF UseInv, NothingFreedInUse
<1> QED
  BY <1>7, <1>8, <1>9, <1>10 DEF UseParts

\* Fewer handles share a source, or more that share it already; a source may be
\* removed.
LEMMA UseOfSources ==
    ASSUME UseInv,
           UNCHANGED <<loopVars, handleVars, functions, of, faults, current, phase, batch>>,
           closing' = closing, running' \in {None, running},
           \A w \in SourceHandles :
              source'[w] # source[w] =>
                 source'[w] = None \/ \E u \in SourceHandles \ Immortal : source'[w] = source[u],
           closing # None => source' = source,
           \A s \in Sources :
              \/ added'[s] = added[s]
              \/ added[s] = "active" /\ added'[s] = "removed" /\ SharedBy(s)' \subseteq Immortal
    PROVE  UseParts'
<1> USE DEF loopVars, handleVars
<1>1. \A s \in Sources : SharedBy(s)' \subseteq SharedBy(s)
                         \/ \E u \in SourceHandles \ Immortal : source[u] = s
  BY NamesAssumption DEF SharedBy
<1>2. RoundOfOneLoop'
  BY DEF RoundOfOneLoop, UseInv, CountInv, LoopTypeOK
<1>3. EndsInOrder'
  BY DEF EndsInOrder, UseInv, HandlesOf, SourcesOf, SharedBy
<1>4. RemovedUnshared'
  BY <1>1 DEF RemovedUnshared, UseInv, SharedBy
<1>5. SharedAreAdded'
  BY NamesAssumption DEF SharedAreAdded, UseInv
<1>6. NothingFreedInUse'
  <2>1. \A w \in SourceHandles \ Immortal : source'[w] \in Sources =>
             added'[source'[w]] # "freed" /\ state[of[source'[w]]] = "alive"
    <3> SUFFICES ASSUME NEW w \in SourceHandles \ Immortal, source'[w] \in Sources
                 PROVE  added'[source'[w]] # "freed" /\ state[of[source'[w]]] = "alive"
      OBVIOUS
    <3>1. \E u \in SourceHandles \ Immortal : source'[w] = source[u]
      BY NamesAssumption
    <3> QED
      BY <3>1 DEF UseInv, NothingFreedInUse
  <2>2. \A r \in Sources : added'[r] = "active" /\ state[of[r]] = "alive" => r \in functions
    BY DEF UseInv, NothingFreedInUse
  <2> QED
    BY <2>1, <2>2 DEF UseInv, NothingFreedInUse
<1> QED
  BY <1>2, <1>3, <1>4, <1>5, <1>6 DEF UseParts

LEMMA UseCopyDrop ==
    ASSUME UseInv, Habits = {}, NEW v \in SourceHandles,
           DropSource(v) \/ \E from \in SourceHandles : CopySource(v, from)
    PROVE  UseParts'
<1> USE DEF dispatchVars, otherVars, loopVars, handleVars
<1>1. CASE DropSource(v)
  <2>1. source[v] # Null /\ closing = None
    BY <1>1 DEF DropSource, ProgramRuns, UseInv, SharedAreAdded
  <2>2. /\ source' = [source EXCEPT ![v] = None]
        /\ UNCHANGED <<loopVars, handleVars, of, faults, dispatchVars, closing>>
    BY <1>1, <2>1 DEF DropSource
  <2>3. functions' = functions
    BY <1>1, <2>1 DEF DropSource, deleter
  <2>4. ASSUME NEW s \in Sources, added'[s] # added[s]
        PROVE  added[s] = "active" /\ added'[s] = "removed" /\ SharedBy(s)' \subseteq Immortal
    <3>1. last(v) /\ added' = [added EXCEPT ![source[v]] = IF @ = "active" THEN "removed" ELSE @]
      BY <1>1, <2>1, <2>4 DEF DropSource, deleter, wl_event_source_remove
    <3>2. source[v] = s /\ added[s] = "active" /\ added'[s] = "removed"
      BY <2>4, <3>1 DEF UseInv, CountInv, LoopTypeOK
    <3>3. SharedBy(s)' = {}
      BY <2>2, <3>1, <3>2, NamesAssumption DEF last, SharedBy, UseInv, CountInv, LoopTypeOK
    <3> QED
      BY <3>2, <3>3
  <2>5. \A w \in SourceHandles : source'[w] # source[w] => source'[w] = None
    BY <2>2 DEF UseInv, CountInv, LoopTypeOK
  <2> QED
    BY <2>1, <2>2, <2>3, <2>4, <2>5, UseOfSources
<1>2. ASSUME NEW from \in SourceHandles, CopySource(v, from) PROVE UseParts'
  <2>1. /\ closing = None /\ from \notin Immortal
        /\ source' = [source EXCEPT ![v] = source[from]]
        /\ UNCHANGED <<loopVars, handleVars, functions, added, of, otherVars>>
    BY <1>2 DEF CopySource, ProgramRuns
  <2>2. \A w \in SourceHandles : source'[w] # source[w] => source'[w] = source[from]
    BY <2>1 DEF UseInv, CountInv, LoopTypeOK
  <2> QED
    BY <2>1, <2>2, UseOfSources
<1> QED
  BY <1>1, <1>2

\* A loop's end frees its block, its functions and its removed sources.
LEMMA UseDestroy ==
    ASSUME UseInv, DestroyLoop
    PROVE  UseParts'
<1> USE DEF dispatchVars, handleVars
<1> SUFFICES ASSUME NEW l \in AllLoops, closing = l PROVE UseParts'
  BY DEF DestroyLoop, UseInv, CountInv, LoopTypeOK
<1>1. /\ closing' = None /\ state' = [state EXCEPT ![l] = "freed"]
      /\ functions' = functions \ SourcesOf(l)
      /\ block' = IF block[l] = "alive" THEN [block EXCEPT ![l] = "freed"] ELSE block
      /\ added' = [s \in Sources |-> IF of[s] = l /\ added[s] = "removed" THEN "freed" ELSE added[s]]
      /\ UNCHANGED <<display, do_delete, handleVars, source, of, dispatchVars, faults>>
  BY DEF DestroyLoop, destroy_func
<1>2. /\ l # None /\ l # current /\ HandlesOf(l) = {}
      /\ \A s \in SourcesOf(l) : SharedBy(s) \subseteq Immortal
      /\ l = Default => display = "freed"
  BY NamesAssumption DEF UseInv, EndsInOrder, AllLoops
<1>3. state'[l] = "freed" /\ \A k \in AllLoops \ {l} : state'[k] = state[k] /\ block'[k] = block[k]
  BY <1>1 DEF UseInv, CountInv, LoopTypeOK
<1>4. \A s : SharedBy(s)' = SharedBy(s)
  BY <1>1 DEF SharedBy
<1>5. RoundOfOneLoop'
  BY <1>1, <1>2, <1>3 DEF RoundOfOneLoop, UseInv, CountInv, LoopTypeOK
<1>6. EndsInOrder'
  BY <1>1, <1>2, <1>3, NamesAssumption DEF EndsInOrder, UseInv, AllLoops
<1>7. RemovedUnshared' /\ SharedAreAdded'
  BY <1>1, <1>4 DEF RemovedUnshared, SharedAreAdded, UseInv
<1>8. NothingFreedInUse'
  <2>1. \A h \in Handles : loop[h] # None => loop[h] # l /\ loop[h] \in AllLoops
    BY <1>2 DEF HandlesOf, UseInv, CountInv, LoopTypeOK
  <2>2. \A w \in SourceHandles \ Immortal : source[w] \in Sources =>
             /\ of[source[w]] \in AllLoops \ {l}
             /\ added[source[w]] \notin {"removed", "freed"}
    BY <1>2 DEF SourcesOf, SharedBy, UseInv, SharedAreAdded, RoundOfOneLoop, RemovedUnshared
  <2>3. \A s \in Sources : added'[s] = "active" => added[s] = "active" /\ of[s] \in AllLoops
    BY <1>1 DEF UseInv, RoundOfOneLoop
  <2>4. running # None => of[running] \in AllLoops \ {l} /\ running \in Sources
    BY <1>2 DEF UseInv, RoundOfOneLoop, CountInv, LoopTypeOK
  <2>5. \A s \in Sources : of[s] # l /\ s \in functions => s \in functions'
    BY <1>1 DEF SourcesOf
  <2>6. \A h \in Handles : loop'[h] # None =>
           state'[loop'[h]] = "alive" /\ block'[loop'[h]] = "alive"
    BY <1>1, <1>3, <2>1 DEF UseInv, NothingFreedInUse
  <2>7. \A w \in SourceHandles \ Immortal : source[w] \in Sources =>
             added'[source[w]] # "freed" /\ state'[of[source[w]]] = "alive"
    BY <1>1, <1>3, <2>2 DEF UseInv, NothingFreedInUse
  <2>8. \A s \in Sources : added'[s] = "active" /\ state'[of[s]] = "alive" => s \in functions'
    BY <1>3, <2>3, <2>5 DEF UseInv, NothingFreedInUse
  <2>9. running # None => state'[of[running]] = "alive" /\ running \in functions'
    BY <1>3, <2>4, <2>5 DEF UseInv, NothingFreedInUse
  <2> QED
    BY <1>1, <2>6, <2>7, <2>8, <2>9 DEF UseInv, NothingFreedInUse
<1> QED
  BY <1>5, <1>6, <1>7, <1>8 DEF UseParts

\* Dispatching, but for the return of a handler.
LEMMA UseDispatch ==
    ASSUME UseInv,
           \/ Poll \/ ProcessDestroyList \/ DispatchReturns
           \/ \E s \in Sources : RunIdle(s) \/ RunReady(s) \/ Arrives(s)
           \/ \E l \in AllLoops : Dispatch(l)
    PROVE  UseParts'
<1> USE DEF sourceVars, dispatchVars, loopVars, handleVars
<1>1. /\ UNCHANGED <<loopVars, handleVars, functions, source, of, faults, closing>>
  BY DEF Poll, ProcessDestroyList, DispatchReturns, RunIdle, RunReady, Arrives, Dispatch
<1>2. \A s : SharedBy(s)' = SharedBy(s) /\ HandlesOf(s)' = HandlesOf(s) /\ SourcesOf(s)' = SourcesOf(s)
  BY <1>1 DEF SharedBy, HandlesOf, SourcesOf
<1>3. \A s \in Sources : added'[s] = added[s] \/ (added[s] = "removed" /\ added'[s] = "freed")
  BY DEF Poll, ProcessDestroyList, DispatchReturns, RunIdle, RunReady, Arrives, Dispatch,
         UseInv, CountInv, LoopTypeOK
<1>4. RemovedUnshared' /\ SharedAreAdded'
  BY <1>1, <1>2, <1>3 DEF RemovedUnshared, SharedAreAdded, UseInv
<1>5. closing = None => EndsInOrder'
  BY <1>1, NamesAssumption DEF EndsInOrder, UseInv
<1>6. closing # None => current' = current
  BY DEF Poll, ProcessDestroyList, DispatchReturns, RunIdle, RunReady, Arrives, Dispatch, InLibrary
<1>7. closing # None => EndsInOrder'
  <2> SUFFICES ASSUME closing # None PROVE EndsInOrder'
    OBVIOUS
  <2>1. HandlesOf(closing)' = {} /\ \A s \in SourcesOf(closing)' : SharedBy(s)' \subseteq Immortal
    BY <1>1, <1>2 DEF EndsInOrder, UseInv, HandlesOf, SourcesOf
  <2> QED
    BY <1>1, <1>6, <2>1 DEF EndsInOrder, UseInv
<1>8. RoundOfOneLoop'
  <2>1. CASE Poll
    BY <1>1, <1>3, <2>1 DEF Poll, InLibrary, Active, SourcesOf, RoundOfOneLoop, UseInv
  <2>2. CASE ProcessDestroyList
    BY <1>1, <1>3, <2>2 DEF ProcessDestroyList, InLibrary, RoundOfOneLoop, UseInv
  <2>3. CASE DispatchReturns
    BY <1>1, <1>3, <2>3 DEF DispatchReturns, InLibrary, RoundOfOneLoop, UseInv
  <2>4. ASSUME NEW s \in Sources, RunIdle(s) PROVE RoundOfOneLoop'
    BY <1>1, <1>3, <2>4 DEF RunIdle, InLibrary, Active, SourcesOf, RoundOfOneLoop, UseInv
  <2>5. ASSUME NEW s \in Sources, RunReady(s) PROVE RoundOfOneLoop'
    BY <1>1, <1>3, <2>5 DEF RunReady, InLibrary, RoundOfOneLoop, UseInv
  <2>6. ASSUME NEW s \in Sources, Arrives(s) PROVE RoundOfOneLoop'
    BY <1>1, <1>3, <2>6 DEF Arrives, RoundOfOneLoop, UseInv
  <2>7. ASSUME NEW l \in AllLoops, Dispatch(l) PROVE RoundOfOneLoop'
    <3>1. batch = {} /\ running = None
      BY <2>7, NamesAssumption DEF Dispatch, RoundOfOneLoop, UseInv, CountInv, LoopTypeOK, AllLoops
    <3> QED
      BY <1>1, <1>3, <2>7, <3>1 DEF Dispatch, RoundOfOneLoop, UseInv
  <2> QED
    BY <2>1, <2>2, <2>3, <2>4, <2>5, <2>6, <2>7
<1>9. running' # None => running' = running \/ (running' \in Sources /\ added[running'] = "active"
                                                /\ of[running'] = current /\ current # None)
  BY DEF Poll, ProcessDestroyList, DispatchReturns, RunIdle, RunReady, Arrives, Dispatch,
         InLibrary, Active, SourcesOf, UseInv, RoundOfOneLoop
<1>10. running' # None => state[of[running']] = "alive" /\ running' \in functions
  BY <1>9 DEF UseInv, NothingFreedInUse, RoundOfOneLoop
<1>11. \A w \in SourceHandles \ Immortal : source[w] \in Sources => added'[source[w]] # "freed"
  BY <1>2, <1>4 DEF RemovedUnshared, SharedBy
<1>12. NothingFreedInUse'
  BY <1>1, <1>3, <1>10, <1>11 DEF UseInv, NothingFreedInUse
<1> QED
  BY <1>4, <1>5, <1>7, <1>8, <1>12 DEF UseParts

LEMMA UseReturn ==
    ASSUME UseInv, Habits = {}, HandlerReturns
    PROVE  UseParts'
<1> USE DEF loopVars, handleVars
<1>1. /\ running' = None /\ running \in Sources /\ closing = None
      /\ UNCHANGED <<loopVars, handleVars, functions, source, of, current, phase, batch, closing, faults>>
  BY DEF HandlerReturns, UseInv, CountInv, LoopTypeOK
<1>2. ASSUME NEW s \in Sources, added'[s] # added[s]
      PROVE  added[s] = "active" /\ added'[s] = "removed" /\ SharedBy(s)' \subseteq Immortal
  <2>1. /\ KindOf[running] = "idle"
        /\ added' = [added EXCEPT ![running] = IF @ = "active" THEN "removed" ELSE @]
    BY <1>2 DEF HandlerReturns, wl_event_source_remove
  <2>2. running = s /\ added[s] = "active" /\ added'[s] = "removed"
    BY <1>1, <1>2, <2>1 DEF UseInv, CountInv, LoopTypeOK
  <2>3. s \in Active(current, {"idle"})
    BY <1>1, <2>1, <2>2, NamesAssumption DEF Active, SourcesOf, UseInv, RoundOfOneLoop
  <2>4. SharedBy(s) \subseteq Immortal
    BY <2>3 DEF HandlerReturns, IdleTasksSettled
  <2> QED
    BY <1>1, <2>2, <2>4 DEF SharedBy
<1> QED
  BY <1>1, <1>2, UseOfSources
-----------------------------------------------------------------------------
(* The theorem *)

LEMMA UseInductive ==
    ASSUME Habits = {}
    PROVE  UseInv /\ [Next]_vars => UseInv'
<1> SUFFICES ASSUME UseInv, [Next]_vars PROVE UseInv'
  OBVIOUS
<1>1. CountInv'
  BY CountInductive DEF UseInv
<1>2. UseParts'
  <2>1. CASE UNCHANGED vars
    <3>1. EndsInOrder'
      BY <2>1 DEF vars, loopVars, handleVars, sourceVars, dispatchVars, UseInv, EndsInOrder,
                  HandlesOf, SourcesOf, SharedBy
    <3> QED
      BY <2>1, <3>1, UseOfLoops DEF vars, loopVars, handleVars, UseInv, NothingFreedInUse
  <2>2. CASE LoopStep
    BY <2>2, UseLoopStep
  <2>3. CASE SourceStep
    BY <2>3, UseAdd, UseCopyDrop DEF SourceStep
  <2>4. CASE \/ LibraryStep \/ \E l \in AllLoops : Dispatch(l)
             \/ \E s \in Sources : Arrives(s)
    BY <2>4, UseDestroy, UseDispatch, UseReturn DEF LibraryStep
  <2> QED
    BY <2>1, <2>2, <2>3, <2>4 DEF Next
<1> QED
  BY <1>1, <1>2 DEF UseInv, UseParts

LEMMA UseInit == Init => UseInv
<1>1. Init => CountInv
  <2>1. Init => LoopTypeOK
    BY DEF Init, LoopTypeOK
  <2> QED
    BY <2>1 DEF Init, CountInv, LoopCounted, BlocksMade, AllLoops
<1>2. Init => NothingFreedInUse /\ RoundOfOneLoop
  BY NamesAssumption DEF Init, NothingFreedInUse, RoundOfOneLoop
<1>3. Init => EndsInOrder /\ RemovedUnshared /\ SharedAreAdded
  BY NamesAssumption DEF Init, EndsInOrder, RemovedUnshared, SharedAreAdded, AllLoops
<1> QED
  BY <1>1, <1>2, <1>3 DEF UseInv

\* A program without the careless habits uses nothing that was freed: handles
\* have their loop and block, sources their memory, loop and function, also
\* when handlers drop, assign and remove what they run for, and although the
\* default loop is freed by the display and counted from 0 again.
THEOREM NothingFreedInUseCorrect ==
    ASSUME Habits = {}
    PROVE  Spec => []NothingFreedInUse
<1>1. UseInv => NothingFreedInUse
  BY DEF UseInv
<1> QED
  BY <1>1, UseInit, UseInductive, PTL DEF Spec
-----------------------------------------------------------------------------
(* Loops and sources are SharedObjects                                     *)

\* What holds a loop or a source, and whether it exists, see Shared.
AllHolders == Handles \cup SourceHandles \cup {Default}
Holding(o) ==
    IF o \in Sources THEN SharedBy(o)
    ELSE HandlesOf(o) \cup {d \in {Default} : o = d /\ display = "alive"}
Exists(o) == IF o \in Sources THEN added[o] \in {"active", "removed"} ELSE state[o] = "alive"

\* The steps of SharedObject, of one object.
StepOf(o) ==
    \/ ~Exists(o) /\ Exists(o)' /\ \E h \in AllHolders : Holding(o)' = {h}
    \/ /\ Exists(o) /\ Exists(o)' /\ Holding(o) # {}
       /\ \E h \in AllHolders \ Holding(o) : Holding(o)' = Holding(o) \cup {h}
    \/ /\ Exists(o) /\ Exists(o)'
       /\ \E g \in Holding(o), h \in AllHolders \ Holding(o) :
             Holding(o)' = (Holding(o) \ {g}) \cup {h}
    \/ /\ Exists(o) /\ Exists(o)'
       /\ \E h \in Holding(o) : Holding(o)' = Holding(o) \ {h}
    \/ Exists(o) /\ ~Exists(o)' /\ Holding(o) = {} /\ Holding(o)' = {}
    \/ (Exists(o)' <=> Exists(o)) /\ Holding(o)' = Holding(o)

\* They are: StepOf in the words of SharedObject.
LEMMA StepsRefine ==
    ASSUME \A o \in AllLoops \cup SharedSources : StepOf(o)
    PROVE  Shared!Next
<1> DEFINE O == AllLoops \cup SharedSources
           H == [o \in O |-> IF o \in Sources THEN SharedBy(o)
                   ELSE HandlesOf(o) \cup {d \in {Default} : o = d /\ display = "alive"}]
           X == {l \in AllLoops : state[l] = "alive"}
                   \cup {s \in SharedSources : added[s] \in {"active", "removed"}}
<1>1. \A o \in O : H[o] = Holding(o) /\ H'[o] = Holding(o)'
  BY DEF Holding
<1>2. ASSUME NEW o \in O PROVE (o \in X <=> Exists(o)) /\ (o \in X' <=> Exists(o)')
  <2>1. CASE o \in Sources
    BY <1>2, <2>1, NamesAssumption DEF Exists, AllLoops
  <2>2. CASE o \notin Sources
    BY <1>2, <2>2 DEF Exists, SharedSources
  <2> QED
    BY <2>1, <2>2
<1> HIDE DEF H, X
<1> SUFFICES ASSUME NEW o \in O
             PROVE  \/ /\ o \notin X /\ o \in X' /\ \E h \in AllHolders : H'[o] = {h}
                    \/ /\ o \in X /\ H[o] # {}
                       /\ \E h \in AllHolders \ H[o] : H'[o] = H[o] \cup {h}
                       /\ (o \in X') = (o \in X)
                    \/ /\ o \in X
                       /\ \E g \in H[o], h \in AllHolders \ H[o] : H'[o] = (H[o] \ {g}) \cup {h}
                       /\ (o \in X') = (o \in X)
                    \/ /\ o \in X /\ \E h \in H[o] : H'[o] = H[o] \ {h}
                       /\ (o \in X') = (o \in X)
                    \/ /\ o \in X /\ o \notin X' /\ H[o] = {} /\ H'[o] = {}
                    \/ H'[o] = H[o] /\ (o \in X') = (o \in X)
  BY DEF Shared!Next, Shared!Create, Shared!Share, Shared!Pass, Shared!Drop, Shared!Dispose,
         Shared!Stutter, Shared!Stays, H, X, AllHolders
<1>3. StepOf(o)
  OBVIOUS
<1> HIDE DEF O, Holding, Exists
<1> QED
  BY <1>1, <1>2, <1>3 DEF StepOf

\* A loop is closed once, and what is not idle is removed by its last handle.
Settled ==
    /\ closing # None => state[closing] = "alive"
    /\ \A s \in SharedSources : added[s] \in {"removed", "freed"} => SharedBy(s) = {}

SharedInv == UseInv /\ Settled

\* Sources stay what they are while nothing of them changes,
LEMMA SourceStays ==
    ASSUME NEW s \in Sources, source' = source,
           added'[s] \in {"active", "removed"} <=> added[s] \in {"active", "removed"}
    PROVE  StepOf(s)
<1>1. SharedBy(s)' = SharedBy(s)
  BY DEF SharedBy
<1> QED
  BY <1>1 DEF StepOf, Holding, Exists

\* and so do loops.
LEMMA LoopStays ==
    ASSUME NEW l \in AllLoops, HandlesOf(l)' = HandlesOf(l), display' = display,
           state'[l] = "alive" <=> state[l] = "alive"
    PROVE  StepOf(l)
<1>1. l \notin Sources
  BY NamesAssumption DEF AllLoops
<1> QED
  BY <1>1 DEF StepOf, Holding, Exists

\* Two handles exchange what they refer to.
LEMMA SwapIsStep ==
    ASSUME SharedInv, NEW h \in Handles, NEW g \in Handles, h # g,
           loop' = [loop EXCEPT ![h] = loop[g], ![g] = loop[h]],
           state' = state, display' = display, NEW l \in AllLoops
    PROVE  StepOf(l)
<1>1. l \notin Sources /\ l # None
  BY NamesAssumption DEF AllLoops
<1>2. loop' = [loop EXCEPT ![h] = loop[g], ![g] = loop[h]]
      /\ loop \in [Handles -> AllLoops \cup {None}]
  BY DEF SharedInv, UseInv, CountInv, LoopTypeOK
<1>3. Default \notin Handles
  BY NamesAssumption
<1>4. ASSUME NEW a \in Handles, NEW b \in Handles, loop[a] = l, loop[b] # l,
             HandlesOf(l)' = (HandlesOf(l) \ {a}) \cup {b}
      PROVE  StepOf(l)
  <2>1. /\ a \in HandlesOf(l) /\ b \notin HandlesOf(l) /\ b # Default /\ a # Default
        /\ a \in Holding(l) /\ b \in AllHolders \ Holding(l)
    BY <1>1, <1>3, <1>4 DEF Holding, HandlesOf, AllHolders
  <2>2. Holding(l)' = (Holding(l) \ {a}) \cup {b}
    BY <1>1, <1>4, <2>1 DEF Holding
  <2>3. Exists(l) /\ Exists(l)'
    BY <1>1, <1>4 DEF Exists, SharedInv, UseInv, NothingFreedInUse
  <2> QED
    BY <2>1, <2>2, <2>3 DEF StepOf
<1>5. CASE loop[h] = l /\ loop[g] # l
  <2>1. HandlesOf(l)' = (HandlesOf(l) \ {h}) \cup {g}
    BY <1>2, <1>5 DEF HandlesOf
  <2> QED
    BY <1>4, <1>5, <2>1
<1>6. CASE loop[h] # l /\ loop[g] = l
  <2>1. HandlesOf(l)' = (HandlesOf(l) \ {g}) \cup {h}
    BY <1>2, <1>6 DEF HandlesOf
  <2> QED
    BY <1>4, <1>6, <2>1
<1>7. CASE (loop[h] = l) = (loop[g] = l)
  <2>1. HandlesOf(l)' = HandlesOf(l)
    BY <1>2, <1>7 DEF HandlesOf
  <2> QED
    BY <2>1, LoopStays
<1> QED
  BY <1>5, <1>6, <1>7

\* A handle that referred to nothing, or to another loop, refers to this one,
LEMMA ShareIsStep ==
    ASSUME SharedInv, NEW l \in AllLoops, NEW h \in Handles, loop[h] # l,
           HandlesOf(l)' = HandlesOf(l) \cup {h},
           HandlesOf(l) # {} \/ (l = Default /\ display = "alive"),
           state[l] = "alive", state' = state, display' = display
    PROVE  StepOf(l)
<1>1. l \notin Sources /\ h # Default
  BY NamesAssumption DEF AllLoops
<1>2. h \in AllHolders \ Holding(l) /\ Holding(l) # {} /\ Holding(l)' = Holding(l) \cup {h}
  BY <1>1 DEF Holding, AllHolders, HandlesOf
<1>3. Exists(l) /\ Exists(l)'
  BY <1>1 DEF Exists
<1> QED
  BY <1>2, <1>3 DEF StepOf

\* or lets it go.
LEMMA DropIsStep ==
    ASSUME SharedInv, NEW l \in AllLoops, NEW h \in Handles, loop[h] = l,
           HandlesOf(l)' = HandlesOf(l) \ {h}, state' = state, display' = display
    PROVE  StepOf(l)
<1>1. l \notin Sources /\ l # None /\ h # Default
  BY NamesAssumption DEF AllLoops
<1>2. h \in Holding(l) /\ Holding(l)' = Holding(l) \ {h}
  BY <1>1 DEF Holding, HandlesOf
<1>3. Exists(l) /\ Exists(l)'
  BY <1>1 DEF Exists, SharedInv, UseInv, NothingFreedInUse
<1> QED
  BY <1>2, <1>3 DEF StepOf

\* The handles of a loop that is not there yet, or no longer.
LEMMA OnlyThere ==
    ASSUME SharedInv, NEW l \in AllLoops, state[l] # "alive"
    PROVE  HandlesOf(l) = {}
<1>1. l # None
  BY NamesAssumption DEF AllLoops
<1> QED
  BY <1>1 DEF HandlesOf, SharedInv, UseInv, NothingFreedInUse

\* What a program does with its handles is a step of each loop.
LEMMA LoopsStep ==
    ASSUME SharedInv, Habits = {}, LoopStep, NEW l \in AllLoops
    PROVE  StepOf(l)
<1>1. /\ loop \in [Handles -> AllLoops \cup {None}] /\ state \in [AllLoops -> {"none", "alive", "freed"}]
      /\ \A h \in Handles : loop[h] # None => state[loop[h]] = "alive"
      /\ display # "freed" => state[Default] = display
  BY DEF SharedInv, UseInv, CountInv, LoopTypeOK, NothingFreedInUse, EndsInOrder
<1>2. l \notin Sources /\ l # None /\ Default \notin Handles /\ Default \in AllLoops
  BY NamesAssumption DEF AllLoops
<1> USE DEF sourceVars, dispatchVars, otherVars, loopVars, handleVars
<1>3. ASSUME NEW h \in Handles, NEW k \in Loops, CreateLoop(h, k) PROVE StepOf(l)
  <2>1. /\ loop[h] = None /\ state[k] = "none" /\ k # Default /\ k \in AllLoops /\ display' = display
        /\ loop' = [loop EXCEPT ![h] = k] /\ state' = [state EXCEPT ![k] = "alive"]
    BY <1>3 DEF CreateLoop, Unused, AllLoops
  <2>2. CASE l = k
    <3>1. HandlesOf(l) = {}
      BY <2>1, <2>2, OnlyThere
    <3>2. HandlesOf(l)' = {h}
      BY <1>1, <2>1, <2>2, <3>1 DEF HandlesOf
    <3>3. Holding(l)' = {h} /\ h \in AllHolders /\ ~Exists(l) /\ Exists(l)'
      BY <1>1, <1>2, <2>1, <2>2, <3>2 DEF Holding, Exists, AllHolders
    <3> QED
      BY <3>3 DEF StepOf
  <2>3. CASE l # k
    <3>1. HandlesOf(l)' = HandlesOf(l) /\ state'[l] = state[l]
      BY <1>1, <1>2, <2>1, <2>3 DEF HandlesOf
    <3> QED
      BY <2>1, <3>1, LoopStays
  <2> QED
    BY <2>2, <2>3
<1>4. ASSUME NEW h \in Handles, GetEventLoop(h) PROVE StepOf(l)
  <2>1. /\ loop[h] = None /\ display = "alive" /\ display' = display
        /\ loop' = [loop EXCEPT ![h] = Default] /\ state' = state
    BY <1>4 DEF GetEventLoop, Unused
  <2>2. CASE l = Default
    <3>1. HandlesOf(l)' = HandlesOf(l) \cup {h} /\ loop[h] # l /\ state[l] = "alive"
      BY <1>1, <1>2, <2>1, <2>2 DEF HandlesOf
    <3> QED
      BY <2>1, <2>2, <3>1, ShareIsStep
  <2>3. CASE l # Default
    <3>1. HandlesOf(l)' = HandlesOf(l)
      BY <1>1, <1>2, <2>1, <2>3 DEF HandlesOf
    <3> QED
      BY <2>1, <3>1, LoopStays
  <2> QED
    BY <2>2, <2>3
<1>5. ASSUME NEW h \in Handles, DropLoop(h) PROVE StepOf(l)
  <2>1. /\ loop[h] # None /\ loop' = [loop EXCEPT ![h] = None]
        /\ state' = state /\ display' = display
    BY <1>5 DEF DropLoop
  <2>2. CASE loop[h] = l
    <3>1. HandlesOf(l)' = HandlesOf(l) \ {h}
      BY <1>1, <1>2, <2>1, <2>2 DEF HandlesOf
    <3> QED
      BY <2>1, <2>2, <3>1, DropIsStep
  <2>3. CASE loop[h] # l
    <3>1. HandlesOf(l)' = HandlesOf(l)
      BY <1>1, <1>2, <2>1, <2>3 DEF HandlesOf
    <3> QED
      BY <2>1, <3>1, LoopStays
  <2> QED
    BY <2>2, <2>3
<1>6. ASSUME NEW h \in Handles, NEW from \in Handles,
             CopyLoop(h, from) \/ AssignLoop(h, from)
      PROVE  StepOf(l)
  <2>1. /\ loop[from] # None /\ loop' = [loop EXCEPT ![h] = loop[from]]
        /\ state' = state /\ display' = display
    BY <1>6 DEF CopyLoop, AssignLoop
  <2>2. CASE loop[h] # l /\ loop[from] = l
    <3>1. /\ HandlesOf(l)' = HandlesOf(l) \cup {h} /\ HandlesOf(l) # {} /\ state[l] = "alive"
      BY <1>1, <1>2, <2>1, <2>2 DEF HandlesOf
    <3> QED
      BY <2>1, <2>2, <3>1, ShareIsStep
  <2>3. CASE loop[h] = l /\ loop[from] # l
    <3>1. HandlesOf(l)' = HandlesOf(l) \ {h}
      BY <1>1, <1>2, <2>1, <2>3 DEF HandlesOf
    <3> QED
      BY <2>1, <2>3, <3>1, DropIsStep
  <2>4. CASE (loop[h] = l) = (loop[from] = l)
    <3>1. HandlesOf(l)' = HandlesOf(l)
      BY <1>1, <1>2, <2>1, <2>4 DEF HandlesOf
    <3> QED
      BY <2>1, <3>1, LoopStays
  <2> QED
    BY <2>2, <2>3, <2>4
<1>7. ASSUME NEW h \in Handles, NEW from \in Handles,
             MoveLoop(h, from) \/ SwapLoops(h, from)
      PROVE  StepOf(l)
  <2>1. /\ h # from /\ loop' = [loop EXCEPT ![h] = loop[from], ![from] = loop[h]]
        /\ state' = state /\ display' = display
    BY <1>7 DEF MoveLoop, SwapLoops, Unused
  <2> QED
    BY <2>1, SwapIsStep
<1>8. ASSUME CreateDisplay PROVE StepOf(l)
  <2>1. /\ display = "none" /\ display' = "alive" /\ loop' = loop
        /\ state' = [state EXCEPT ![Default] = "alive"] /\ state[Default] = "none"
    BY <1>1, <1>8 DEF CreateDisplay
  <2>2. CASE l = Default
    <3>1. HandlesOf(l)' = {}
      BY <2>1, <2>2, OnlyThere DEF HandlesOf
    <3>2. Holding(l)' = {Default} /\ ~Exists(l) /\ Exists(l)' /\ Default \in AllHolders
      BY <1>1, <1>2, <2>1, <2>2, <3>1 DEF Holding, Exists, AllHolders
    <3> QED
      BY <3>2 DEF StepOf
  <2>3. CASE l # Default
    <3>1. Holding(l)' = Holding(l) /\ (Exists(l)' <=> Exists(l))
      BY <1>1, <1>2, <2>1, <2>3 DEF Holding, Exists, HandlesOf
    <3> QED
      BY <3>1 DEF StepOf
  <2> QED
    BY <2>2, <2>3
<1>9. ASSUME DestroyDisplay PROVE StepOf(l)
  <2>1. /\ display = "alive" /\ display' = "freed" /\ loop' = loop /\ state' = state
    BY <1>9 DEF DestroyDisplay
  <2>2. CASE l = Default
    <3>1. /\ Default \in Holding(l) /\ Holding(l)' = Holding(l) \ {Default}
          /\ Exists(l) /\ Exists(l)'
      BY <1>1, <1>2, <2>1, <2>2 DEF Holding, HandlesOf, Exists
    <3> QED
      BY <3>1 DEF StepOf
  <2>3. CASE l # Default
    <3>1. Holding(l)' = Holding(l) /\ (Exists(l)' <=> Exists(l))
      BY <1>1, <1>2, <2>1, <2>3 DEF Holding, Exists, HandlesOf
    <3> QED
      BY <3>1 DEF StepOf
  <2> QED
    BY <2>2, <2>3
<1> QED
  BY <1>3, <1>4, <1>5, <1>6, <1>7, <1>8, <1>9 DEF LoopStep

\* What it does with sources is a step of each of them that is not idle.
LEMMA SourcesStep ==
    ASSUME SharedInv, Habits = {}, SourceStep, NEW s \in SharedSources
    PROVE  StepOf(s)
<1>1. /\ source \in [SourceHandles -> Sources \cup {None, Null}]
      /\ added \in [Sources -> {"none", "active", "removed", "freed"}]
      /\ \A v \in SourceHandles :
            source[v] # Null /\ (source[v] \in Sources => added[source[v]] # "none")
      /\ added[s] \in {"removed", "freed"} => SharedBy(s) = {}
  BY DEF SharedInv, UseInv, CountInv, LoopTypeOK, SharedAreAdded, Settled
<1>2. s \in Sources /\ s # None /\ s # Null
  BY NamesAssumption DEF SharedSources
<1>3. ASSUME NEW v \in SourceHandles, NEW h \in Handles, NEW r \in Sources, AddSource(h, v, r)
      PROVE  StepOf(s)
  <2>1. /\ added[r] = "none" /\ added' = [added EXCEPT ![r] = "active"]
        /\ source[v] = None /\ source' = [source EXCEPT ![v] = r]
    BY <1>3 DEF AddSource, Free
  <2>2. CASE r = s
    <3>1. SharedBy(s) = {}
      BY <1>1, <1>2, <2>1, <2>2 DEF SharedBy
    <3>2. SharedBy(s)' = {v}
      BY <1>1, <2>1, <2>2, <3>1 DEF SharedBy
    <3>3. Holding(s)' = {v} /\ v \in AllHolders /\ ~Exists(s) /\ Exists(s)'
      BY <1>1, <1>2, <2>1, <2>2, <3>2 DEF Holding, Exists, AllHolders
    <3> QED
      BY <3>3 DEF StepOf
  <2>3. CASE r # s
    <3>1. SharedBy(s)' = SharedBy(s) /\ added'[s] = added[s]
      BY <1>1, <1>2, <2>1, <2>3 DEF SharedBy
    <3> QED
      BY <1>2, <3>1 DEF StepOf, Holding, Exists
  <2> QED
    BY <2>2, <2>3
<1>4. ASSUME NEW v \in SourceHandles, NEW from \in SourceHandles, CopySource(v, from)
      PROVE  StepOf(s)
  <2>1. /\ source[v] = None /\ source' = [source EXCEPT ![v] = source[from]] /\ added' = added
    BY <1>4 DEF CopySource, Free
  <2>2. CASE source[from] = s
    <3>1. /\ from \in SharedBy(s) /\ v \notin SharedBy(s)
          /\ SharedBy(s)' = SharedBy(s) \cup {v}
      BY <1>1, <1>2, <2>1, <2>2 DEF SharedBy
    <3>2. added[s] \in {"active", "removed"}
      BY <1>1, <1>2, <2>2, <3>1
    <3>3. /\ Holding(s) # {} /\ v \in AllHolders \ Holding(s)
          /\ Holding(s)' = Holding(s) \cup {v} /\ Exists(s) /\ Exists(s)'
      BY <1>2, <2>1, <3>1, <3>2 DEF Holding, Exists, AllHolders
    <3> QED
      BY <3>3 DEF StepOf
  <2>3. CASE source[from] # s
    <3>1. SharedBy(s)' = SharedBy(s)
      BY <1>1, <1>2, <2>1, <2>3 DEF SharedBy
    <3> QED
      BY <1>2, <2>1, <3>1 DEF StepOf, Holding, Exists
  <2> QED
    BY <2>2, <2>3
<1>5. ASSUME NEW v \in SourceHandles, DropSource(v) PROVE StepOf(s)
  <2>1. /\ source[v] \in Sources /\ source' = [source EXCEPT ![v] = None]
        /\ \/ added' = added
           \/ added' = [added EXCEPT ![source[v]] = IF @ = "active" THEN "removed" ELSE @]
    BY <1>1, <1>5 DEF DropSource, Free, deleter, wl_event_source_remove
  <2>2. added'[s] \in {"active", "removed"} <=> added[s] \in {"active", "removed"}
    <3>1. CASE added' = added
      BY <3>1
    <3>2. CASE added' = [added EXCEPT ![source[v]] = IF @ = "active" THEN "removed" ELSE @]
      <4>1. added'[s] = added[s] \/ (added[s] = "active" /\ added'[s] = "removed")
        BY <1>1, <1>2, <3>2
      <4> QED
        BY <4>1
    <3> QED
      BY <2>1, <3>1, <3>2
  <2>3. CASE source[v] = s
    <3>1. v \in SharedBy(s) /\ SharedBy(s)' = SharedBy(s) \ {v}
      BY <1>1, <1>2, <2>1, <2>3 DEF SharedBy
    <3>2. added[s] \in {"active", "removed"}
      BY <1>1, <1>2, <2>3, <3>1
    <3>3. v \in Holding(s) /\ Holding(s)' = Holding(s) \ {v} /\ Exists(s) /\ Exists(s)'
      BY <1>2, <2>2, <3>1, <3>2 DEF Holding, Exists
    <3> QED
      BY <3>3 DEF StepOf
  <2>4. CASE source[v] # s
    <3>1. SharedBy(s)' = SharedBy(s)
      BY <1>1, <1>2, <2>1, <2>4 DEF SharedBy
    <3> QED
      BY <1>2, <2>2, <3>1 DEF StepOf, Holding, Exists
  <2> QED
    BY <2>3, <2>4
<1> QED
  BY <1>3, <1>4, <1>5 DEF SourceStep

\* libwayland frees what was removed, or what was closed.
LEMMA FreedIsStep ==
    ASSUME SharedInv, NEW s \in SharedSources, source' = source, NEW l,
           added' = [r \in Sources |-> IF of[r] = l /\ added[r] = "removed"
                                       THEN "freed" ELSE added[r]]
    PROVE  StepOf(s)
<1>1. s \in Sources /\ SharedBy(s)' = SharedBy(s)
  BY DEF SharedSources, SharedBy
<1>2. CASE added'[s] = added[s]
  BY <1>1, <1>2 DEF StepOf, Holding, Exists
<1>3. CASE added[s] = "removed" /\ added'[s] = "freed"
  <2>1. SharedBy(s) = {}
    BY <1>3 DEF SharedInv, Settled
  <2>2. Holding(s) = {} /\ Holding(s)' = {} /\ Exists(s) /\ ~Exists(s)'
    BY <1>1, <1>3, <2>1 DEF Holding, Exists
  <2> QED
    BY <2>2 DEF StepOf
<1> QED
  BY <1>1, <1>2, <1>3

LEMMA CloseIsStep ==
    ASSUME SharedInv, DestroyLoop, NEW l \in AllLoops
    PROVE  StepOf(l)
<1>1. /\ state \in [AllLoops -> {"none", "alive", "freed"}] /\ closing \in AllLoops
      /\ state[closing] = "alive" /\ HandlesOf(closing) = {}
      /\ closing = Default => display = "freed"
  BY DEF SharedInv, Settled, UseInv, CountInv, LoopTypeOK, EndsInOrder, DestroyLoop
<1>2. loop' = loop /\ display' = display /\ state' = [state EXCEPT ![closing] = "freed"]
  BY DEF DestroyLoop, handleVars
<1>3. l \notin Sources /\ HandlesOf(l)' = HandlesOf(l)
  BY <1>2, NamesAssumption DEF AllLoops, HandlesOf
<1>4. CASE closing = l
  <2>2. HandlesOf(l) = {} /\ HandlesOf(l)' = {}
    BY <1>1, <1>3, <1>4
  <2>3. l = Default => display # "alive" /\ display' # "alive"
    BY <1>1, <1>2, <1>4
  <2>4. Holding(l) = {} /\ Holding(l)' = {}
    BY <1>3, <2>2, <2>3 DEF Holding
  <2>5. state[l] = "alive" /\ state'[l] = "freed"
    BY <1>1, <1>2, <1>4
  <2>6. Exists(l) /\ ~Exists(l)'
    BY <1>3, <2>5 DEF Exists
  <2> QED
    BY <2>4, <2>6 DEF StepOf
<1>5. CASE closing # l
  <2>1. state'[l] = state[l]
    BY <1>1, <1>2, <1>5
  <2> QED
    BY <1>2, <1>3, <2>1, LoopStays
<1> QED
  BY <1>4, <1>5

\* Whatever happens is a step of each loop and of each source that is not idle.
LEMMA EachSteps ==
    ASSUME SharedInv, Habits = {}, [Next]_vars
    PROVE  \A o \in AllLoops \cup SharedSources : StepOf(o)
<1> USE DEF sourceVars, dispatchVars, otherVars, loopVars, handleVars
<1>1. CASE LoopStep
  <2>1. source' = source /\ added' = added
    BY <1>1 DEF LoopStep, CreateLoop, GetEventLoop, CopyLoop, AssignLoop, MoveLoop, SwapLoops,
                DropLoop, CreateDisplay, DestroyDisplay
  <2> QED
    BY <1>1, <2>1, LoopsStep, SourceStays DEF SharedSources
<1>2. CASE SourceStep
  <2>1. UNCHANGED <<loop, display, state>>
    BY <1>2 DEF SourceStep, AddSource, CopySource, DropSource
  <2>2. \A l : HandlesOf(l)' = HandlesOf(l)
    BY <2>1 DEF HandlesOf
  <2> QED
    BY <1>2, <2>1, <2>2, SourcesStep, LoopStays
<1>3. CASE DestroyLoop
  <2>1. \A l \in AllLoops : StepOf(l)
    BY <1>3, CloseIsStep
  <2>2. PICK k : k = closing
    OBVIOUS
  <2>3. /\ source' = source
        /\ added' = [r \in Sources |-> IF of[r] = k /\ added[r] = "removed"
                                       THEN "freed" ELSE added[r]]
    BY <1>3, <2>2 DEF DestroyLoop
  <2> QED
    BY <2>1, <2>3, FreedIsStep
<1>4. CASE ProcessDestroyList
  <2>1. PICK k : k = current
    OBVIOUS
  <2>2. /\ UNCHANGED <<loop, display, state, source>>
        /\ added' = [r \in Sources |-> IF of[r] = k /\ added[r] = "removed"
                                       THEN "freed" ELSE added[r]]
    BY <1>4, <2>1 DEF ProcessDestroyList
  <2>3. \A l : HandlesOf(l)' = HandlesOf(l)
    BY <2>2 DEF HandlesOf
  <2> QED
    BY <2>2, <2>3, FreedIsStep, LoopStays
<1>5. CASE \/ Poll \/ DispatchReturns
           \/ \E s \in Sources : RunIdle(s) \/ RunReady(s) \/ Arrives(s)
           \/ \E l \in AllLoops : Dispatch(l)
  <2>1. UNCHANGED <<loop, display, state, source, added>>
    BY <1>5 DEF Poll, DispatchReturns, RunIdle, RunReady, Arrives, Dispatch
  <2>2. \A l : HandlesOf(l)' = HandlesOf(l)
    BY <2>1 DEF HandlesOf
  <2> QED
    BY <2>1, <2>2, SourceStays, LoopStays DEF SharedSources
<1>6. CASE HandlerReturns
  <2>1. UNCHANGED <<loop, display, state, source>>
    BY <1>6 DEF HandlerReturns
  <2>2. \A l : HandlesOf(l)' = HandlesOf(l)
    BY <2>1 DEF HandlesOf
  <2>3. ASSUME NEW s \in SharedSources PROVE added'[s] = added[s]
    BY <1>6 DEF HandlerReturns, wl_event_source_remove, SharedSources,
                SharedInv, UseInv, CountInv, LoopTypeOK
  <2> QED
    BY <2>1, <2>2, <2>3, SourceStays, LoopStays DEF SharedSources
<1>7. CASE UNCHANGED vars
  <2>1. UNCHANGED <<loop, display, state, source, added>>
    BY <1>7 DEF vars
  <2>2. \A l : HandlesOf(l)' = HandlesOf(l)
    BY <2>1 DEF HandlesOf
  <2> QED
    BY <2>1, <2>2, SourceStays, LoopStays DEF SharedSources
<1> QED
  BY <1>1, <1>2, <1>3, <1>4, <1>5, <1>6, <1>7 DEF Next, LibraryStep

LEMMA SettledInductive ==
    ASSUME SharedInv, Habits = {}, [Next]_vars
    PROVE  Settled'
<1> USE DEF sourceVars, dispatchVars, otherVars, loopVars, handleVars
<1>1. /\ source \in [SourceHandles -> Sources \cup {None, Null}]
      /\ added \in [Sources -> {"none", "active", "removed", "freed"}]
      /\ state \in [AllLoops -> {"none", "alive", "freed"}]
      /\ loop \in [Handles -> AllLoops \cup {None}]
      /\ \A h \in Handles : loop[h] # None => state[loop[h]] = "alive"
      /\ display # "freed" => state[Default] = display
      /\ \A v \in SourceHandles :
            source[v] # Null /\ (source[v] \in Sources => added[source[v]] # "none")
  BY DEF SharedInv, UseInv, CountInv, LoopTypeOK, SharedAreAdded, NothingFreedInUse, EndsInOrder
<1>2. ASSUME closing' # None PROVE state'[closing'] = "alive"
  <2>1. CASE closing' = closing
    <3>1. state' = state
      <4>1. closing # None /\ ~DestroyLoop /\ ~ProgramRuns
        BY <1>2, <2>1 DEF DestroyLoop, ProgramRuns
      <4> QED
        BY <4>1 DEF vars, Next, LoopStep, SourceStep, LibraryStep, CreateLoop, CreateDisplay,
              GetEventLoop, CopyLoop, AssignLoop, MoveLoop, SwapLoops, DropLoop, DestroyDisplay,
              AddSource, CopySource, DropSource, Poll, ProcessDestroyList, DispatchReturns,
              HandlerReturns, RunIdle, RunReady, Arrives, Dispatch
    <3> QED
      BY <1>2, <2>1, <3>1 DEF SharedInv, Settled
  <2>2. CASE closing' # closing
    <3>1. CASE DestroyDisplay
      BY <1>1, <3>1 DEF DestroyDisplay
    <3>2. ASSUME NEW h \in Handles, DropLoop(h) \/ \E from \in Handles : AssignLoop(h, from)
          PROVE  state'[closing'] = "alive"
      <4>1. loop[h] # None /\ closing' = loop[h] /\ state' = state
        BY <1>2, <2>2, <3>2 DEF DropLoop, AssignLoop, fini
      <4> QED
        BY <1>1, <4>1
    <3> QED
      BY <1>2, <2>2, <3>1, <3>2
         DEF vars, Next, LoopStep, SourceStep, LibraryStep, CreateLoop, CreateDisplay,
             GetEventLoop, CopyLoop, MoveLoop, SwapLoops, DestroyLoop,
             AddSource, CopySource, DropSource, Poll, ProcessDestroyList, DispatchReturns,
             HandlerReturns, RunIdle, RunReady, Arrives, Dispatch
  <2> QED
    BY <2>1, <2>2
<1>3. ASSUME NEW s \in SharedSources, added'[s] \in {"removed", "freed"}
      PROVE  SharedBy(s)' = {}
  <2>1. s \in Sources /\ s # None /\ (added[s] \in {"removed", "freed"} => SharedBy(s) = {})
    BY NamesAssumption DEF SharedInv, Settled, SharedSources
  <2>2. CASE source' = source
    <3>1. added[s] \in {"removed", "freed"}
      BY <1>1, <1>3, <2>1, <2>2
         DEF vars, Next, LoopStep, SourceStep, LibraryStep, CreateLoop, CreateDisplay,
             GetEventLoop, CopyLoop, AssignLoop, MoveLoop, SwapLoops, DropLoop, DestroyDisplay,
             AddSource, CopySource, DropSource, Free, DestroyLoop, Poll, ProcessDestroyList,
             DispatchReturns, HandlerReturns, wl_event_source_remove, RunIdle, RunReady, Arrives,
             Dispatch, SharedSources
    <3> QED
      BY <2>1, <2>2, <3>1 DEF SharedBy
  <2>3. CASE SourceStep
    <3>1. ASSUME NEW v \in SourceHandles, NEW h \in Handles, NEW r \in Sources,
                 AddSource(h, v, r)
          PROVE  SharedBy(s)' = {}
      BY <1>1, <1>3, <2>1, <3>1 DEF AddSource, Free, SharedBy
    <3>2. ASSUME NEW v \in SourceHandles, NEW from \in SourceHandles, CopySource(v, from)
          PROVE  SharedBy(s)' = {}
      BY <1>1, <1>3, <2>1, <3>2 DEF CopySource, Free, SharedBy
    <3>3. ASSUME NEW v \in SourceHandles, DropSource(v) PROVE SharedBy(s)' = {}
      <4>1. source' = [source EXCEPT ![v] = None] /\ source[v] \in Sources
        BY <1>1, <3>3 DEF DropSource, Free
      <4>2. SharedBy(s)' = SharedBy(s) \ {v}
        BY <1>1, <2>1, <4>1 DEF SharedBy
      <4>3. CASE last(v) /\ source[v] = s
        BY <4>2, <4>3 DEF last
      <4>4. CASE ~(last(v) /\ source[v] = s)
        <5>1. added'[s] = added[s]
          BY <1>1, <2>1, <3>3, <4>1, <4>4 DEF DropSource, deleter, wl_event_source_remove
        <5> QED
          BY <1>3, <2>1, <4>2, <5>1
      <4> QED
        BY <4>3, <4>4
    <3> QED
      BY <2>3, <3>1, <3>2, <3>3 DEF SourceStep
  <2>4. ~SourceStep => source' = source
    BY DEF vars, Next, LoopStep, LibraryStep, CreateLoop, CreateDisplay,
           GetEventLoop, CopyLoop, AssignLoop, MoveLoop, SwapLoops, DropLoop, DestroyDisplay,
           DestroyLoop, Poll, ProcessDestroyList, DispatchReturns, HandlerReturns,
           RunIdle, RunReady, Arrives, Dispatch
  <2> QED
    BY <2>2, <2>3, <2>4
<1> QED
  BY <1>2, <1>3 DEF Settled

\* The safety part of ImplementsSharedObject: event_loop_t and event_source_t
\* take up loops and sources only from a holder, and libwayland frees them
\* without holders, once; also when handlers drop, remove and assign what
\* they run for.  The display is a holder of its loop.
THEOREM EventLoopImplements ==
    ASSUME Habits = {}
    PROVE  Spec => Shared!Init /\ [][Shared!Next]_(Shared!vars)
<1>1. Init => Shared!Init
  <2> SUFFICES ASSUME Init PROVE Shared!Init
    OBVIOUS
  <2>1. /\ \A o \in Sources : SharedBy(o) = {}
        /\ \A o \in AllLoops : HandlesOf(o) = {} /\ o \notin Sources
    BY NamesAssumption DEF Init, SharedBy, HandlesOf, AllLoops
  <2>2. /\ \A o \in AllLoops : state[o] # "alive" /\ display # "alive"
        /\ \A o \in Sources : added[o] \notin {"active", "removed"}
    BY DEF Init
  <2> QED
    BY <2>1, <2>2 DEF Shared!Init, SharedSources
<1>2. SharedInv /\ [Next]_vars => [Shared!Next]_(Shared!vars)
  <2> SUFFICES ASSUME SharedInv, [Next]_vars PROVE Shared!Next
    OBVIOUS
  <2> QED
    BY EachSteps, StepsRefine
<1>3. Spec => []SharedInv
  <2>1. Init => SharedInv
    <3>1. Init => Settled
      BY DEF Init, Settled, SharedSources
    <3> QED
      BY <3>1, UseInit DEF SharedInv
  <2>2. SharedInv /\ [Next]_vars => SharedInv'
    BY UseInductive, SettledInductive DEF SharedInv
  <2> QED
    BY <2>1, <2>2, PTL DEF Spec
<1> QED
  BY <1>1, <1>2, <1>3, PTL DEF Spec
=============================================================================
