------------------------ MODULE ServerDisplayProofs ------------------------
(***************************************************************************)
(* Proofs about ServerDisplay, for any number of handles, globals and      *)
(* clients: counters are exact, the display and its globals are destroyed  *)
(* once, after their users, and nothing freed is used; and they are        *)
(* SharedObjects.                                                          *)
(***************************************************************************)
EXTENDS ServerDisplay, FiniteSetTheorems, SequenceTheorems, TLAPS

Asking == {"announce", "withdraw", "destroy"}

\* What a call is about.
AboutOK(f) ==
    /\ f.op # "on_client_destroy" => f.client = None
    /\ f.op \in Asking \cup {"filter", "on_bind"} => f.global \in Globals
    /\ f.op \in {"clients", "on_destroy", "on_client_destroy"} => f.global = None

\* Which calls are nested in which: the filter is asked by one call, and calls
\* nothing; clients are told in the teardown of the display, or by themselves.
Shape ==
    \A i \in DOMAIN calls :
       /\ AboutOK(calls[i])
       /\ calls[i].op = "filter" => i = Len(calls)
       /\ calls[i].op \in Asking => \A j \in DOMAIN calls :
             j > i => calls[j].op = "filter" /\ calls[j].global = calls[i].global
       /\ calls[i].op \in {"clients", "on_destroy", "on_bind"} => i = 1
       /\ calls[i].op = "on_client_destroy" => i = 1 \/ (i = 2 /\ calls[1].op = "clients")

\* The teardown of the display.
DisplayOK ==
    /\ DisplayCounted
    /\ destroys = IF display = "freed" THEN 1 ELSE 0
    /\ display # "alive" => displays = {} /\ clients = {} /\ calls = <<>>
    /\ \A i \in DOMAIN calls :
          calls[i].op \in {"clients", "on_destroy"} => displays = {} /\ clients = {}

\* A global that is being destroyed, and one that a call counts on.
Ending(g) == \E i \in DOMAIN calls : calls[i].op = "destroy" /\ calls[i].global = g
Used(g)   == \E i \in DOMAIN calls : calls[i].op \in {"announce", "withdraw", "on_bind"}
                                     /\ calls[i].global = g

\* The life of a global.
GlobalOK(g) ==
    /\ state[g] = "alive" =>
          /\ gcounter[g] = Cardinality(HandlesOf(g)) + (IF Temporaries(g) = {} THEN 0 ELSE 1)
          /\ display = "alive" /\ (g \in userData \/ Ending(g))
    /\ state[g] # "alive" => /\ HandlesOf(g) = {} /\ g \notin userData
                             /\ \A i \in DOMAIN calls : calls[i].global # g
    /\ gdestroys[g] = IF state[g] = "freed" THEN 1 ELSE 0
    /\ g \in userData => gcounter[g] >= 1
    /\ Ending(g) => gcounter[g] = 0 /\ g \notin userData
    /\ Used(g) => HandlesOf(g) # {}
    /\ \A i, j \in DOMAIN calls :
          calls[i].op = "destroy" /\ calls[i].global = g /\ j < i => calls[j].global # g

GlobalsOK == \A g \in Globals : GlobalOK(g)

SdInv == SdTypeOK /\ Shape /\ DisplayOK /\ GlobalsOK
-----------------------------------------------------------------------------
\* The program has finitely many handles, so those of a global can be counted.
LEMMA HandlesFinite ==
    ASSUME SdTypeOK, NEW g
    PROVE  IsFiniteSet(HandlesOf(g)) /\ Cardinality(HandlesOf(g)) \in Nat
           /\ (Cardinality(HandlesOf(g)) = 0 <=> HandlesOf(g) = {})
<1>1. SdTypeOK => HandlesOf(g) \subseteq GlobalHandles
  BY DEF SdTypeOK, HandlesOf
<1> QED
  BY <1>1, FiniteAssumption, FS_Subset, FS_CardinalityType, FS_EmptySet
-----------------------------------------------------------------------------
(* The call stack *)

\* Calls on the stack stay where they are when one is put on it ...
LEMMA PushFacts ==
    ASSUME NEW s \in Seq(Frame), NEW f \in Frame
    PROVE  /\ Append(s, f) \in Seq(Frame) /\ Append(s, f) # <<>>
           /\ Len(Append(s, f)) = Len(s) + 1 /\ Len(s) \in Nat
           /\ DOMAIN s = 1..Len(s) /\ DOMAIN Append(s, f) = 1..Len(s) + 1
           /\ Append(s, f)[Len(s) + 1] = f
           /\ \A i \in 1..Len(s) : Append(s, f)[i] = s[i]
OBVIOUS

\* ... and when the last one returns.
LEMMA PopFacts ==
    ASSUME NEW s \in Seq(Frame), s # <<>>
    PROVE  /\ SubSeq(s, 1, Len(s) - 1) \in Seq(Frame)
           /\ Len(SubSeq(s, 1, Len(s) - 1)) = Len(s) - 1 /\ Len(s) \in Nat \ {0}
           /\ DOMAIN s = 1..Len(s) /\ DOMAIN SubSeq(s, 1, Len(s) - 1) = 1..Len(s) - 1
           /\ \A i \in 1..Len(s) - 1 : SubSeq(s, 1, Len(s) - 1)[i] = s[i]
<1>1. Len(s) \in Nat \ {0} /\ DOMAIN s = 1..Len(s)
  BY EmptySeq
<1>2. Len(s) - 1 \in 1 - 1 .. Len(s)
  BY <1>1
<1> QED
  BY <1>1, <1>2, SubSeqProperties

\* The constructor of calls gives calls.
LEMMA CallingFrame ==
    ASSUME NEW op \in Library \cup Handlers, NEW g \in Globals \cup {None}, NEW left \in SUBSET Clients
    PROVE  /\ Calling(op, g, left) \in Frame
           /\ Calling(op, g, left).op = op /\ Calling(op, g, left).global = g
           /\ Calling(op, g, left).client = None /\ Calling(op, g, left).hasData = FALSE
           /\ \A c \in Clients : LET f == [Calling(op, g, left) EXCEPT !.client = c]
                                 IN /\ f \in Frame /\ f.op = op /\ f.global = g
                                    /\ f.client = c /\ ~f.hasData
           /\ \A d \in BOOLEAN : LET f == [Calling(op, g, left) EXCEPT !.hasData = d]
                                 IN /\ f \in Frame /\ f.op = op /\ f.global = g
                                    /\ f.client = None /\ f.hasData = d
BY DEF Calling, Frame

\* A call that still has clients to ask or to destroy, with one less.
LEMMA LeftFrame ==
    ASSUME NEW f \in Frame, NEW c
    PROVE  LET t == [f EXCEPT !.left = @ \ {c}]
           IN /\ t \in Frame /\ t.op = f.op /\ t.global = f.global
              /\ t.client = f.client /\ t.hasData = f.hasData
BY DEF Frame

\* The call on top is one of the stack.
LEMMA TopFrame ==
    ASSUME SdTypeOK, calls # <<>>
    PROVE  Top \in Frame /\ Len(calls) \in DOMAIN calls /\ Top = calls[Len(calls)]
BY PopFacts DEF SdTypeOK, Top

\* Registries are of clients.
LEMMA RegistriesType == SdTypeOK => Registries \in SUBSET Clients
<1> SUFFICES ASSUME SdTypeOK PROVE Registries \subseteq Clients
  OBVIOUS
<1>1. \A i \in DOMAIN calls : calls[i] \in Frame
  BY DEF SdTypeOK
<1>2. \A i \in DOMAIN calls : calls[i].left \subseteq Clients
                              /\ calls[i].client \in Clients \cup {None}
  BY <1>1 DEF Frame
<1>3. clients \subseteq Clients
  BY DEF SdTypeOK
<1>4. UNION {calls[i].left : i \in {j \in DOMAIN calls : calls[j].op = "clients"}} \subseteq Clients
  BY <1>2
<1>5. {calls[i].client : i \in DOMAIN calls} \ {None} \subseteq Clients
  BY <1>2
<1> QED
  BY <1>3, <1>4, <1>5 DEF Registries
-----------------------------------------------------------------------------
(* Types *)

\* What the top of the stack may be replaced by, and what may be put on it.
LEMMA StackType ==
    ASSUME SdTypeOK
    PROVE  /\ \A f \in Frame : Append(calls, f) \in Seq(Frame)
           /\ calls # <<>> => Below \in Seq(Frame)
           /\ calls # <<>> => \A f \in Frame : Append(Below, f) \in Seq(Frame)
           /\ calls # <<>> => \A f, e \in Frame : Append(Append(Below, f), e) \in Seq(Frame)
BY PushFacts, PopFacts DEF SdTypeOK, Below

\* fini() of a global's handle keeps the types ...
LEMMA FiniType ==
    ASSUME SdTypeOK, NEW g \in Globals, NEW hasData, NEW rest \in Seq(Frame), Fini(g, hasData, rest)
    PROVE  gcounter' \in [Globals -> Int] /\ userData' \in SUBSET Globals /\ calls' \in Seq(Frame)
<1>1. gcounter' \in [Globals -> Int] /\ userData' \in SUBSET Globals
  BY DEF Fini, Counting, SdTypeOK
<1>2. Calling("destroy", g, IF g \in removed THEN {} ELSE Registries) \in Frame
  BY RegistriesType, CallingFrame DEF Library
<1> QED
  BY <1>1, <1>2, PushFacts DEF Fini

\* ... and so does the call of the filter.
LEMMA CallFilterType ==
    ASSUME SdTypeOK, NEW g \in Globals, NEW rest \in Seq(Frame), CallFilter(g, rest)
    PROVE  SdTypeOK'
<1>1. \A d \in BOOLEAN : [Calling("filter", g, {}) EXCEPT !.hasData = d] \in Frame
  BY CallingFrame DEF Handlers
<1>2. calls' \in Seq(Frame)
  <2>1. (g \in userData) \in BOOLEAN
    OBVIOUS
  <2>2. [Calling("filter", g, {}) EXCEPT !.hasData = g \in userData] \in Frame
    BY <1>1, <2>1, Zenon
  <2> QED
    BY <2>2, PushFacts DEF CallFilter
<1>3. gcounter' \in [Globals -> Int]
  BY DEF CallFilter, Counting, SdTypeOK
<1> QED
  BY <1>2, <1>3 DEF CallFilter, displayVars, handleVars, SdTypeOK

\* Calls about globals have one.
LEMMA GlobalOfTop ==
    ASSUME SdTypeOK, Shape, On(Asking \cup {"filter", "on_bind"})
    PROVE  Top.global \in Globals /\ calls # <<>>
BY TopFrame DEF Shape, On, AboutOK

\* A display that nobody asks for while it is torn down is found by its pointer.
LEMMA WrapFinds ==
    ASSUME "late_display" \notin Habits, NEW h \in Handles, WrapDisplay(h)
    PROVE  calls' = calls /\ counter' = counter + 1 /\ counter > 0
BY DEF WrapDisplay

\* Every step keeps the types.
LEMMA TypeStep ==
    ASSUME "late_display" \notin Habits, SdTypeOK, Shape, [Next]_vars
    PROVE  SdTypeOK'
<1> USE DEF displayVars, handleVars, globalVars
<1>1. CASE UNCHANGED vars
  BY <1>1 DEF vars, SdTypeOK
<1>2. ASSUME NEW h \in Handles, CreateDisplay(h) \/ CopyDisplay(h) \/ WrapDisplay(h) PROVE SdTypeOK'
  BY <1>2, WrapFinds DEF CreateDisplay, CopyDisplay, WrapDisplay, SdTypeOK
<1>3. ASSUME NEW h \in Handles, DropDisplay(h) PROVE SdTypeOK'
  <2>1. Calling("clients", None, clients) \in Frame
    BY CallingFrame DEF SdTypeOK, Library
  <2>2. calls' \in Seq(Frame) /\ clients' \in SUBSET Clients
    BY <1>3, <2>1, StackType DEF DropDisplay, Push, SdTypeOK
  <2> QED
    BY <1>3, <2>2 DEF DropDisplay, SdTypeOK
<1>4. ASSUME NEW h \in GlobalHandles, NEW g \in Globals, NewGlobal(h, g) PROVE SdTypeOK'
  <2>1. Calling("announce", g, Registries) \in Frame
    BY CallingFrame, RegistriesType DEF Library
  <2>2. calls' \in Seq(Frame)
    BY <1>4, <2>1, StackType DEF NewGlobal, Push
  <2>3. global' \in [GlobalHandles -> Globals \cup {None}]
        /\ withData' \in SUBSET {k \in GlobalHandles : global'[k] # None}
    BY <1>4, NoneAssumption DEF NewGlobal, SdTypeOK
  <2> QED
    BY <1>4, <2>2, <2>3 DEF NewGlobal, SdTypeOK
<1>5. ASSUME NEW h \in GlobalHandles, NEW from \in GlobalHandles, CopyGlobal(h, from) PROVE SdTypeOK'
  <2>1. global' \in [GlobalHandles -> Globals \cup {None}]
        /\ withData' \in SUBSET {k \in GlobalHandles : global'[k] # None}
    BY <1>5 DEF CopyGlobal, SdTypeOK
  <2>2. gcounter' \in [Globals -> Int]
    BY <1>5 DEF CopyGlobal, Counting, SdTypeOK
  <2> QED
    BY <1>5, <2>1, <2>2 DEF CopyGlobal, SdTypeOK
<1>6. ASSUME NEW h \in GlobalHandles, DropGlobal(h) PROVE SdTypeOK'
  <2>1. global' \in [GlobalHandles -> Globals \cup {None}]
        /\ withData' \in SUBSET {k \in GlobalHandles : global'[k] # None}
    BY <1>6 DEF DropGlobal, SdTypeOK
  <2>2. global[h] \in Globals /\ calls \in Seq(Frame)
    BY <1>6 DEF DropGlobal, SdTypeOK
  <2>3. gcounter' \in [Globals -> Int] /\ userData' \in SUBSET Globals /\ calls' \in Seq(Frame)
    BY <1>6, <2>2, FiniType DEF DropGlobal
  <2> QED
    BY <1>6, <2>1, <2>3 DEF DropGlobal, SdTypeOK
<1>7. ASSUME NEW h \in GlobalHandles, RemoveGlobal(h) PROVE SdTypeOK'
  <2>1. global[h] \in Globals
    BY <1>7 DEF RemoveGlobal, SdTypeOK
  <2>2. Calling("withdraw", global[h], Registries) \in Frame
    BY <2>1, CallingFrame, RegistriesType DEF Library
  <2>3. calls' \in Seq(Frame)
    BY <1>7, <2>2, StackType DEF RemoveGlobal, Push
  <2> QED
    BY <1>7, <2>3 DEF RemoveGlobal, SdTypeOK
<1>8. ASSUME NEW h \in GlobalHandles, FilterKeeps(h) PROVE SdTypeOK'
  <2>1. Top.global \in Globals
    BY <1>8, GlobalOfTop DEF FilterKeeps, On
  <2>2. global' \in [GlobalHandles -> Globals \cup {None}]
        /\ withData' \in SUBSET {k \in GlobalHandles : global'[k] # None}
    BY <1>8, <2>1, NoneAssumption DEF FilterKeeps, SdTypeOK
  <2>3. gcounter' \in [Globals -> Int]
    <3>1. CASE Top.hasData
      BY <1>8, <2>1, <3>1 DEF FilterKeeps, Counting, SdTypeOK
    <3>2. CASE ~Top.hasData
      BY <1>8, <3>2 DEF FilterKeeps, Counting, SdTypeOK
    <3> QED
      BY <3>1, <3>2
  <2> QED
    BY <1>8, <2>2, <2>3 DEF FilterKeeps, SdTypeOK
<1>9. ASSUME NEW c \in Clients, Connect(c) \/ Disconnect(c) PROVE SdTypeOK'
  <2>1. [Calling("on_client_destroy", None, {}) EXCEPT !.client = c] \in Frame
    BY CallingFrame DEF Handlers
  <2>2. calls' \in Seq(Frame)
    <3>1. \A f \in Frame : <<>> \o <<f>> \in Seq(Frame)
      OBVIOUS
    <3> QED
      BY <1>9, <2>1, <3>1 DEF Connect, Disconnect, DestroyClient, SdTypeOK
  <2> QED
    BY <1>9, <2>2 DEF Connect, Disconnect, SdTypeOK
<1>10. ASSUME NEW g \in Globals, ListGlobal(g) PROVE SdTypeOK'
  <2>1. calls \in Seq(Frame)
    BY DEF SdTypeOK
  <2> QED
    BY <1>10, <2>1, CallFilterType DEF ListGlobal
<1>11. ASSUME NEW g \in Globals, Bind(g) PROVE SdTypeOK'
  <2>1. Calling("on_bind", g, {}) \in Frame
    BY CallingFrame DEF Handlers
  <2> QED
    BY <1>11, <2>1, StackType DEF Bind, Push, SdTypeOK
<1>12. ASSUME NEW c \in Clients, DestroyNextClient(c) PROVE SdTypeOK'
  <2>1. calls # <<>> /\ Top \in Frame
    BY <1>12, TopFrame DEF DestroyNextClient, On
  <2>2. [Calling("on_client_destroy", None, {}) EXCEPT !.client = c] \in Frame
    BY CallingFrame DEF Handlers
  <2>3. Append(Below, [Top EXCEPT !.left = @ \ {c}]) \in Seq(Frame)
    BY <2>1, LeftFrame, StackType
  <2>4. calls' \in Seq(Frame)
    BY <1>12, <2>2, <2>3 DEF DestroyNextClient, DestroyClient
  <2> QED
    BY <1>12, <2>4 DEF DestroyNextClient, SdTypeOK
<1>13. ASSUME NEW c \in Clients, AskFilter(c) PROVE SdTypeOK'
  <2>1. calls # <<>> /\ Top \in Frame /\ Top.global \in Globals
    BY <1>13, TopFrame, GlobalOfTop DEF AskFilter, On, Asking
  <2>2. Append(Below, [Top EXCEPT !.left = @ \ {c}]) \in Seq(Frame)
    BY <2>1, LeftFrame, StackType
  <2> QED
    BY <1>13, <2>1, <2>2, CallFilterType DEF AskFilter
<1>14. CASE DestroyDisplay
  <2>1. calls # <<>> /\ Calling("on_destroy", None, {}) \in Frame
    BY <1>14, CallingFrame DEF DestroyDisplay, On, Handlers
  <2>2. calls' \in Seq(Frame)
    BY <1>14, <2>1, StackType DEF DestroyDisplay
  <2> QED
    BY <1>14, <2>2 DEF DestroyDisplay, SdTypeOK
<1>15. CASE FreeDisplay \/ HandlerReturns
  <2>1. calls' \in Seq(Frame)
    BY <1>15, StackType DEF FreeDisplay, HandlerReturns, On
  <2> QED
    BY <1>15, <2>1 DEF FreeDisplay, HandlerReturns, SdTypeOK
<1>16. CASE AllAsked
  <2>1. calls' \in Seq(Frame) /\ Top.global \in Globals
    BY <1>16, StackType, GlobalOfTop DEF AllAsked, On, Asking
  <2>2. removed' \in SUBSET Globals
    BY <1>16, <2>1 DEF AllAsked, SdTypeOK
  <2>3. state' \in [Globals -> {"none", "alive", "freed"}]
    BY <1>16, <2>1 DEF AllAsked, SdTypeOK
  <2>4. gdestroys' \in [Globals -> Nat]
    BY <1>16, <2>1 DEF AllAsked, SdTypeOK
  <2> QED
    BY <1>16, <2>1, <2>2, <2>3, <2>4 DEF AllAsked, SdTypeOK
<1>17. CASE FilterReturns
  <2>1. Top.global \in Globals /\ Below \in Seq(Frame)
    BY <1>17, StackType, GlobalOfTop DEF FilterReturns, On
  <2>2. gcounter' \in [Globals -> Int] /\ userData' \in SUBSET Globals /\ calls' \in Seq(Frame)
    BY <1>17, <2>1, FiniType DEF FilterReturns
  <2> QED
    BY <1>17, <2>2 DEF FilterReturns, SdTypeOK
<1> QED
  BY <1>1, <1>2, <1>3, <1>4, <1>5, <1>6, <1>7, <1>8, <1>9, <1>10, <1>11, <1>12, <1>13, <1>14,
     <1>15, <1>16, <1>17, SdTypeOK
     DEF Next, ProgramStep, ClientStep, LibraryStep, HandlerEnds, SdTypeOK
-----------------------------------------------------------------------------
(* How calls are nested *)

\* The stack after a call, after a return, and after the next call of the filter.
LEMMA AfterPush ==
    ASSUME SdTypeOK, NEW f \in Frame, calls' = Append(calls, f)
    PROVE  /\ Len(calls') = Len(calls) + 1 /\ Len(calls) \in Nat /\ DOMAIN calls = 1..Len(calls)
           /\ DOMAIN calls' = 1..Len(calls) + 1 /\ calls'[Len(calls) + 1] = f
           /\ \A i \in DOMAIN calls : calls'[i] = calls[i]
BY PushFacts DEF SdTypeOK

\* See AfterPush: a call returns,
LEMMA AfterPop ==
    ASSUME SdTypeOK, calls # <<>>, calls' = Below
    PROVE  /\ Len(calls') = Len(calls) - 1 /\ Len(calls) \in Nat /\ DOMAIN calls = 1..Len(calls)
           /\ DOMAIN calls' = 1..Len(calls) - 1
           /\ \A i \in DOMAIN calls' : i \in DOMAIN calls /\ calls'[i] = calls[i]
BY PopFacts DEF SdTypeOK, Below

\* the call on top is replaced by another one,
LEMMA AfterReplace ==
    ASSUME SdTypeOK, calls # <<>>, NEW f \in Frame, calls' = Append(Below, f)
    PROVE  /\ Len(calls') = Len(calls) /\ Len(calls) \in Nat \ {0} /\ DOMAIN calls = 1..Len(calls)
           /\ DOMAIN calls' = 1..Len(calls) /\ calls'[Len(calls)] = f
           /\ \A i \in 1..Len(calls) - 1 : calls'[i] = calls[i]
<1>1. calls \in Seq(Frame)
  BY DEF SdTypeOK
<1>2. /\ Below \in Seq(Frame) /\ Len(Below) = Len(calls) - 1 /\ Len(calls) \in Nat \ {0}
      /\ DOMAIN calls = 1..Len(calls)
      /\ \A i \in 1..Len(calls) - 1 : Below[i] = calls[i]
  BY <1>1, PopFacts DEF Below
<1> QED
  BY <1>2, PushFacts

\* and the call on top goes on, with the filter called by it.
LEMMA AfterAsk ==
    ASSUME SdTypeOK, calls # <<>>, NEW t \in Frame, NEW f \in Frame,
           calls' = Append(Append(Below, t), f)
    PROVE  /\ Len(calls) \in Nat \ {0} /\ DOMAIN calls = 1..Len(calls)
           /\ Len(calls') = Len(calls) + 1 /\ DOMAIN calls' = 1..Len(calls) + 1
           /\ calls'[Len(calls) + 1] = f /\ calls'[Len(calls)] = t
           /\ \A i \in 1..Len(calls) - 1 : calls'[i] = calls[i]
<1>1. calls \in Seq(Frame)
  BY DEF SdTypeOK
<1>2. /\ Below \in Seq(Frame) /\ Len(Below) = Len(calls) - 1 /\ Len(calls) \in Nat \ {0}
      /\ DOMAIN calls = 1..Len(calls)
      /\ \A i \in 1..Len(calls) - 1 : Below[i] = calls[i]
  BY <1>1, PopFacts DEF Below
<1>3. /\ Append(Below, t) \in Seq(Frame) /\ Len(Append(Below, t)) = Len(calls)
      /\ Append(Below, t)[Len(calls)] = t
      /\ \A i \in 1..Len(calls) - 1 : Append(Below, t)[i] = calls[i]
  BY <1>2, PushFacts
<1> QED
  BY <1>2, <1>3, PushFacts

\* The program's code runs at the bottom of the stack or in a handler, which is
\* the program's own, or a client's in the teardown of the display.
LEMMA ProgramTop ==
    ASSUME SdTypeOK, Shape, ProgramRuns, NEW i \in DOMAIN calls
    PROVE  /\ i = Len(calls) \/ calls[i].op = "clients"
           /\ calls[i].op \notin Asking \cup {"filter"}
<1>1. calls # <<>> /\ Top \in Frame /\ Top = calls[Len(calls)] /\ Len(calls) \in DOMAIN calls
  BY TopFrame DEF SdTypeOK
<1>2. Len(calls) \in Nat /\ DOMAIN calls = 1..Len(calls)
  BY DEF SdTypeOK
<1>3. Top.op \in {"on_client_destroy", "on_destroy", "on_bind"}
  BY <1>1 DEF ProgramRuns, Idle, On, Handlers
<1>4. Top.op # "on_client_destroy" => Len(calls) = 1
  BY <1>1, <1>3 DEF Shape
<1>5. Top.op = "on_client_destroy" => Len(calls) = 1 \/ (Len(calls) = 2 /\ calls[1].op = "clients")
  BY <1>1 DEF Shape
<1>6. i = Len(calls) \/ calls[i].op = "clients"
  BY <1>2, <1>3, <1>4, <1>5
<1> QED
  BY <1>1, <1>3, <1>6 DEF Asking

\* A call returns.
LEMMA ShapePop ==
    ASSUME SdTypeOK, Shape, calls # <<>>, calls' = Below
    PROVE  Shape'
<1>1. /\ Len(calls') = Len(calls) - 1 /\ Len(calls) \in Nat /\ DOMAIN calls = 1..Len(calls)
      /\ DOMAIN calls' = 1..Len(calls) - 1
      /\ \A i \in DOMAIN calls' : i \in DOMAIN calls /\ calls'[i] = calls[i]
  BY AfterPop
<1>2. \A i \in DOMAIN calls' : calls[i].op # "filter"
  BY <1>1 DEF Shape
<1> SUFFICES ASSUME NEW i \in DOMAIN calls'
             PROVE  /\ AboutOK(calls'[i])
                    /\ calls'[i].op # "filter"
                    /\ calls'[i].op \in Asking => \A j \in DOMAIN calls' :
                          j > i => calls'[j].op = "filter" /\ calls'[j].global = calls'[i].global
                    /\ calls'[i].op \in {"clients", "on_destroy", "on_bind"} => i = 1
                    /\ calls'[i].op = "on_client_destroy" =>
                          i = 1 \/ (i = 2 /\ calls'[1].op = "clients")
  BY DEF Shape, AboutOK
<1>3. i = 2 => 1 \in DOMAIN calls'
  BY <1>1
<1> QED
  BY <1>1, <1>2, <1>3 DEF Shape

\* A call that is put on the stack.
LEMMA ShapePush ==
    ASSUME SdTypeOK, Shape, NEW f \in Frame, AboutOK(f), calls' = Append(calls, f),
           \/ calls = <<>>
           \/ ProgramRuns /\ f.op \in Asking
    PROVE  Shape'
<1>1. /\ Len(calls') = Len(calls) + 1 /\ Len(calls) \in Nat /\ DOMAIN calls = 1..Len(calls)
      /\ DOMAIN calls' = 1..Len(calls) + 1 /\ calls'[Len(calls) + 1] = f
      /\ \A i \in DOMAIN calls : calls'[i] = calls[i]
  BY AfterPush
<1>2. CASE calls = <<>>
  <2>1. DOMAIN calls' = {1} /\ calls'[1] = f /\ Len(calls') = 1
    BY <1>1, <1>2
  <2> QED
    BY <2>1 DEF Shape, AboutOK
<1>3. CASE ProgramRuns /\ f.op \in Asking
  <2>1. \A i \in DOMAIN calls : calls[i].op \notin Asking \cup {"filter"}
    BY <1>3, ProgramTop
  <2>2. AboutOK(f)'
    BY DEF AboutOK
  <2> SUFFICES ASSUME NEW i \in DOMAIN calls'
               PROVE  /\ AboutOK(calls'[i])
                      /\ calls'[i].op # "filter"
                      /\ calls'[i].op \in Asking => \A j \in DOMAIN calls' : ~(j > i)
                      /\ calls'[i].op \in {"clients", "on_destroy", "on_bind"} => i = 1
                      /\ calls'[i].op = "on_client_destroy" =>
                            i = 1 \/ (i = 2 /\ calls'[1].op = "clients")
    BY DEF Shape, AboutOK
  <2>3. CASE i = Len(calls) + 1
    BY <1>1, <1>3, <2>3 DEF Asking
  <2>4. CASE i \in DOMAIN calls
    BY <1>1, <2>1, <2>4 DEF Shape
  <2> QED
    BY <1>1, <2>3, <2>4
<1> QED
  BY <1>2, <1>3

\* The filter is called for one more client.
LEMMA ShapeOfAsk ==
    ASSUME Shape, NEW n \in Nat \ {0}, n = Len(calls), DOMAIN calls = 1..n,
           calls[n].op \in Asking, NEW t, NEW f, AboutOK(f),
           t.op = calls[n].op, t.global = calls[n].global, t.client = calls[n].client,
           f.op = "filter", f.global = t.global,
           Len(calls') = n + 1, DOMAIN calls' = 1..n + 1, calls'[n + 1] = f, calls'[n] = t,
           \A i \in 1..n - 1 : calls'[i] = calls[i]
    PROVE  Shape'
<1>1. \A i \in 1..n - 1 : calls[i].op \notin Asking \cup {"filter"}
  BY DEF Shape, Asking
<1>2. AboutOK(t)
  BY DEF Shape, AboutOK
<1> SUFFICES ASSUME NEW i \in 1..n + 1
             PROVE  /\ AboutOK(calls'[i])
                    /\ calls'[i].op = "filter" => i = n + 1
                    /\ calls'[i].op \in Asking => \A j \in 1..n + 1 :
                          j > i => calls'[j].op = "filter" /\ calls'[j].global = calls'[i].global
                    /\ calls'[i].op \in {"clients", "on_destroy", "on_bind"} => i = 1
                    /\ calls'[i].op = "on_client_destroy" =>
                          i = 1 \/ (i = 2 /\ calls'[1].op = "clients")
  BY DEF Shape, AboutOK
<1>3. CASE i = n + 1
  BY <1>3 DEF Asking
<1>4. CASE i = n
  BY <1>2, <1>4 DEF Asking
<1>5. CASE i \in 1..n - 1
  BY <1>1, <1>5 DEF Shape
<1>6. i = n + 1 \/ i = n \/ i \in 1..n - 1
  OBVIOUS
<1> QED
  BY <1>3, <1>4, <1>5, <1>6

\* ShapeOfAsk, for the stack that AskFilter makes.
LEMMA ShapeAsk ==
    ASSUME SdTypeOK, Shape, On(Asking), NEW t \in Frame, NEW f \in Frame, AboutOK(f),
           t.op = Top.op, t.global = Top.global, t.client = Top.client,
           f.op = "filter", f.global = t.global,
           calls' = Append(Append(Below, t), f)
    PROVE  Shape'
BY TopFrame, AfterAsk, ShapeOfAsk DEF On

\* The teardown of the display is at the bottom of the stack.
LEMMA Teardown ==
    ASSUME SdTypeOK, Shape, On({"clients", "on_destroy", "on_bind"})
    PROVE  Len(calls) = 1 /\ DOMAIN calls = {1} /\ Top = calls[1] /\ Below = <<>>
<1>1. calls # <<>> /\ Top = calls[Len(calls)] /\ Len(calls) \in DOMAIN calls /\ calls \in Seq(Frame)
  BY TopFrame DEF On, SdTypeOK
<1>2. Len(calls) = 1
  BY <1>1 DEF Shape, On
<1>3. DOMAIN calls = {1} /\ Below = <<>>
  BY <1>1, <1>2 DEF Below
<1> QED
  BY <1>1, <1>2, <1>3

\* A stack of one call.
LEMMA AppendOnly == ASSUME NEW f PROVE /\ Append(<<>>, f) = <<f>> /\ <<>> \o <<f>> = <<f>>
                                       /\ Len(<<f>>) = 1 /\ DOMAIN <<f>> = {1} /\ <<f>>[1] = f
OBVIOUS

\* The only call on the stack.
LEMMA ShapeOne ==
    ASSUME NEW f, AboutOK(f), f.op \notin Asking, calls' = <<f>>
    PROVE  Shape'
BY AppendOnly DEF Shape, AboutOK

\* The teardown of the display destroys one more client.
LEMMA ShapeNextClient ==
    ASSUME SdTypeOK, Shape, NEW c \in Clients, DestroyNextClient(c)
    PROVE  /\ Shape' /\ Len(calls') = 2 /\ DOMAIN calls' = {1, 2}
           /\ calls'[1].op = "clients" /\ calls'[2].op = "on_client_destroy"
           /\ calls'[1].left = Top.left \ {c} /\ calls'[2].client = c
           /\ calls'[1].global = None /\ calls'[2].global = None
           /\ calls'[1].client = None
<1> DEFINE t == [Top EXCEPT !.left = @ \ {c}]
           f == [Calling("on_client_destroy", None, {}) EXCEPT !.client = c]
<1>1. Below = <<>> /\ Top \in Frame /\ Top.op = "clients" /\ Top.global = None /\ Top.client = None
  BY Teardown, TopFrame DEF DestroyNextClient, On, Shape, AboutOK
<1>2. t.op = "clients" /\ t.global = None /\ t.left = Top.left \ {c} /\ t.client = None
  BY <1>1 DEF Frame
<1>3. f.op = "on_client_destroy" /\ f.global = None /\ f.client = c
  BY DEF Calling
<1>4. calls' = <<t>> \o <<f>>
  BY <1>1, AppendOnly DEF DestroyNextClient, DestroyClient
<1> HIDE DEF t, f
<1>5. Len(calls') = 2 /\ DOMAIN calls' = {1, 2} /\ calls'[1] = t /\ calls'[2] = f
  BY <1>4
<1>6. Shape'
  BY <1>2, <1>3, <1>5 DEF Shape, AboutOK, Asking
<1> QED
  BY <1>2, <1>3, <1>5, <1>6

\* The frames that are pushed.
LEMMA FilterFrame ==
    ASSUME NEW g \in Globals
    PROVE  LET f == [Calling("filter", g, {}) EXCEPT !.hasData = g \in userData]
           IN /\ f \in Frame /\ f.op = "filter" /\ f.global = g /\ f.client = None
              /\ f.hasData = (g \in userData) /\ AboutOK(f)
<1> DEFINE f == [Calling("filter", g, {}) EXCEPT !.hasData = g \in userData]
<1>1. f.op = "filter" /\ f.global = g /\ f.client = None /\ f.hasData = (g \in userData)
  BY DEF Calling
<1>2. \A d \in BOOLEAN : [Calling("filter", g, {}) EXCEPT !.hasData = d] \in Frame
  BY CallingFrame DEF Handlers
<1>3. (g \in userData) \in BOOLEAN
  OBVIOUS
<1>4. f \in Frame
  BY <1>2, <1>3, Zenon
<1>5. AboutOK(f)
  BY <1>1 DEF AboutOK
<1> QED
  BY <1>1, <1>4, <1>5

\* A call is about what it is made for.
LEMMA CallingAbout ==
    ASSUME NEW op \in Library \cup Handlers, NEW g \in Globals \cup {None}, NEW left \in SUBSET Clients,
           op \in Asking \cup {"filter", "on_bind"} => g \in Globals,
           op \in {"clients", "on_destroy", "on_client_destroy"} => g = None
    PROVE  AboutOK(Calling(op, g, left))
BY DEF AboutOK, Calling, Asking

\* A call that asks the filter.
LEMMA AskingFrame ==
    ASSUME NEW op \in Asking, NEW g \in Globals, NEW left \in SUBSET Clients
    PROVE  LET f == Calling(op, g, left)
           IN f \in Frame /\ AboutOK(f) /\ f.op \in Asking /\ f.op = op /\ f.global = g /\ ~f.hasData
<1>1. op \in Library /\ op \in Library \cup Handlers
  BY DEF Library, Asking
<1>2. Calling(op, g, left).op = op /\ Calling(op, g, left).global = g /\ ~Calling(op, g, left).hasData
  BY DEF Calling
<1>3. AboutOK(Calling(op, g, left))
  BY <1>1, CallingAbout DEF Asking
<1>4. Calling(op, g, left) \in Frame
  BY <1>1, CallingFrame
<1> QED
  BY <1>2, <1>3, <1>4

\* A client's on_destroy handler.
LEMMA ClientFrame ==
    ASSUME NEW c \in Clients
    PROVE  LET f == [Calling("on_client_destroy", None, {}) EXCEPT !.client = c]
           IN AboutOK(f) /\ f.op = "on_client_destroy" /\ f.global = None /\ f.client = c
BY DEF AboutOK, Calling, Asking

\* fini() of a temporary handle replaces the filter's call by the global's end,
\* or only returns.
LEMMA FilterReturnsCases ==
    ASSUME SdTypeOK, Shape, FilterReturns
    PROVE  /\ Top.op = "filter" /\ Top.global \in Globals /\ calls # <<>>
           /\ LET left == IF Top.global \in removed THEN {} ELSE Registries
                  f == Calling("destroy", Top.global, left)
              IN /\ f \in Frame /\ AboutOK(f) /\ f.op = "destroy" /\ f.global = Top.global /\ ~f.hasData
                 /\ \/ Top.hasData /\ gcounter[Top.global] = 1 /\ calls' = Append(Below, f)
                       /\ userData' = userData \ {Top.global}
                    \/ ~(Top.hasData /\ gcounter[Top.global] = 1) /\ calls' = Below
                       /\ userData' = userData
<1>1. Top.op = "filter" /\ Top.global \in Globals /\ calls # <<>>
  BY GlobalOfTop DEF FilterReturns, On
<1>2. (IF Top.global \in removed THEN {} ELSE Registries) \in SUBSET Clients
  BY RegistriesType
<1> DEFINE left == IF Top.global \in removed THEN {} ELSE Registries
           f == Calling("destroy", Top.global, left)
<1>3. f.op = "destroy" /\ f.global = Top.global /\ ~f.hasData
  BY DEF Calling
<1>4. f \in Frame
  BY <1>1, <1>2, CallingFrame DEF Library
<1>5. AboutOK(f)
  BY <1>1, <1>2, CallingAbout DEF Library, Asking
<1>6. \/ Top.hasData /\ gcounter[Top.global] = 1 /\ calls' = Append(Below, f)
         /\ userData' = userData \ {Top.global}
      \/ ~(Top.hasData /\ gcounter[Top.global] = 1) /\ calls' = Below
         /\ userData' = userData
  BY DEF FilterReturns, Fini
<1> QED
  BY <1>1, <1>3, <1>4, <1>5, <1>6 DEF f, left

\* Every step keeps the nesting.
LEMMA ShapeStep ==
    ASSUME "late_display" \notin Habits, SdTypeOK, Shape, GlobalsOK, [Next]_vars
    PROVE  Shape'
<1>1. CASE calls' = calls
  BY <1>1 DEF Shape, AboutOK
<1>2. ASSUME NEW h \in Handles, DropDisplay(h), calls' # calls PROVE Shape'
  <2>1. Calling("clients", None, clients) \in Frame /\ AboutOK(Calling("clients", None, clients))
    BY CallingFrame, CallingAbout DEF SdTypeOK, Library, Asking
  <2> QED
    BY <1>2, <2>1, ShapePush DEF DropDisplay, Push, Idle
<1>3. ASSUME NEW h \in GlobalHandles, NEW g \in Globals, NewGlobal(h, g) PROVE Shape'
  <2> DEFINE f == Calling("announce", g, Registries)
  <2>1. f \in Frame /\ AboutOK(f) /\ f.op \in Asking
    BY AskingFrame, RegistriesType DEF Asking
  <2> QED
    BY <1>3, <2>1, ShapePush DEF NewGlobal, Push
<1>4. ASSUME NEW h \in GlobalHandles, DropGlobal(h), calls' # calls PROVE Shape'
  <2> DEFINE left == IF global[h] \in removed THEN {} ELSE Registries
             f == Calling("destroy", global[h], left)
  <2>1. global[h] \in Globals /\ left \in SUBSET Clients
    BY <1>4, RegistriesType DEF DropGlobal, SdTypeOK
  <2>2. f \in Frame /\ AboutOK(f) /\ f.op \in Asking
    BY <2>1, AskingFrame DEF Asking
  <2> QED
    BY <1>4, <2>2, ShapePush DEF DropGlobal, Fini
<1>5. ASSUME NEW h \in GlobalHandles, RemoveGlobal(h) PROVE Shape'
  <2> DEFINE f == Calling("withdraw", global[h], Registries)
  <2>1. global[h] \in Globals
    BY <1>5 DEF RemoveGlobal, SdTypeOK
  <2>2. f \in Frame /\ AboutOK(f) /\ f.op \in Asking
    BY <2>1, AskingFrame, RegistriesType DEF Asking
  <2> QED
    BY <1>5, <2>2, ShapePush DEF RemoveGlobal, Push
<1>6. ASSUME NEW c \in Clients, Disconnect(c) PROVE Shape'
  <2> DEFINE f == [Calling("on_client_destroy", None, {}) EXCEPT !.client = c]
  <2>1. calls' = <<f>>
    BY <1>6, AppendOnly DEF Disconnect, DestroyClient
  <2>2. AboutOK(f) /\ f.op \notin Asking
    BY ClientFrame DEF Asking
  <2> QED
    BY <2>1, <2>2, ShapeOne
<1>7. ASSUME NEW g \in Globals, ListGlobal(g) PROVE Shape'
  BY <1>7, FilterFrame, ShapePush DEF ListGlobal, CallFilter, Idle
<1>8. ASSUME NEW g \in Globals, Bind(g) PROVE Shape'
  <2>1. Calling("on_bind", g, {}) \in Frame /\ AboutOK(Calling("on_bind", g, {}))
    BY CallingFrame DEF Handlers, AboutOK, Calling, Asking
  <2> QED
    BY <1>8, <2>1, ShapePush DEF Bind, Push, Idle
<1>9. ASSUME NEW c \in Clients, DestroyNextClient(c) PROVE Shape'
  BY <1>9, ShapeNextClient
<1>10. ASSUME NEW c \in Clients, AskFilter(c) PROVE Shape'
  <2> DEFINE t == [Top EXCEPT !.left = @ \ {c}]
             f == [Calling("filter", Top.global, {}) EXCEPT !.hasData = Top.global \in userData]
  <2>1. On(Asking) /\ Top \in Frame /\ Top.global \in Globals
    BY <1>10, TopFrame, GlobalOfTop DEF AskFilter, On, Asking
  <2>2. t \in Frame /\ t.op = Top.op /\ t.global = Top.global /\ t.client = Top.client
    BY <2>1, LeftFrame
  <2>3. f \in Frame /\ AboutOK(f) /\ f.op = "filter" /\ f.global = Top.global
    BY <2>1, FilterFrame
  <2>4. calls' = Append(Append(Below, t), f)
    BY <1>10 DEF AskFilter, CallFilter
  <2> HIDE DEF t, f
  <2> QED
    BY <2>1, <2>2, <2>3, <2>4, ShapeAsk
<1>11. CASE DestroyDisplay
  <2> DEFINE f == Calling("on_destroy", None, {})
  <2>1. AboutOK(f) /\ f.op \notin Asking
    BY DEF AboutOK, Calling, Asking
  <2>2. calls' = <<f>>
    BY <1>11, Teardown, AppendOnly DEF DestroyDisplay, On
  <2> QED
    BY <2>1, <2>2, ShapeOne
<1>12. CASE FreeDisplay \/ HandlerReturns \/ AllAsked
  BY <1>12, ShapePop DEF FreeDisplay, HandlerReturns, AllAsked, On
<1>13. CASE FilterReturns
  <2> DEFINE g == Top.global
             left == IF g \in removed THEN {} ELSE Registries
             f == Calling("destroy", g, left)
  <2>1. /\ Top.op = "filter" /\ g \in Globals /\ calls # <<>> /\ Top.hasData \in BOOLEAN
        /\ f \in Frame /\ AboutOK(f) /\ f.op = "destroy" /\ f.global = g
    BY <1>13, FilterReturnsCases, TopFrame DEF Frame
  <2>2. CASE calls' = Below
    BY <2>1, <2>2, ShapePop
  <2>3. CASE calls' = Append(Below, f) /\ Top.hasData /\ gcounter[g] = 1
    <3> DEFINE n == Len(calls)
    <3>1. Top = calls[n] /\ n \in DOMAIN calls
      BY <2>1, TopFrame
    <3>2. /\ Len(calls') = n /\ n \in Nat \ {0} /\ DOMAIN calls = 1..n
          /\ DOMAIN calls' = 1..n /\ calls'[n] = f /\ \A i \in 1..n - 1 : calls'[i] = calls[i]
      BY <2>1, <2>3, AfterReplace
    <3>3. n \in Temporaries(g)
      BY <2>1, <2>3, <3>1 DEF Temporaries
    <3>4. HandlesOf(g) = {} /\ ~Used(g) /\ ~Ending(g)
      <4>1. GlobalOK(g) /\ state[g] = "alive"
        BY <2>1, <3>1 DEF GlobalsOK, GlobalOK, SdTypeOK
      <4>2. Cardinality(HandlesOf(g)) = 0
        BY <2>3, <3>3, <4>1, HandlesFinite DEF GlobalOK
      <4> QED
        BY <2>3, <4>1, <4>2, HandlesFinite, FS_EmptySet DEF GlobalOK
    <3>5. \A i \in 1..n - 1 : calls[i].op \notin Asking
      <4> SUFFICES ASSUME NEW i \in 1..n - 1, calls[i].op \in Asking PROVE FALSE
        OBVIOUS
      <4>1. i \in DOMAIN calls /\ n > i
        BY <3>2
      <4>2. calls[i].global = g
        BY <3>1, <4>1 DEF Shape
      <4> QED
        BY <3>4, <4>1, <4>2 DEF Used, Ending, Asking
    <3>6. n = Len(calls) /\ n \in Nat \ {0}
          /\ \A k \in 1..n - 1 : k \in DOMAIN calls /\ calls'[k] = calls[k]
      BY <3>2
    <3> HIDE DEF n, f, left, g
    <3> SUFFICES ASSUME NEW i \in 1..n
                 PROVE  /\ AboutOK(calls'[i])
                        /\ calls'[i].op # "filter"
                        /\ calls'[i].op \in Asking => i = n
                        /\ calls'[i].op \in {"clients", "on_destroy", "on_bind"} => i = 1
                        /\ calls'[i].op = "on_client_destroy" =>
                              i = 1 \/ (i = 2 /\ calls'[1].op = "clients")
      BY <3>2 DEF Shape, AboutOK
    <3>7. CASE i = n
      BY <2>1, <3>2, <3>7
    <3>8. CASE i \in 1..n - 1
      <4>1. i \in DOMAIN calls /\ i # Len(calls) /\ calls'[i] = calls[i]
        BY <3>8, <3>6
      <4>2. i = 2 => 1 \in 1..n - 1
        BY <3>8, <3>6
      <4>3. i = 2 => calls'[1] = calls[1]
        BY <3>6, <4>2
      <4> QED
        BY <3>5, <3>8, <4>1, <4>3 DEF Shape
    <3> QED
      BY <3>2, <3>7, <3>8
  <2> QED
    BY <1>13, <2>2, <2>3, FilterReturnsCases
<1>14. CASE UNCHANGED vars
  BY <1>14, <1>1 DEF vars
<1>15. ASSUME NEW h \in Handles, CreateDisplay(h) \/ CopyDisplay(h) \/ WrapDisplay(h) PROVE calls' = calls
  BY <1>15, WrapFinds DEF CreateDisplay, CopyDisplay
<1>16. ASSUME NEW h \in GlobalHandles, NEW from \in GlobalHandles, CopyGlobal(h, from) \/ FilterKeeps(h)
       PROVE  calls' = calls
  BY <1>16 DEF CopyGlobal, FilterKeeps
<1>17. ASSUME NEW c \in Clients, Connect(c) PROVE calls' = calls
  BY <1>17 DEF Connect
<1> QED
  BY <1>1, <1>2, <1>3, <1>4, <1>5, <1>6, <1>7, <1>8, <1>9, <1>10, <1>11, <1>12, <1>13, <1>14,
     <1>15, <1>16, <1>17 DEF Next, ProgramStep, ClientStep, LibraryStep, HandlerEnds, SdTypeOK
-----------------------------------------------------------------------------
(* The display *)

\* Steps that leave the display alone.
LEMMA KeepDisplay ==
    ASSUME DisplayOK, UNCHANGED displayVars, calls' = <<>> \/ display = "alive",
           \A i \in DOMAIN calls' : calls'[i].op \in {"clients", "on_destroy"} =>
               \E j \in DOMAIN calls : calls[j].op \in {"clients", "on_destroy"}
    PROVE  DisplayOK'
BY DEF DisplayOK, DisplayCounted, displayVars

\* The handles of the display can be counted.
LEMMA DisplaysFinite ==
    ASSUME SdTypeOK
    PROVE  IsFiniteSet(displays) /\ Cardinality(displays) \in Nat
           /\ (Cardinality(displays) = 0 <=> displays = {})
<1>1. displays \subseteq Handles
  BY DEF SdTypeOK
<1> QED
  BY <1>1, FiniteAssumption, FS_Subset, FS_CardinalityType, FS_EmptySet

\* A global that is in use is alive, and so is its display.
LEMMA UsedAlive ==
    ASSUME SdTypeOK, GlobalsOK
    PROVE  /\ \A g \in Globals : state[g] = "alive" => display = "alive"
           /\ \A g \in userData : g \in Globals /\ state[g] = "alive"
           /\ \A h \in withData : global[h] \in Globals /\ state[global[h]] = "alive"
                                  /\ h \in HandlesOf(global[h])
           /\ \A i \in DOMAIN calls : calls[i].global \in Globals => state[calls[i].global] = "alive"
<1>1. \A g \in Globals : state[g] = "alive" => display = "alive"
  BY DEF GlobalsOK, GlobalOK
<1>2. \A g \in userData : g \in Globals /\ state[g] = "alive"
  BY DEF GlobalsOK, GlobalOK, SdTypeOK
<1>3. \A h \in withData : global[h] \in Globals /\ h \in HandlesOf(global[h])
  BY DEF SdTypeOK, HandlesOf
<1>4. \A h \in withData : state[global[h]] = "alive"
  BY <1>3 DEF GlobalsOK, GlobalOK
<1>5. \A i \in DOMAIN calls : calls[i].global \in Globals => state[calls[i].global] = "alive"
  BY DEF GlobalsOK, GlobalOK
<1> QED
  BY <1>1, <1>2, <1>3, <1>4, <1>5

\* Every step keeps what is known of the display.
LEMMA DisplayStep ==
    ASSUME "late_display" \notin Habits, SdTypeOK, Shape, DisplayOK, GlobalsOK, [Next]_vars
    PROVE  DisplayOK'
<1> USE DEF displayVars
<1>1. ASSUME NEW h \in Handles, CreateDisplay(h) PROVE DisplayOK'
  <2>1. Cardinality({h}) = 1
    BY FS_Singleton
  <2> QED
    BY <1>1, <2>1 DEF CreateDisplay, Idle, DisplayOK, DisplayCounted
<1>2. ASSUME NEW h \in Handles, CopyDisplay(h) \/ WrapDisplay(h) PROVE DisplayOK'
  <2>1. displays # {} /\ h \notin displays
    <3>1. CASE CopyDisplay(h)
      BY <3>1 DEF CopyDisplay
    <3>2. CASE WrapDisplay(h)
      <4>1. counter = Cardinality(displays) /\ counter > 0 /\ h \notin displays
        BY <3>2, WrapFinds DEF WrapDisplay, DisplayOK, DisplayCounted
      <4> QED
        BY <4>1, DisplaysFinite
    <3> QED
      BY <1>2, <3>1, <3>2
  <2>2. Cardinality(displays \cup {h}) = Cardinality(displays) + 1
    BY <2>1, DisplaysFinite, FS_AddElement
  <2>3. /\ displays' = displays \cup {h} /\ counter' = counter + 1
        /\ UNCHANGED <<display, destroys, clients, calls>>
    BY <1>2, WrapFinds DEF CopyDisplay, WrapDisplay
  <2> QED
    BY <2>1, <2>2, <2>3 DEF DisplayOK, DisplayCounted
<1>3. ASSUME NEW h \in Handles, DropDisplay(h) PROVE DisplayOK'
  <2>1. /\ h \in displays /\ display = "alive" /\ counter = Cardinality(displays)
        /\ displays' = displays \ {h} /\ counter' = counter - 1
        /\ UNCHANGED <<display, destroys>>
    BY <1>3 DEF DropDisplay, DisplayOK, DisplayCounted
  <2>2. IsFiniteSet(displays \ {h}) /\ Cardinality(displays \ {h}) = counter - 1
    BY <2>1, DisplaysFinite, FS_RemoveElement
  <2>3. \A i \in DOMAIN calls : calls[i].op \notin {"clients", "on_destroy"}
    BY <2>1 DEF DisplayOK
  <2>4. CASE counter = 1
    <3>1. displays' = {} /\ clients' = {}
      BY <1>3, <2>1, <2>2, <2>4, FS_EmptySet DEF DropDisplay
    <3> QED
      BY <2>1, <2>2, <3>1 DEF DisplayOK, DisplayCounted
  <2>5. CASE counter # 1
    BY <1>3, <2>1, <2>2, <2>3, <2>5 DEF DropDisplay, DisplayOK, DisplayCounted
  <2> QED
    BY <2>4, <2>5
<1>4. CASE FreeDisplay
  <2>1. calls # <<>> /\ Len(calls) = 1 /\ DOMAIN calls = {1} /\ Top = calls[1] /\ Below = <<>>
    BY <1>4, Teardown DEF FreeDisplay, On
  <2>2. display = "alive" /\ displays = {} /\ clients = {} /\ destroys = 0
    BY <1>4, <2>1 DEF FreeDisplay, On, DisplayOK
  <2> QED
    BY <1>4, <2>1, <2>2 DEF FreeDisplay, DisplayOK, DisplayCounted
<1>5. ASSUME NEW c \in Clients, Connect(c) PROVE DisplayOK'
  BY <1>5 DEF Connect, Idle, DisplayOK, DisplayCounted
<1>6. ASSUME NEW c \in Clients, Disconnect(c) PROVE DisplayOK'
  <2> DEFINE f == [Calling("on_client_destroy", None, {}) EXCEPT !.client = c]
  <2>1. calls' = <<f>> /\ f.op = "on_client_destroy"
    BY <1>6, ClientFrame, AppendOnly DEF Disconnect, DestroyClient
  <2> HIDE DEF f
  <2>2. displays # {} /\ clients' = clients \ {c} /\ UNCHANGED <<display, displays, counter, destroys>>
    BY <1>6 DEF Disconnect
  <2> QED
    BY <2>1, <2>2, AppendOnly DEF DisplayOK, DisplayCounted
<1>7. ASSUME NEW f \in Frame, f.op \notin {"clients", "on_destroy"}, UNCHANGED displayVars,
             calls' = Append(calls, f), display = "alive"
      PROVE  DisplayOK'
  <2>1. \A i \in DOMAIN calls' : (i \in DOMAIN calls /\ calls'[i] = calls[i]) \/ calls'[i] = f
    BY <1>7, AfterPush
  <2> QED
    BY <1>7, <2>1, KeepDisplay
<1>8. ASSUME calls # <<>>, calls' = Below, UNCHANGED displayVars PROVE DisplayOK'
  <2>1. display = "alive"
    BY <1>8 DEF DisplayOK
  <2> QED
    BY <1>8, <2>1, AfterPop, KeepDisplay
<1>9. ASSUME calls' = calls, UNCHANGED displayVars PROVE DisplayOK'
  BY <1>9 DEF DisplayOK, DisplayCounted
<1>10. ASSUME NEW h \in GlobalHandles, NEW g \in Globals, NewGlobal(h, g) PROVE DisplayOK'
  <2> DEFINE f == Calling("announce", g, Registries)
  <2>1. f \in Frame /\ f.op \notin {"clients", "on_destroy"}
    BY AskingFrame, RegistriesType DEF Asking
  <2>2. display = "alive" /\ UNCHANGED displayVars /\ calls' = Append(calls, f)
    BY <1>10 DEF NewGlobal, Push, DisplayOK
  <2> QED
    BY <1>7, <2>1, <2>2
<1>11. ASSUME NEW h \in GlobalHandles, DropGlobal(h), calls' # calls PROVE DisplayOK'
  <2> DEFINE left == IF global[h] \in removed THEN {} ELSE Registries
             f == Calling("destroy", global[h], left)
  <2>1. h \in withData /\ UNCHANGED displayVars /\ calls' = Append(calls, f)
    BY <1>11 DEF DropGlobal, Fini
  <2>2. f \in Frame /\ f.op \notin {"clients", "on_destroy"}
    BY <2>1, UsedAlive, AskingFrame, RegistriesType DEF Asking
  <2>3. display = "alive"
    BY <2>1, UsedAlive
  <2> QED
    BY <1>7, <2>1, <2>2, <2>3
<1>12. ASSUME NEW h \in GlobalHandles, RemoveGlobal(h) PROVE DisplayOK'
  <2> DEFINE f == Calling("withdraw", global[h], Registries)
  <2>1. h \in withData /\ UNCHANGED displayVars /\ calls' = Append(calls, f)
    BY <1>12 DEF RemoveGlobal, Push
  <2>2. f \in Frame /\ f.op \notin {"clients", "on_destroy"}
    BY <2>1, UsedAlive, AskingFrame, RegistriesType DEF Asking
  <2>3. display = "alive"
    BY <2>1, UsedAlive
  <2> QED
    BY <1>7, <2>1, <2>2, <2>3
<1>13. ASSUME NEW g \in Globals, ListGlobal(g) PROVE DisplayOK'
  <2> DEFINE f == [Calling("filter", g, {}) EXCEPT !.hasData = g \in userData]
  <2>1. f \in Frame /\ f.op \notin {"clients", "on_destroy"}
    BY FilterFrame
  <2>2. display = "alive" /\ UNCHANGED displayVars /\ calls' = Append(calls, f)
    BY <1>13, UsedAlive DEF ListGlobal, CallFilter
  <2> QED
    BY <1>7, <2>1, <2>2
<1>14. ASSUME NEW g \in Globals, Bind(g) PROVE DisplayOK'
  <2> DEFINE f == Calling("on_bind", g, {})
  <2>1. f \in Frame /\ f.op \notin {"clients", "on_destroy"}
    BY CallingFrame DEF Handlers, Calling
  <2>2. display = "alive" /\ UNCHANGED displayVars /\ calls' = Append(calls, f)
    BY <1>14, UsedAlive DEF Bind, Push
  <2> QED
    BY <1>7, <2>1, <2>2
<1>15. ASSUME NEW c \in Clients, DestroyNextClient(c) PROVE DisplayOK'
  <2>1. display = "alive" /\ UNCHANGED displayVars /\ calls # <<>> /\ Top.op = "clients"
    BY <1>15 DEF DestroyNextClient, On, DisplayOK
  <2> QED
    BY <2>1, TopFrame, KeepDisplay
<1>16. CASE DestroyDisplay
  <2>1. display = "alive" /\ UNCHANGED displayVars /\ calls # <<>> /\ Top.op = "clients"
    BY <1>16 DEF DestroyDisplay, On, DisplayOK
  <2> QED
    BY <2>1, TopFrame, KeepDisplay
<1>17. CASE HandlerReturns \/ AllAsked
  BY <1>8, <1>17 DEF HandlerReturns, AllAsked, On
<1>18. ASSUME NEW c \in Clients, AskFilter(c) PROVE DisplayOK'
  <2> DEFINE t == [Top EXCEPT !.left = @ \ {c}]
             f == [Calling("filter", Top.global, {}) EXCEPT !.hasData = Top.global \in userData]
  <2>1. On(Asking) /\ calls # <<>> /\ Top \in Frame /\ Top.global \in Globals
    BY <1>18, TopFrame, GlobalOfTop DEF AskFilter, On, Asking
  <2>2. t \in Frame /\ t.op \notin {"clients", "on_destroy"}
    BY <2>1, LeftFrame DEF On, Asking
  <2>3. f \in Frame /\ f.op \notin {"clients", "on_destroy"}
    BY <2>1, FilterFrame
  <2>4. display = "alive" /\ UNCHANGED displayVars /\ calls' = Append(Append(Below, t), f)
    BY <1>18, <2>1 DEF AskFilter, CallFilter, DisplayOK
  <2> HIDE DEF t, f
  <2>5. /\ Len(calls) \in Nat \ {0} /\ DOMAIN calls = 1..Len(calls)
        /\ DOMAIN calls' = 1..Len(calls) + 1
        /\ calls'[Len(calls) + 1] = f /\ calls'[Len(calls)] = t
        /\ \A i \in 1..Len(calls) - 1 : calls'[i] = calls[i]
    BY <2>1, <2>2, <2>3, <2>4, AfterAsk
  <2>6. \A i \in DOMAIN calls' :
           (i \in DOMAIN calls /\ calls'[i] = calls[i]) \/ calls'[i] = f \/ calls'[i] = t
    BY <2>5
  <2> QED
    BY <2>2, <2>3, <2>4, <2>6, KeepDisplay
<1>19. CASE FilterReturns
  <2> DEFINE left == IF Top.global \in removed THEN {} ELSE Registries
             f == Calling("destroy", Top.global, left)
  <2>1. calls # <<>> /\ f \in Frame /\ f.op = "destroy" /\ UNCHANGED displayVars
        /\ (calls' = Below \/ calls' = Append(Below, f))
    BY <1>19, FilterReturnsCases DEF FilterReturns
  <2>2. CASE calls' = Below
    BY <1>8, <2>1, <2>2
  <2>3. CASE calls' = Append(Below, f)
    <3> HIDE DEF left, f
    <3>1. /\ Len(calls) \in Nat \ {0} /\ DOMAIN calls = 1..Len(calls)
          /\ DOMAIN calls' = 1..Len(calls) /\ calls'[Len(calls)] = f
          /\ \A i \in 1..Len(calls) - 1 : calls'[i] = calls[i]
      BY <2>1, <2>3, AfterReplace
    <3>2. \A i \in DOMAIN calls' : (i \in DOMAIN calls /\ calls'[i] = calls[i]) \/ calls'[i] = f
      BY <3>1
    <3>3. display = "alive"
      BY <2>1 DEF DisplayOK
    <3> QED
      BY <2>1, <3>2, <3>3, KeepDisplay
  <2> QED
    BY <2>1, <2>2, <2>3
<1>20. ASSUME NEW h \in GlobalHandles, NEW from \in GlobalHandles, CopyGlobal(h, from) \/ FilterKeeps(h)
       PROVE  DisplayOK'
  BY <1>9, <1>20 DEF CopyGlobal, FilterKeeps
<1>21. ASSUME NEW h \in GlobalHandles, DropGlobal(h), calls' = calls PROVE DisplayOK'
  BY <1>9, <1>21 DEF DropGlobal
<1>22. CASE UNCHANGED vars
  BY <1>9, <1>22 DEF vars
<1> QED
  BY <1>1, <1>2, <1>3, <1>4, <1>5, <1>6, <1>10, <1>11, <1>12, <1>13, <1>14,
     <1>15, <1>16, <1>17, <1>18, <1>19, <1>20, <1>21, <1>22
     DEF Next, ProgramStep, ClientStep, LibraryStep, HandlerEnds, SdTypeOK
-----------------------------------------------------------------------------
(* The globals *)

\* The calls about a global stay as they are, up to those that return without
\* an effect on it.
KeepCalls(g) ==
    /\ \A i \in DOMAIN calls' : calls'[i].global = g =>
          i \in DOMAIN calls /\ calls[i].global = g /\ calls'[i].op = calls[i].op
          /\ calls'[i].hasData = calls[i].hasData
    /\ Temporaries(g) # {} => Temporaries(g)' # {}
    /\ Ending(g) => Ending(g)'

\* What KeepCalls says of the calls that GlobalOK is about.
LEMMA KeepCallsFacts ==
    ASSUME NEW g, KeepCalls(g)
    PROVE  /\ Temporaries(g)' = {} <=> Temporaries(g) = {}
           /\ Ending(g)' <=> Ending(g)
           /\ Used(g)' => Used(g)
<1>1. Temporaries(g)' \subseteq Temporaries(g)
  BY DEF KeepCalls, Temporaries
<1>2. Ending(g)' => Ending(g)
  BY DEF KeepCalls, Ending
<1>3. Used(g)' => Used(g)
  BY DEF KeepCalls, Used
<1> QED
  BY <1>1, <1>2, <1>3 DEF KeepCalls

\* Steps that leave a global, its handles and the calls about it alone.
LEMMA KeepGlobal ==
    ASSUME NEW g \in Globals, GlobalOK(g), KeepCalls(g),
           state'[g] = state[g], HandlesOf(g)' = HandlesOf(g),
           g \in userData' <=> g \in userData,
           gcounter'[g] = gcounter[g], gdestroys'[g] = gdestroys[g],
           state[g] = "alive" => display' = "alive"
    PROVE  GlobalOK(g)'
<1>1. /\ Temporaries(g)' = {} <=> Temporaries(g) = {}
      /\ Ending(g)' <=> Ending(g)
      /\ Used(g)' => Used(g)
  BY KeepCallsFacts
<1>2. state'[g] = "alive" =>
          /\ gcounter'[g] = Cardinality(HandlesOf(g)') + (IF Temporaries(g)' = {} THEN 0 ELSE 1)
          /\ display' = "alive" /\ (g \in userData' \/ Ending(g)')
  BY <1>1 DEF GlobalOK
<1>3. state'[g] # "alive" => /\ HandlesOf(g)' = {} /\ g \notin userData'
                             /\ \A i \in DOMAIN calls' : calls'[i].global # g
  BY DEF GlobalOK, KeepCalls
<1>4. /\ gdestroys'[g] = IF state'[g] = "freed" THEN 1 ELSE 0
      /\ g \in userData' => gcounter'[g] >= 1
      /\ Ending(g)' => gcounter'[g] = 0 /\ g \notin userData'
      /\ Used(g)' => HandlesOf(g)' # {}
  BY <1>1 DEF GlobalOK
<1>5. \A i, j \in DOMAIN calls' :
          calls'[i].op = "destroy" /\ calls'[i].global = g /\ j < i => calls'[j].global # g
  BY DEF GlobalOK, KeepCalls
<1> HIDE DEF Temporaries, Ending, Used, HandlesOf
<1> QED
  BY <1>2, <1>3, <1>4, <1>5 DEF GlobalOK

\* A handle of a living global is made, by a program that holds one, or by the
\* filter that is asked about it.
LEMMA CountUp ==
    ASSUME SdTypeOK, NEW g \in Globals, GlobalOK(g), KeepCalls(g), gcounter[g] >= 1,
           NEW h, h \notin HandlesOf(g), HandlesOf(g)' = HandlesOf(g) \cup {h},
           state'[g] = state[g], state[g] = "alive",
           g \in userData' <=> g \in userData,
           gcounter'[g] = gcounter[g] + 1, gdestroys'[g] = gdestroys[g], display' = display
    PROVE  GlobalOK(g)'
<1>1. /\ Temporaries(g)' = {} <=> Temporaries(g) = {}
      /\ Ending(g)' <=> Ending(g)
      /\ Used(g)' => Used(g)
  BY KeepCallsFacts
<1>2. Cardinality(HandlesOf(g) \cup {h}) = Cardinality(HandlesOf(g)) + 1
      /\ Cardinality(HandlesOf(g)) \in Nat
  BY HandlesFinite, FS_AddElement
<1>3. gcounter[g] \in Int
  BY DEF SdTypeOK
<1>4. /\ gcounter'[g] = Cardinality(HandlesOf(g)') + (IF Temporaries(g)' = {} THEN 0 ELSE 1)
      /\ display' = "alive" /\ (g \in userData' \/ Ending(g)')
  BY <1>1, <1>2, <1>3 DEF GlobalOK
<1>5. ~Ending(g)' /\ HandlesOf(g)' # {} /\ gcounter'[g] >= 1
  BY <1>1, <1>3 DEF GlobalOK
<1>6. gdestroys'[g] = 0
  BY DEF GlobalOK
<1>7. \A i \in DOMAIN calls' : ~(calls'[i].op = "destroy" /\ calls'[i].global = g)
  BY <1>5 DEF Ending
<1> HIDE DEF Temporaries, Ending, Used, HandlesOf
<1> QED
  BY <1>4, <1>5, <1>6, <1>7 DEF GlobalOK

\* KeepCalls for the steps on the stack: none,
LEMMA KeepCallsSame == ASSUME NEW g, calls' = calls PROVE KeepCalls(g)
BY DEF KeepCalls, Temporaries, Ending

\* a call that is about something else,
LEMMA KeepCallsPush ==
    ASSUME SdTypeOK, NEW g, NEW f \in Frame, f.global # g, calls' = Append(calls, f)
    PROVE  KeepCalls(g)
<1>1. /\ Len(calls) \in Nat /\ DOMAIN calls = 1..Len(calls)
      /\ DOMAIN calls' = 1..Len(calls) + 1 /\ calls'[Len(calls) + 1] = f
      /\ \A i \in DOMAIN calls : calls'[i] = calls[i]
  BY AfterPush
<1>2. /\ \A i \in DOMAIN calls : i \in DOMAIN calls' /\ calls'[i] = calls[i]
      /\ \A i \in DOMAIN calls' : calls'[i].global = g => i \in DOMAIN calls /\ calls'[i] = calls[i]
  BY <1>1
<1> QED
  BY <1>2 DEF KeepCalls, Temporaries, Ending

\* A call returns that is not about the global, or neither ends it nor holds a
\* handle of it.
LEMMA KeepCallsPop ==
    ASSUME SdTypeOK, NEW g, calls # <<>>, calls' = Below,
           Top.global = g => Top.op # "destroy" /\ ~(Top.op = "filter" /\ Top.hasData)
    PROVE  KeepCalls(g)
<1>1. /\ Len(calls) \in Nat /\ DOMAIN calls = 1..Len(calls)
      /\ DOMAIN calls' = 1..Len(calls) - 1
      /\ \A i \in DOMAIN calls' : i \in DOMAIN calls /\ calls'[i] = calls[i]
  BY AfterPop
<1>2. Top = calls[Len(calls)]
  BY DEF Top
<1>3. \A i \in DOMAIN calls : (i \in DOMAIN calls' /\ calls'[i] = calls[i]) \/ calls[i] = Top
  BY <1>1, <1>2
<1> QED
  BY <1>1, <1>3 DEF KeepCalls, Temporaries, Ending

\* a call about something else that is replaced by another one,
LEMMA KeepCallsReplaced ==
    ASSUME NEW g, NEW n \in Nat \ {0}, DOMAIN calls = 1..n, DOMAIN calls' = 1..n,
           calls[n].global # g, calls'[n].global # g, \A i \in 1..n - 1 : calls'[i] = calls[i]
    PROVE  KeepCalls(g)
<1>1. \A i \in 1..n : calls[i].global = g \/ calls'[i].global = g => calls'[i] = calls[i]
  <2>1. \A i \in 1..n : i = n \/ i \in 1..n - 1
    OBVIOUS
  <2> QED
    BY <2>1
<1> QED
  BY <1>1 DEF KeepCalls, Temporaries, Ending

\* (the same, for the stack that the specification makes)
LEMMA KeepCallsReplace ==
    ASSUME SdTypeOK, NEW g, calls # <<>>, NEW f \in Frame, f.global # g, Top.global # g,
           calls' = Append(Below, f)
    PROVE  KeepCalls(g)
<1>1. /\ Len(calls) \in Nat \ {0} /\ DOMAIN calls = 1..Len(calls)
      /\ DOMAIN calls' = 1..Len(calls) /\ calls'[Len(calls)] = f
      /\ \A i \in 1..Len(calls) - 1 : calls'[i] = calls[i]
  BY AfterReplace
<1> QED
  BY <1>1, KeepCallsReplaced DEF Top

\* and the call of the filter about something else.
LEMMA KeepCallsAsked ==
    ASSUME NEW g, NEW n \in Nat \ {0}, DOMAIN calls = 1..n, DOMAIN calls' = 1..n + 1,
           calls'[n + 1].global # g, calls'[n].op = calls[n].op,
           calls'[n].global = calls[n].global, calls'[n].hasData = calls[n].hasData,
           \A i \in 1..n - 1 : calls'[i] = calls[i]
    PROVE  KeepCalls(g)
<1>1. \A i \in 1..n : /\ i \in 1..n + 1 /\ calls'[i].op = calls[i].op
                      /\ calls'[i].global = calls[i].global /\ calls'[i].hasData = calls[i].hasData
  <2>1. \A i \in 1..n : i \in 1..n + 1 /\ (i = n \/ i \in 1..n - 1)
    OBVIOUS
  <2> QED
    BY <2>1
<1>2. \A i \in 1..n + 1 : i = n + 1 \/ i \in 1..n
  OBVIOUS
<1>3. \A i \in DOMAIN calls' : calls'[i].global = g =>
          i \in DOMAIN calls /\ calls[i].global = g /\ calls'[i].op = calls[i].op
          /\ calls'[i].hasData = calls[i].hasData
  BY <1>1, <1>2
<1>4. Temporaries(g) # {} => Temporaries(g)' # {}
  BY <1>1 DEF Temporaries
<1>5. Ending(g) => Ending(g)'
  BY <1>1 DEF Ending
<1> QED
  BY <1>3, <1>4, <1>5 DEF KeepCalls

\* (the same, for the stack that AskFilter makes)
LEMMA KeepCallsAsk ==
    ASSUME SdTypeOK, NEW g, calls # <<>>, NEW t \in Frame, NEW f \in Frame, f.global # g,
           t.op = Top.op, t.global = Top.global, t.hasData = Top.hasData,
           calls' = Append(Append(Below, t), f)
    PROVE  KeepCalls(g)
<1>1. /\ Len(calls) \in Nat \ {0} /\ DOMAIN calls = 1..Len(calls)
      /\ DOMAIN calls' = 1..Len(calls) + 1
      /\ calls'[Len(calls) + 1] = f /\ calls'[Len(calls)] = t
      /\ \A i \in 1..Len(calls) - 1 : calls'[i] = calls[i]
  BY AfterAsk
<1> QED
  BY <1>1, KeepCallsAsked DEF Top

\* The handles of every global, when one is made or dropped.
LEMMA HandleMade ==
    ASSUME SdTypeOK, NEW h \in GlobalHandles, NEW g \in Globals, global[h] = None,
           global' = [global EXCEPT ![h] = g], NEW d \in BOOLEAN,
           withData' = IF d THEN withData \cup {h} ELSE withData
    PROVE  /\ h \notin HandlesOf(g)
           /\ HandlesOf(g)' = IF d THEN HandlesOf(g) \cup {h} ELSE HandlesOf(g)
           /\ \A k \in Globals : k # g => HandlesOf(k)' = HandlesOf(k)
<1>1. h \notin withData /\ withData \subseteq GlobalHandles
  BY DEF SdTypeOK
<1>2. \A k \in withData : global'[k] = global[k]
  BY <1>1 DEF SdTypeOK
<1>3. global'[h] = g
  BY DEF SdTypeOK
<1> QED
  BY <1>1, <1>2, <1>3 DEF HandlesOf

\* A handle is dropped ...
LEMMA HandleDropped ==
    ASSUME SdTypeOK, NEW h \in GlobalHandles,
           global' = [global EXCEPT ![h] = None], withData' = withData \ {h}
    PROVE  \A k \in Globals : HandlesOf(k)' = HandlesOf(k) \ {h}
<1>1. \A k \in withData \ {h} : global'[k] = global[k]
  BY DEF SdTypeOK
<1> QED
  BY <1>1 DEF HandlesOf

\* ... or none.
LEMMA HandlesSame == ASSUME UNCHANGED handleVars PROVE \A k \in Globals : HandlesOf(k)' = HandlesOf(k)
BY DEF HandlesOf, handleVars

\* What the steps on globals do, one lemma for each: a global is created,
LEMMA NewGlobalOK ==
    ASSUME SdTypeOK, Shape, DisplayOK, GlobalsOK, NEW h \in GlobalHandles, NEW g \in Globals,
           NewGlobal(h, g)
    PROVE  GlobalsOK'
<1> SUFFICES ASSUME NEW k \in Globals PROVE GlobalOK(k)'
  BY DEF GlobalsOK
<1> DEFINE f == Calling("announce", g, Registries)
<1>1. f \in Frame /\ f.op = "announce" /\ f.global = g
  BY AskingFrame, RegistriesType DEF Asking
<1>2. /\ calls' = Append(calls, f) /\ display' = "alive" /\ display = "alive"
      /\ state' = [state EXCEPT ![g] = "alive"] /\ userData' = userData \cup {g}
      /\ gcounter' = [gcounter EXCEPT ![g] = 1] /\ gdestroys' = gdestroys
      /\ state[g] = "none"
  BY DEF NewGlobal, Push, displayVars, DisplayOK
<1>3. HandlesOf(g)' = HandlesOf(g) \cup {h} /\ \A j \in Globals : j # g => HandlesOf(j)' = HandlesOf(j)
  <2>1. /\ global[h] = None /\ global' = [global EXCEPT ![h] = g]
        /\ withData' = IF TRUE THEN withData \cup {h} ELSE withData
    BY DEF NewGlobal
  <2> QED
    BY <2>1, HandleMade
<1> HIDE DEF f
<1>4. CASE k # g
  <2>1. KeepCalls(k)
    BY <1>1, <1>2, <1>4, KeepCallsPush
  <2> QED
    BY <1>2, <1>3, <1>4, <2>1, KeepGlobal DEF GlobalsOK, SdTypeOK
<1>5. CASE k = g
  <2>1. /\ HandlesOf(g) = {} /\ gdestroys[g] = 0
        /\ \A i \in DOMAIN calls : calls[i].global # g
    BY <1>2 DEF GlobalsOK, GlobalOK
  <2>2. HandlesOf(g)' = {h} /\ Cardinality({h}) = 1
    BY <1>3, <2>1, FS_Singleton
  <2>3. \A i \in DOMAIN calls' : calls'[i].global = g => calls'[i] = f
    BY <1>1, <1>2, <2>1, AfterPush
  <2>4. Temporaries(g)' = {} /\ ~Ending(g)'
    BY <1>1, <2>3 DEF Temporaries, Ending
  <2>5. state'[g] = "alive" /\ g \in userData' /\ gcounter'[g] = 1 /\ gdestroys'[g] = 0
    BY <1>2, <2>1 DEF SdTypeOK
  <2> HIDE DEF Temporaries, Ending, HandlesOf
  <2>6. GlobalOK(g)'
    BY <1>1, <1>2, <2>2, <2>3, <2>4, <2>5 DEF GlobalOK
  <2> QED
    BY <1>5, <2>6
<1> QED
  BY <1>4, <1>5

\* A handle that is made from another one, or from a filter's, and counted.
LEMMA HandleMadeOK ==
    ASSUME SdTypeOK, GlobalsOK, NEW h \in GlobalHandles, NEW g \in Globals, global[h] = None,
           global' = [global EXCEPT ![h] = g], NEW d \in BOOLEAN,
           withData' = IF d THEN withData \cup {h} ELSE withData,
           Counting(g, d, 1), UNCHANGED <<displayVars, state, userData, removed, gdestroys, calls>>,
           d => gcounter[g] >= 1 /\ state[g] = "alive"
    PROVE  GlobalsOK'
<1> SUFFICES ASSUME NEW k \in Globals PROVE GlobalOK(k)'
  BY DEF GlobalsOK
<1>1. /\ h \notin HandlesOf(g)
      /\ HandlesOf(g)' = IF d THEN HandlesOf(g) \cup {h} ELSE HandlesOf(g)
      /\ \A j \in Globals : j # g => HandlesOf(j)' = HandlesOf(j)
  BY HandleMade
<1>2. KeepCalls(k)
  BY KeepCallsSame
<1>3. gcounter'[k] = IF d /\ k = g THEN gcounter[k] + 1 ELSE gcounter[k]
  BY DEF Counting, SdTypeOK
<1>4. CASE d /\ k = g
  BY <1>1, <1>2, <1>3, <1>4, CountUp DEF GlobalsOK, displayVars
<1>5. CASE ~(d /\ k = g)
  <2>1. HandlesOf(k)' = HandlesOf(k)
    BY <1>1, <1>5
  <2>2. state[k] = "alive" => display' = "alive"
    BY UsedAlive DEF displayVars
  <2> QED
    BY <1>2, <1>3, <1>5, <2>1, <2>2, KeepGlobal DEF GlobalsOK
<1> QED
  BY <1>4, <1>5

\* A handle with data, or a filter's, counts.
LEMMA Counted ==
    ASSUME SdTypeOK, GlobalsOK, NEW g \in Globals, HandlesOf(g) # {} \/ Temporaries(g) # {}
    PROVE  state[g] = "alive" /\ gcounter[g] >= 1 /\ ~Ending(g) /\ g \in userData
<1>1. state[g] = "alive"
  BY DEF GlobalsOK, GlobalOK, Temporaries
<1>2. gcounter[g] >= 1
  BY <1>1, HandlesFinite DEF GlobalsOK, GlobalOK
<1> QED
  BY <1>1, <1>2 DEF GlobalsOK, GlobalOK

\* a handle of a global is copied,
LEMMA CopyGlobalOK ==
    ASSUME SdTypeOK, GlobalsOK, NEW h \in GlobalHandles, NEW from \in GlobalHandles,
           CopyGlobal(h, from)
    PROVE  GlobalsOK'
<1>1. global[from] \in Globals
  BY DEF CopyGlobal, SdTypeOK
<1>2. from \in withData => from \in HandlesOf(global[from])
  BY DEF HandlesOf
<1>3. (from \in withData) \in BOOLEAN
  OBVIOUS
<1>4. /\ global[h] = None /\ global' = [global EXCEPT ![h] = global[from]]
      /\ withData' = IF from \in withData THEN withData \cup {h} ELSE withData
      /\ Counting(global[from], from \in withData, 1)
      /\ UNCHANGED <<displayVars, state, userData, removed, gdestroys, calls>>
  BY DEF CopyGlobal
<1>5. from \in withData => gcounter[global[from]] >= 1 /\ state[global[from]] = "alive"
  BY <1>1, <1>2, Counted
<1> DEFINE g == global[from]
           d == from \in withData
<1>6. /\ g \in Globals /\ d \in BOOLEAN /\ global' = [global EXCEPT ![h] = g]
      /\ withData' = IF d THEN withData \cup {h} ELSE withData
      /\ Counting(g, d, 1) /\ (d => gcounter[g] >= 1 /\ state[g] = "alive")
  BY <1>1, <1>3, <1>4, <1>5
<1> HIDE DEF g, d
<1> QED
  BY <1>4, <1>6, HandleMadeOK

\* the filter keeps a copy of its handle.
LEMMA FilterKeepsOK ==
    ASSUME SdTypeOK, Shape, GlobalsOK, NEW h \in GlobalHandles, FilterKeeps(h)
    PROVE  GlobalsOK'
<1> DEFINE g == Top.global
           d == Top.hasData
<1>1. On({"filter"}) /\ g \in Globals /\ calls # <<>> /\ d \in BOOLEAN
  BY GlobalOfTop, TopFrame DEF FilterKeeps, On, Frame
<1>2. /\ global[h] = None /\ global' = [global EXCEPT ![h] = g]
      /\ withData' = IF d THEN withData \cup {h} ELSE withData
      /\ Counting(g, d, 1)
      /\ UNCHANGED <<displayVars, state, userData, removed, gdestroys, calls>>
  BY DEF FilterKeeps
<1>3. d => Len(calls) \in Temporaries(g)
  BY <1>1, TopFrame DEF On, Temporaries
<1>4. d => gcounter[g] >= 1 /\ state[g] = "alive"
  BY <1>1, <1>3, Counted
<1> HIDE DEF g, d
<1> QED
  BY <1>1, <1>2, <1>4, HandleMadeOK

\* Calls about globals are the filter's, what asks it, and on_bind handlers.
LEMMA CallsAbout ==
    ASSUME SdTypeOK, Shape, NEW g \in Globals, NEW i \in DOMAIN calls, calls[i].global = g
    PROVE  calls[i].op \in Asking \cup {"filter", "on_bind"}
<1>1. calls[i].op \in Library \cup Handlers
  <2>1. calls[i] \in Frame
    BY DEF SdTypeOK
  <2> QED
    BY <2>1 DEF Frame
<1>2. calls[i].op \notin {"clients", "on_destroy", "on_client_destroy"}
  BY NoneAssumption DEF Shape, AboutOK
<1> QED
  BY <1>1, <1>2 DEF Library, Handlers, Asking

\* Where the program's code runs, a call about a global is the on_bind handler
\* that runs.
LEMMA ProgramCalls ==
    ASSUME SdTypeOK, Shape, ProgramRuns, NEW g \in Globals
    PROVE  /\ Temporaries(g) = {} /\ ~Ending(g)
           /\ \A i \in DOMAIN calls : calls[i].global = g =>
                 calls[i].op = "on_bind" /\ On({"on_bind"}) /\ Top.global = g
<1>1. \A i \in DOMAIN calls : calls[i].op \notin Asking \cup {"filter"}
  BY ProgramTop
<1>2. Temporaries(g) = {} /\ ~Ending(g)
  BY <1>1 DEF Temporaries, Ending, Asking
<1>3. ASSUME NEW i \in DOMAIN calls, calls[i].global = g
      PROVE  calls[i].op = "on_bind" /\ On({"on_bind"}) /\ Top.global = g
  <2>1. calls[i].op = "on_bind"
    BY <1>1, <1>3, CallsAbout
  <2>2. i = Len(calls)
    BY <2>1, ProgramTop
  <2>3. calls # <<>>
    BY EmptySeq DEF SdTypeOK
  <2> QED
    BY <1>3, <2>1, <2>2, <2>3 DEF On, Top
<1> QED
  BY <1>2, <1>3

\* A global is about to be destroyed: no handle is left, and no call counts on it.
LEMMA BeginEnd ==
    ASSUME NEW g \in Globals, NEW n \in Nat \ {0}, DOMAIN calls' = 1..n,
           calls'[n].op = "destroy", calls'[n].global = g,
           \A i \in 1..n - 1 : calls'[i].global # g,
           state'[g] = "alive", HandlesOf(g)' = {}, g \notin userData', gcounter'[g] = 0,
           gdestroys'[g] = 0, display' = "alive"
    PROVE  GlobalOK(g)'
<1>1. \A i \in DOMAIN calls' : calls'[i].global = g => i = n
  <2>1. \A i \in 1..n : i = n \/ i \in 1..n - 1
    OBVIOUS
  <2> QED
    BY <2>1
<1>2. Temporaries(g)' = {}
  BY <1>1 DEF Temporaries
<1>3. Ending(g)'
  BY DEF Ending
<1>4. ~Used(g)'
  BY <1>1 DEF Used
<1>5. Cardinality({}) = 0
  BY FS_EmptySet
<1> HIDE DEF Temporaries, Ending, Used, HandlesOf
<1>6. \A i, j \in DOMAIN calls' :
          calls'[i].op = "destroy" /\ calls'[i].global = g /\ j < i => calls'[j].global # g
  BY <1>1
<1> QED
  BY <1>2, <1>3, <1>4, <1>5, <1>6 DEF GlobalOK

\* A handle is dropped, and it is not the last one.
LEMMA CountDown ==
    ASSUME SdTypeOK, NEW g \in Globals, GlobalOK(g), KeepCalls(g), gcounter[g] > 1,
           NEW h \in HandlesOf(g), HandlesOf(g)' = HandlesOf(g) \ {h}, Temporaries(g) = {},
           state'[g] = state[g], g \in userData' <=> g \in userData,
           gcounter'[g] = gcounter[g] - 1, gdestroys'[g] = gdestroys[g], display' = display
    PROVE  GlobalOK(g)'
<1>1. /\ Temporaries(g)' = {} /\ ~Ending(g) /\ ~Ending(g)' /\ state[g] = "alive"
  BY KeepCallsFacts DEF GlobalOK
<1>2. Cardinality(HandlesOf(g)) \in Nat /\ gcounter[g] \in Int
      /\ Cardinality(HandlesOf(g) \ {h}) = Cardinality(HandlesOf(g)) - 1
  BY HandlesFinite, FS_RemoveElement DEF SdTypeOK
<1>3. gcounter[g] = Cardinality(HandlesOf(g))
  BY <1>1, <1>2 DEF GlobalOK
<1>4. HandlesOf(g)' # {}
  BY <1>2, <1>3, FS_EmptySet
<1>5. gcounter'[g] = Cardinality(HandlesOf(g)') /\ gcounter'[g] >= 1
  BY <1>2, <1>3
<1>6. \A i \in DOMAIN calls' : ~(calls'[i].op = "destroy" /\ calls'[i].global = g)
  BY <1>1 DEF Ending
<1>7. /\ display' = "alive" /\ g \in userData' /\ gdestroys'[g] = 0 /\ state'[g] = "alive"
  BY <1>1 DEF GlobalOK
<1> HIDE DEF Temporaries, Ending, Used, HandlesOf
<1> QED
  BY <1>1, <1>2, <1>4, <1>5, <1>6, <1>7 DEF GlobalOK

\* A handle is dropped, which may have been the last one.
LEMMA DropGlobalOK ==
    ASSUME SdTypeOK, Shape, GlobalsOK, NEW h \in GlobalHandles, DropGlobal(h)
    PROVE  GlobalsOK'
<1> DEFINE g == global[h]
           left == IF g \in removed THEN {} ELSE Registries
           f == Calling("destroy", g, left)
<1>1. g \in Globals /\ ProgramRuns /\ Counting(g, h \in withData, -1)
      /\ (On({"on_bind"}) => Top.global # g \/ gcounter[g] > 1)
      /\ UNCHANGED <<displayVars, state, gdestroys>>
  BY DEF DropGlobal, Fini, SdTypeOK
<1>2. f \in Frame /\ f.op = "destroy" /\ f.global = g
  BY <1>1, AskingFrame, RegistriesType DEF Asking
<1>3. \A k \in Globals : HandlesOf(k)' = HandlesOf(k) \ {h}
  BY HandleDropped DEF DropGlobal
<1>4. IF h \in withData /\ gcounter[g] = 1
      THEN calls' = Append(calls, f) /\ userData' = userData \ {g}
      ELSE calls' = calls /\ userData' = userData
  BY DEF DropGlobal, Fini
<1>5. \A k \in Globals : k # g => h \notin HandlesOf(k)
  BY DEF HandlesOf
<1>6. h \in withData => h \in HandlesOf(g)
  BY DEF HandlesOf
<1>7. h \notin withData => \A k \in Globals : h \notin HandlesOf(k)
  BY DEF HandlesOf
<1>8. \A k \in Globals : gcounter'[k] = IF h \in withData /\ k = g THEN gcounter[k] - 1 ELSE gcounter[k]
  BY <1>1 DEF Counting, SdTypeOK
<1> HIDE DEF f, left, g
<1> SUFFICES ASSUME NEW k \in Globals PROVE GlobalOK(k)'
  BY DEF GlobalsOK
<1>9. CASE ~(h \in withData /\ k = g)
  <2>1. KeepCalls(k)
    BY <1>2, <1>4, <1>9, KeepCallsPush, KeepCallsSame
  <2>2. HandlesOf(k)' = HandlesOf(k)
    BY <1>3, <1>5, <1>7, <1>9
  <2>3. k \in userData' <=> k \in userData
    BY <1>4, <1>9
  <2>4. state'[k] = state[k] /\ gdestroys'[k] = gdestroys[k] /\ (state[k] = "alive" => display' = "alive")
    BY <1>1, UsedAlive DEF displayVars
  <2> QED
    BY <1>8, <1>9, <2>1, <2>2, <2>3, <2>4, KeepGlobal DEF GlobalsOK
<1>10. CASE h \in withData /\ k = g
  <2>1. h \in HandlesOf(k) /\ state[k] = "alive" /\ gcounter[k] >= 1 /\ GlobalOK(k) /\ gcounter[k] \in Int
        /\ display = "alive" /\ gdestroys[k] = 0
    BY <1>6, <1>10, Counted DEF GlobalsOK, GlobalOK, SdTypeOK
  <2>2. Temporaries(k) = {}
    BY <1>1, ProgramCalls
  <2>3. CASE gcounter[k] = 1
    <3>1. calls' = Append(calls, f) /\ k \notin userData' /\ gcounter'[k] = 0
      BY <1>4, <1>8, <1>10, <2>3
    <3>2. \A i \in DOMAIN calls : calls[i].global # k
      BY <1>1, <1>10, <2>3, ProgramCalls
    <3>3. HandlesOf(k)' = {}
      <4>1. Cardinality(HandlesOf(k)) = 1 /\ IsFiniteSet(HandlesOf(k))
        BY <2>1, <2>2, <2>3, HandlesFinite DEF GlobalOK
      <4>2. Cardinality(HandlesOf(k) \ {h}) = 0 /\ IsFiniteSet(HandlesOf(k) \ {h})
        BY <2>1, <4>1, FS_RemoveElement
      <4> QED
        BY <1>1, <1>3, <4>2, FS_EmptySet
    <3>4. /\ Len(calls) \in Nat /\ DOMAIN calls' = 1..Len(calls) + 1
          /\ calls'[Len(calls) + 1] = f
          /\ \A i \in 1..Len(calls) : calls'[i].global # k
      BY <1>2, <1>10, <3>1, <3>2, AfterPush
    <3>5. state'[k] = "alive" /\ gdestroys'[k] = 0 /\ display' = "alive"
      BY <1>1, <2>1 DEF displayVars
    <3>6. Len(calls) + 1 \in Nat \ {0} /\ 1..(Len(calls) + 1) - 1 = 1..Len(calls)
      BY <3>4
    <3>7. GlobalOK(k)'
      BY <1>2, <1>10, <3>1, <3>3, <3>4, <3>5, <3>6, BeginEnd
    <3> QED
      BY <3>7
  <2>4. CASE gcounter[k] # 1
    <3>1. KeepCalls(k) /\ HandlesOf(k)' = HandlesOf(k) \ {h} /\ userData' = userData
          /\ gcounter'[k] = gcounter[k] - 1 /\ gcounter[k] > 1
      BY <1>1, <1>3, <1>4, <1>8, <1>10, <2>1, <2>4, KeepCallsSame
    <3>2. GlobalOK(k)'
      BY <1>1, <2>1, <2>2, <3>1, CountDown DEF displayVars
    <3> QED
      BY <3>2
  <2> QED
    BY <2>3, <2>4
<1> QED
  BY <1>9, <1>10

\* A call about a global that is in use is put on the stack: it is not its end.
LEMMA PushUse ==
    ASSUME SdTypeOK, GlobalsOK, NEW g \in Globals, HandlesOf(g) # {},
           NEW f \in Frame, f.op # "destroy", f.op # "filter", f.global = g,
           calls' = Append(calls, f), UNCHANGED <<displayVars, handleVars, globalVars>>
    PROVE  GlobalsOK'
<1> SUFFICES ASSUME NEW k \in Globals PROVE GlobalOK(k)'
  BY DEF GlobalsOK
<1>1. HandlesOf(k)' = HandlesOf(k) /\ (state[k] = "alive" => display' = "alive")
  BY HandlesSame, UsedAlive DEF displayVars
<1>2. CASE k # g
  <2>1. KeepCalls(k)
    BY <1>2, KeepCallsPush
  <2> QED
    BY <1>1, <2>1, KeepGlobal DEF GlobalsOK, globalVars
<1>3. CASE k = g
  <2>1. /\ \A i \in DOMAIN calls : i \in DOMAIN calls' /\ calls'[i] = calls[i]
        /\ \A i \in DOMAIN calls' : (i \in DOMAIN calls /\ calls'[i] = calls[i]) \/ calls'[i] = f
    BY AfterPush
  <2>2. GlobalOK(g) /\ state[g] = "alive" /\ ~Ending(g)
    BY Counted DEF GlobalsOK
  <2>3. Temporaries(g)' = Temporaries(g) /\ ~Ending(g)'
    BY <2>1, <2>2 DEF Temporaries, Ending
  <2>4. \A i \in DOMAIN calls' : ~(calls'[i].op = "destroy" /\ calls'[i].global = g)
    BY <2>3 DEF Ending
  <2>5. GlobalOK(g)'
    <3> HIDE DEF Temporaries, Ending, Used, HandlesOf
    <3> QED
      BY <1>1, <1>3, <2>2, <2>3, <2>4 DEF GlobalOK, globalVars
  <2> QED
    BY <1>3, <2>5
<1> QED
  BY <1>2, <1>3

\* remove() withdraws a global.
LEMMA RemoveGlobalOK ==
    ASSUME SdTypeOK, GlobalsOK, NEW h \in GlobalHandles, RemoveGlobal(h)
    PROVE  GlobalsOK'
<1> DEFINE f == Calling("withdraw", global[h], Registries)
<1>1. global[h] \in Globals /\ HandlesOf(global[h]) # {}
  BY UsedAlive DEF RemoveGlobal
<1>2. f \in Frame /\ f.op = "withdraw" /\ f.global = global[h]
  BY <1>1, AskingFrame, RegistriesType DEF Asking
<1>3. calls' = Append(calls, f) /\ UNCHANGED <<displayVars, handleVars, globalVars>>
  BY DEF RemoveGlobal, Push
<1> HIDE DEF f
<1> QED
  BY <1>1, <1>2, <1>3, PushUse

\* A client binds a global.
LEMMA BindOK ==
    ASSUME SdTypeOK, GlobalsOK, NEW g \in Globals, Bind(g)
    PROVE  GlobalsOK'
<1> DEFINE f == Calling("on_bind", g, {})
<1>1. f \in Frame /\ f.op = "on_bind" /\ f.global = g
  BY CallingFrame DEF Handlers, Calling
<1>2. calls' = Append(calls, f) /\ UNCHANGED <<displayVars, handleVars, globalVars>>
      /\ calls = <<>> /\ g \in userData
  BY DEF Bind, Push, Idle
<1>3. Temporaries(g) = {}
  BY <1>2 DEF Temporaries
<1>4. HandlesOf(g) # {}
  <2>1. state[g] = "alive" /\ GlobalOK(g) /\ gcounter[g] >= 1
    BY <1>2, UsedAlive DEF GlobalsOK, GlobalOK
  <2>2. gcounter[g] = Cardinality(HandlesOf(g)) + 0 /\ Cardinality(HandlesOf(g)) \in Nat
    BY <1>3, <2>1, HandlesFinite DEF GlobalOK
  <2> QED
    BY <2>1, <2>2, HandlesFinite
<1> HIDE DEF f
<1> QED
  BY <1>1, <1>2, <1>4, PushUse

\* The filter is called with a temporary handle: nobody else has one then.
LEMMA FilterCalledOK ==
    ASSUME SdTypeOK, GlobalsOK, NEW g \in Globals, state[g] = "alive", Temporaries(g) = {},
           NEW n \in Nat, DOMAIN calls = 1..n, DOMAIN calls' = 1..n + 1,
           calls'[n + 1].op = "filter", calls'[n + 1].global = g,
           calls'[n + 1].hasData = (g \in userData),
           \A i \in 1..n : /\ calls'[i].op = calls[i].op /\ calls'[i].global = calls[i].global
                           /\ calls'[i].hasData = calls[i].hasData,
           Counting(g, g \in userData, 1),
           UNCHANGED <<displayVars, handleVars, state, userData, removed, gdestroys>>
    PROVE  GlobalsOK'
<1> SUFFICES ASSUME NEW k \in Globals PROVE GlobalOK(k)'
  BY DEF GlobalsOK
<1>1. HandlesOf(k)' = HandlesOf(k) /\ (state[k] = "alive" => display' = "alive")
  BY HandlesSame, UsedAlive DEF displayVars
<1>2. gcounter'[k] = IF g \in userData /\ k = g THEN gcounter[k] + 1 ELSE gcounter[k]
  BY DEF Counting, SdTypeOK
<1>3. /\ \A i \in 1..n : i \in 1..n + 1
      /\ \A i \in 1..n + 1 : i = n + 1 \/ i \in 1..n
      /\ n + 1 \in 1..n + 1
  OBVIOUS
<1>4. CASE k # g
  <2>1. \A i \in DOMAIN calls' : calls'[i].global = k =>
          i \in DOMAIN calls /\ calls[i].global = k /\ calls'[i].op = calls[i].op
          /\ calls'[i].hasData = calls[i].hasData
    BY <1>3, <1>4
  <2>2. Temporaries(k) # {} => Temporaries(k)' # {}
    BY <1>3 DEF Temporaries
  <2>3. Ending(k) => Ending(k)'
    BY <1>3 DEF Ending
  <2>4. KeepCalls(k)
    BY <2>1, <2>2, <2>3 DEF KeepCalls
  <2> QED
    BY <1>1, <1>2, <1>4, <2>4, KeepGlobal DEF GlobalsOK
<1>5. CASE k = g
  <2>1. GlobalOK(g) /\ gcounter[g] \in Int
    BY DEF GlobalsOK, SdTypeOK
  <2>2. Temporaries(g)' = {} <=> g \notin userData
    <3>1. g \in userData => n + 1 \in Temporaries(g)'
      BY <1>3 DEF Temporaries
    <3>2. g \notin userData => Temporaries(g)' = {}
      BY <1>3 DEF Temporaries
    <3> QED
      BY <3>1, <3>2
  <2>3. (Ending(g)' <=> Ending(g)) /\ (Used(g)' <=> Used(g))
    BY <1>3 DEF Ending, Used
  <2>4. \A i, j \in DOMAIN calls' :
          calls'[i].op = "destroy" /\ calls'[i].global = g /\ j < i => calls'[j].global # g
    <3> SUFFICES ASSUME NEW i \in 1..n + 1, NEW j \in 1..n + 1,
                        calls'[i].op = "destroy", calls'[i].global = g, j < i
                 PROVE  calls'[j].global # g
      OBVIOUS
    <3>1. i \in 1..n /\ j \in 1..n
      BY <1>3
    <3> QED
      BY <2>1, <3>1 DEF GlobalOK
  <2>5. Cardinality(HandlesOf(g)) \in Nat
    BY HandlesFinite
  <2>6. gcounter'[g] = Cardinality(HandlesOf(g)') + (IF Temporaries(g)' = {} THEN 0 ELSE 1)
    BY <1>1, <1>2, <1>5, <2>1, <2>2, <2>5 DEF GlobalOK
  <2>7. /\ state'[g] = "alive" /\ userData' = userData /\ gdestroys' = gdestroys
        /\ gcounter'[g] = IF g \in userData THEN gcounter[g] + 1 ELSE gcounter[g]
    BY <1>2, <1>5
  <2>8. GlobalOK(g)'
    <3> HIDE DEF Temporaries, Ending, Used, HandlesOf
    <3> QED
      BY <1>1, <1>5, <2>1, <2>3, <2>4, <2>6, <2>7 DEF GlobalOK
  <2> QED
    BY <1>5, <2>8
<1> QED
  BY <1>4, <1>5

\* The filter is asked when a client lists or binds the globals,
LEMMA ListGlobalOK ==
    ASSUME SdTypeOK, GlobalsOK, NEW g \in Globals, ListGlobal(g)
    PROVE  GlobalsOK'
<1> DEFINE f == [Calling("filter", g, {}) EXCEPT !.hasData = g \in userData]
<1>1. f \in Frame /\ f.op = "filter" /\ f.global = g /\ f.hasData = (g \in userData)
  BY FilterFrame
<1>2. /\ calls' = Append(calls, f) /\ calls = <<>> /\ state[g] = "alive"
      /\ Counting(g, g \in userData, 1)
      /\ UNCHANGED <<displayVars, handleVars, state, userData, removed, gdestroys>>
  BY DEF ListGlobal, CallFilter, Idle
<1> HIDE DEF f
<1>3. /\ Len(calls) \in Nat /\ DOMAIN calls = 1..Len(calls)
      /\ DOMAIN calls' = 1..Len(calls) + 1 /\ calls'[Len(calls) + 1] = f
      /\ \A i \in 1..Len(calls) : calls'[i] = calls[i]
  BY <1>1, <1>2, AfterPush
<1>4. Temporaries(g) = {}
  BY <1>2 DEF Temporaries
<1>5. PICK n \in Nat : n = Len(calls)
  BY <1>3
<1> QED
  BY <1>1, <1>2, <1>3, <1>4, <1>5, FilterCalledOK

\* or when a global is announced, withdrawn or destroyed.
LEMMA AskFilterOK ==
    ASSUME SdTypeOK, Shape, GlobalsOK, NEW c \in Clients, AskFilter(c)
    PROVE  GlobalsOK'
<1>1. On(Asking) /\ calls # <<>> /\ Top \in Frame /\ Top.global \in Globals
      /\ Len(calls) \in DOMAIN calls /\ Top = calls[Len(calls)]
  BY TopFrame, GlobalOfTop DEF AskFilter, On, Asking
<1>2. PICK g \in Globals : g = Top.global
  BY <1>1
<1>3. PICK t \in Frame : t = [Top EXCEPT !.left = @ \ {c}]
  BY <1>1, LeftFrame
<1>4. t.op = Top.op /\ t.global = Top.global /\ t.hasData = Top.hasData
  BY <1>1, <1>3, LeftFrame
<1>5. PICK f \in Frame : f = [Calling("filter", g, {}) EXCEPT !.hasData = g \in userData]
  BY FilterFrame
<1>6. f.op = "filter" /\ f.global = g /\ f.hasData = (g \in userData)
  BY <1>5, FilterFrame
<1>7. /\ calls' = Append(Append(Below, t), f)
      /\ Counting(g, g \in userData, 1)
      /\ UNCHANGED <<displayVars, handleVars, state, userData, removed, gdestroys>>
  BY <1>2, <1>3, <1>5 DEF AskFilter, CallFilter
<1>8. /\ Len(calls) \in Nat \ {0} /\ DOMAIN calls = 1..Len(calls)
      /\ DOMAIN calls' = 1..Len(calls) + 1
      /\ calls'[Len(calls) + 1] = f /\ calls'[Len(calls)] = t
      /\ \A i \in 1..Len(calls) - 1 : calls'[i] = calls[i]
  BY <1>1, <1>7, AfterAsk
<1>9. PICK n \in Nat \ {0} : n = Len(calls)
  BY <1>8
<1>10. /\ DOMAIN calls = 1..n /\ DOMAIN calls' = 1..n + 1 /\ calls'[n + 1] = f
       /\ calls'[n] = t /\ calls[n] = Top /\ \A i \in 1..n - 1 : calls'[i] = calls[i]
  BY <1>1, <1>8, <1>9
<1>11. \A i \in 1..n : /\ calls'[i].op = calls[i].op /\ calls'[i].global = calls[i].global
                       /\ calls'[i].hasData = calls[i].hasData
  <2>1. \A i \in 1..n : i = n \/ i \in 1..n - 1
    OBVIOUS
  <2> QED
    BY <1>4, <1>10, <2>1
<1>12. state[g] = "alive"
  BY <1>1, <1>2, UsedAlive
<1>13. Temporaries(g) = {}
  BY <1>1 DEF Temporaries, Shape, On, Asking
<1> QED
  BY <1>6, <1>7, <1>10, <1>11, <1>12, <1>13, FilterCalledOK

\* The filter returns: its handle is dropped, which may have been the last one.
LEMMA FilterReturnsOK ==
    ASSUME SdTypeOK, Shape, GlobalsOK, FilterReturns
    PROVE  GlobalsOK'
<1>1. /\ Top.op = "filter" /\ Top.global \in Globals /\ calls # <<>> /\ Top \in Frame
      /\ Len(calls) \in DOMAIN calls /\ Top = calls[Len(calls)]
  BY TopFrame, FilterReturnsCases
<1>2. PICK g \in Globals : g = Top.global
  BY <1>1
<1>3. PICK f \in Frame :
         f = Calling("destroy", Top.global, IF Top.global \in removed THEN {} ELSE Registries)
  BY FilterReturnsCases
<1>4. /\ f.op = "destroy" /\ f.global = g
      /\ \/ Top.hasData /\ gcounter[g] = 1 /\ calls' = Append(Below, f) /\ userData' = userData \ {g}
         \/ ~(Top.hasData /\ gcounter[g] = 1) /\ calls' = Below /\ userData' = userData
  BY <1>2, <1>3, FilterReturnsCases
<1>5. Counting(g, Top.hasData, -1) /\ UNCHANGED <<displayVars, handleVars, state, removed, gdestroys>>
  BY <1>2 DEF FilterReturns, Fini
<1>6. \A k \in Globals : gcounter'[k] = IF Top.hasData /\ k = g THEN gcounter[k] - 1 ELSE gcounter[k]
  BY <1>5 DEF Counting, SdTypeOK
<1>7. state[g] = "alive" /\ GlobalOK(g) /\ gcounter[g] \in Int
  BY <1>1, <1>2, UsedAlive DEF GlobalsOK, SdTypeOK
<1>8. /\ Len(calls) \in Nat \ {0} /\ DOMAIN calls = 1..Len(calls)
      /\ \A i \in DOMAIN calls : calls[i].op = "filter" => i = Len(calls)
  BY <1>1, PopFacts DEF SdTypeOK, Shape
<1>9. Top.hasData => Len(calls) \in Temporaries(g)
  BY <1>1, <1>2 DEF Temporaries
<1>10. ~Top.hasData => Temporaries(g) = {}
  BY <1>1, <1>8 DEF Temporaries
<1> SUFFICES ASSUME NEW k \in Globals PROVE GlobalOK(k)'
  BY DEF GlobalsOK
<1>11. HandlesOf(k)' = HandlesOf(k) /\ (state[k] = "alive" => display' = "alive")
  BY <1>5, HandlesSame, UsedAlive DEF displayVars
<1>12. CASE ~(Top.hasData /\ k = g)
  <2>1. KeepCalls(k)
    BY <1>1, <1>2, <1>4, <1>12, KeepCallsPop, KeepCallsReplace
  <2> QED
    BY <1>4, <1>5, <1>6, <1>11, <1>12, <2>1, KeepGlobal DEF GlobalsOK
<1>13. CASE Top.hasData /\ k = g
  <2>1. /\ Temporaries(g) # {} /\ gcounter[g] >= 1 /\ ~Ending(g) /\ g \in userData
        /\ gcounter[g] = Cardinality(HandlesOf(g)) + 1 /\ Cardinality(HandlesOf(g)) \in Nat
    BY <1>7, <1>9, <1>13, Counted, HandlesFinite DEF GlobalOK
  <2>2. CASE gcounter[g] = 1
    <3>1. calls' = Append(Below, f) /\ userData' = userData \ {g} /\ gcounter'[g] = 0
      BY <1>4, <1>6, <1>13, <2>2
    <3>2. HandlesOf(g) = {} /\ ~Used(g)
      BY <1>7, <2>1, <2>2, HandlesFinite DEF GlobalOK
    <3>3. /\ DOMAIN calls' = 1..Len(calls) /\ calls'[Len(calls)] = f
          /\ \A i \in 1..Len(calls) - 1 : calls'[i] = calls[i]
      BY <1>1, <3>1, AfterReplace
    <3>4. PICK n \in Nat \ {0} : n = Len(calls)
      BY <1>8
    <3>5. \A i \in 1..n - 1 : calls'[i].global # g
      <4> SUFFICES ASSUME NEW i \in 1..n - 1, calls[i].global = g PROVE FALSE
        BY <3>3, <3>4
      <4>1. i \in DOMAIN calls /\ i # Len(calls)
        <5>1. i \in 1..n /\ i # n
          OBVIOUS
        <5> QED
          BY <1>8, <3>4, <5>1
      <4>2. calls[i].op \in Asking \cup {"filter", "on_bind"}
        BY <4>1, CallsAbout
      <4>3. calls[i].op # "filter"
        BY <1>8, <4>1
      <4> QED
        BY <2>1, <3>2, <4>1, <4>2, <4>3 DEF Used, Ending, Asking
    <3>6. DOMAIN calls' = 1..n /\ calls'[n].op = "destroy" /\ calls'[n].global = g
      BY <1>4, <3>3, <3>4
    <3>7. /\ state'[g] = "alive" /\ HandlesOf(g)' = {} /\ g \notin userData'
          /\ gdestroys'[g] = 0 /\ display' = "alive"
      BY <1>5, <1>7, <1>11, <1>13, <3>1, <3>2 DEF GlobalOK
    <3>8. GlobalOK(g)'
      BY <3>1, <3>5, <3>6, <3>7, BeginEnd
    <3> QED
      BY <1>13, <3>8
  <2>3. CASE gcounter[g] # 1
    <3>1. calls' = Below /\ userData' = userData /\ gcounter'[g] = gcounter[g] - 1
      BY <1>4, <1>6, <1>13, <2>3
    <3>2. /\ DOMAIN calls' = 1..Len(calls) - 1
          /\ \A i \in DOMAIN calls' : i \in DOMAIN calls /\ calls'[i] = calls[i] /\ i # Len(calls)
      BY <1>1, <1>8, <3>1, AfterPop
    <3>3. Temporaries(g)' = {} /\ ~Ending(g)' /\ (Used(g)' => Used(g))
      BY <1>8, <2>1, <3>2 DEF Temporaries, Ending, Used
    <3>4. \A i \in DOMAIN calls' : ~(calls'[i].op = "destroy" /\ calls'[i].global = g)
      BY <3>3 DEF Ending
    <3>5. /\ HandlesOf(g)' = HandlesOf(g) /\ display' = "alive" /\ state'[g] = "alive"
          /\ gdestroys' = gdestroys /\ gcounter'[g] = Cardinality(HandlesOf(g)) /\ gcounter'[g] >= 1
      BY <1>5, <1>7, <1>11, <1>13, <2>1, <2>3, <3>1
    <3>6. GlobalOK(g)'
      <4> HIDE DEF Temporaries, Ending, Used, HandlesOf
      <4> QED
        BY <1>7, <2>1, <3>1, <3>3, <3>4, <3>5 DEF GlobalOK
    <3> QED
      BY <1>13, <3>6
  <2> QED
    BY <2>2, <2>3
<1> QED
  BY <1>12, <1>13

\* Every client was told: the end of a global frees it, and nobody notices.
LEMMA AllAskedOK ==
    ASSUME SdTypeOK, Shape, GlobalsOK, AllAsked
    PROVE  GlobalsOK'
<1>1. /\ On(Asking) /\ Top.global \in Globals /\ calls # <<>> /\ calls' = Below
      /\ Len(calls) \in DOMAIN calls /\ Top = calls[Len(calls)]
      /\ UNCHANGED <<displayVars, handleVars, userData, gcounter>>
  BY TopFrame, GlobalOfTop DEF AllAsked, On, Asking
<1>2. PICK g \in Globals : g = Top.global
  BY <1>1
<1>3. \A k \in Globals : IF k = g /\ Top.op = "destroy"
                         THEN state'[k] = "freed" /\ gdestroys'[k] = gdestroys[k] + 1
                         ELSE state'[k] = state[k] /\ gdestroys'[k] = gdestroys[k]
  BY <1>1, <1>2 DEF AllAsked, On, SdTypeOK
<1> SUFFICES ASSUME NEW k \in Globals PROVE GlobalOK(k)'
  BY DEF GlobalsOK
<1>4. HandlesOf(k)' = HandlesOf(k) /\ (state[k] = "alive" => display' = "alive")
  BY <1>1, HandlesSame, UsedAlive DEF displayVars
<1>5. CASE ~(k = g /\ Top.op = "destroy")
  <2>1. Top.global = k => Top.op # "destroy" /\ Top.op # "filter"
    BY <1>1, <1>2, <1>5 DEF On, Asking
  <2>2. KeepCalls(k)
    BY <1>1, <2>1, KeepCallsPop
  <2> QED
    BY <1>1, <1>3, <1>4, <1>5, <2>2, KeepGlobal DEF GlobalsOK
<1>6. CASE k = g /\ Top.op = "destroy"
  <2>1. Ending(g) /\ GlobalOK(g) /\ state[g] = "alive"
    BY <1>1, <1>2, <1>6, UsedAlive DEF Ending, GlobalsOK
  <2>2. gcounter[g] = 0 /\ g \notin userData /\ gdestroys[g] = 0
    BY <2>1 DEF GlobalOK
  <2>3. HandlesOf(g) = {}
    BY <2>1, <2>2, Counted DEF GlobalsOK
  <2>4. /\ DOMAIN calls' = 1..Len(calls) - 1 /\ Len(calls) \in Nat
        /\ \A i \in DOMAIN calls' : i \in DOMAIN calls /\ calls'[i] = calls[i]
    BY <1>1, AfterPop
  <2>5. \A i \in DOMAIN calls' : calls'[i].global # g
    <3> SUFFICES ASSUME NEW i \in DOMAIN calls' PROVE calls[i].global # g
      BY <2>4
    <3>1. i \in DOMAIN calls /\ i < Len(calls)
      BY <2>4
    <3> QED
      BY <1>1, <1>2, <1>6, <2>1, <3>1 DEF GlobalOK
  <2>6. ~Ending(g)' /\ ~Used(g)'
    BY <2>5 DEF Ending, Used
  <2>7. /\ state'[g] = "freed" /\ gdestroys'[g] = 1 /\ g \notin userData' /\ HandlesOf(g)' = {}
    BY <1>1, <1>3, <1>4, <1>6, <2>2, <2>3
  <2>8. GlobalOK(g)'
    <3> HIDE DEF Temporaries, Ending, Used, HandlesOf
    <3> QED
      BY <2>5, <2>6, <2>7 DEF GlobalOK
  <2> QED
    BY <1>6, <2>8
<1> QED
  BY <1>5, <1>6

\* The display is freed when no global is left.
LEMMA FreeDisplayOK ==
    ASSUME SdTypeOK, Shape, GlobalsOK, FreeDisplay
    PROVE  GlobalsOK'
<1>1. /\ calls # <<>> /\ Len(calls) = 1 /\ DOMAIN calls = {1} /\ Top = calls[1] /\ Below = <<>>
      /\ calls[1].op = "on_destroy" /\ withData = {} /\ calls' = <<>>
      /\ UNCHANGED <<handleVars, globalVars>>
  BY Teardown DEF FreeDisplay, On
<1> SUFFICES ASSUME NEW g \in Globals PROVE GlobalOK(g)'
  BY DEF GlobalsOK
<1>2. HandlesOf(g) = {} /\ Temporaries(g) = {} /\ ~Ending(g)
  BY <1>1 DEF HandlesOf, Temporaries, Ending
<1>3. GlobalOK(g) /\ gcounter[g] \in Int
  BY DEF GlobalsOK, SdTypeOK
<1>4. state[g] # "alive"
  <2> SUFFICES ASSUME state[g] = "alive" PROVE FALSE
    OBVIOUS
  <2>1. gcounter[g] = Cardinality(HandlesOf(g)) + 0 /\ g \in userData /\ gcounter[g] >= 1
    BY <1>2, <1>3 DEF GlobalOK
  <2> QED
    BY <1>2, <2>1, HandlesFinite
<1>5. KeepCalls(g)
  BY <1>1, <1>2 DEF KeepCalls
<1>6. HandlesOf(g)' = HandlesOf(g)
  BY <1>1, HandlesSame
<1> QED
  BY <1>1, <1>3, <1>4, <1>5, <1>6, KeepGlobal DEF globalVars

\* Steps that leave the globals and their handles alone, and put no call about
\* a global on the stack.
LEMMA GlobalsKept ==
    ASSUME SdTypeOK, GlobalsOK, UNCHANGED <<handleVars, globalVars>>,
           display = "alive" => display' = "alive", \A g \in Globals : KeepCalls(g)
    PROVE  GlobalsOK'
<1> SUFFICES ASSUME NEW g \in Globals PROVE GlobalOK(g)'
  BY DEF GlobalsOK
<1>1. HandlesOf(g)' = HandlesOf(g) /\ (state[g] = "alive" => display' = "alive")
  BY HandlesSame, UsedAlive
<1> QED
  BY <1>1, KeepGlobal DEF GlobalsOK, globalVars

\* The steps of the display and of the clients do not touch the globals.
LEMMA DisplayStepsKeep ==
    ASSUME "late_display" \notin Habits, SdTypeOK, Shape, GlobalsOK,
           \/ \E h \in Handles : CreateDisplay(h) \/ CopyDisplay(h) \/ WrapDisplay(h) \/ DropDisplay(h)
           \/ \E c \in Clients : Connect(c) \/ Disconnect(c) \/ DestroyNextClient(c)
           \/ DestroyDisplay \/ HandlerReturns
    PROVE  GlobalsOK'
<1>1. ASSUME NEW h \in Handles, CreateDisplay(h) \/ CopyDisplay(h) \/ WrapDisplay(h) PROVE GlobalsOK'
  <2>1. /\ calls' = calls /\ UNCHANGED <<handleVars, globalVars>>
        /\ (display = "alive" => display' = "alive")
    BY <1>1, WrapFinds DEF CreateDisplay, CopyDisplay, WrapDisplay
  <2> QED
    BY <2>1, KeepCallsSame, GlobalsKept
<1>2. ASSUME NEW h \in Handles, DropDisplay(h) PROVE GlobalsOK'
  <2> DEFINE f == Calling("clients", None, clients)
  <2>1. UNCHANGED <<display, handleVars, globalVars>>
        /\ (calls' = calls \/ calls' = Append(calls, f))
    BY <1>2 DEF DropDisplay, Push
  <2>2. f \in Frame /\ f.global = None
    <3>1. f.global = None
      BY DEF Calling
    <3>2. "clients" \in Library \cup Handlers /\ clients \in SUBSET Clients
      BY DEF Library, SdTypeOK
    <3>3. f \in Frame
      BY <3>2, CallingFrame
    <3> QED
      BY <3>1, <3>3
  <2> HIDE DEF f
  <2>3. \A g \in Globals : KeepCalls(g)
    BY <2>1, <2>2, KeepCallsSame, KeepCallsPush, NoneAssumption
  <2> QED
    BY <2>1, <2>3, GlobalsKept
<1>3. ASSUME NEW c \in Clients, Connect(c) PROVE GlobalsOK'
  BY <1>3, KeepCallsSame, GlobalsKept DEF Connect
<1>4. ASSUME NEW c \in Clients, Disconnect(c) PROVE GlobalsOK'
  <2> DEFINE f == [Calling("on_client_destroy", None, {}) EXCEPT !.client = c]
  <2>1. calls' = <<f>> /\ f.global = None /\ calls = <<>>
        /\ UNCHANGED <<display, handleVars, globalVars>>
    BY <1>4, ClientFrame, AppendOnly DEF Disconnect, DestroyClient, Idle
  <2> HIDE DEF f
  <2>2. \A i \in DOMAIN calls' : calls'[i].global \notin Globals
    BY <2>1, AppendOnly, NoneAssumption
  <2>3. \A g \in Globals : KeepCalls(g)
    BY <2>1, <2>2 DEF KeepCalls, Temporaries, Ending
  <2> QED
    BY <2>1, <2>3, GlobalsKept
<1>5. ASSUME NEW c \in Clients, DestroyNextClient(c) PROVE GlobalsOK'
  <2>1. /\ DOMAIN calls' = {1, 2} /\ calls'[1].global = None /\ calls'[2].global = None
    BY <1>5, ShapeNextClient
  <2>2. DOMAIN calls = {1} /\ calls[1].op = "clients"
    BY <1>5, Teardown DEF DestroyNextClient, On
  <2>3. \A i \in DOMAIN calls' : calls'[i].global \notin Globals
    BY <2>1, NoneAssumption
  <2>4. \A g \in Globals : KeepCalls(g)
    BY <2>2, <2>3 DEF KeepCalls, Temporaries, Ending
  <2>5. UNCHANGED <<display, handleVars, globalVars>>
    BY <1>5 DEF DestroyNextClient, displayVars
  <2> QED
    BY <2>4, <2>5, GlobalsKept
<1>6. CASE DestroyDisplay
  <2> DEFINE f == Calling("on_destroy", None, {})
  <2>1. f \in Frame /\ f.global = None
    <3>1. f.global = None
      BY DEF Calling
    <3>2. "on_destroy" \in Library \cup Handlers /\ {} \in SUBSET Clients
      BY DEF Handlers
    <3>3. f \in Frame
      BY <3>2, CallingFrame
    <3> QED
      BY <3>1, <3>3
  <2>2. /\ calls # <<>> /\ Top.global = None /\ calls' = Append(Below, f)
        /\ UNCHANGED <<display, handleVars, globalVars>>
    BY <1>6, TopFrame DEF DestroyDisplay, On, Shape, AboutOK, displayVars
  <2> HIDE DEF f
  <2>3. \A g \in Globals : KeepCalls(g)
    BY <2>1, <2>2, KeepCallsReplace, NoneAssumption
  <2> QED
    BY <2>2, <2>3, GlobalsKept
<1>7. CASE HandlerReturns
  <2>1. /\ calls # <<>> /\ Top.op \notin {"destroy", "filter"} /\ calls' = Below
        /\ UNCHANGED <<display, handleVars, globalVars>>
    BY <1>7 DEF HandlerReturns, On, displayVars
  <2>2. \A g \in Globals : KeepCalls(g)
    BY <2>1, KeepCallsPop
  <2> QED
    BY <2>1, <2>2, GlobalsKept
<1> QED
  BY <1>1, <1>2, <1>3, <1>4, <1>5, <1>6, <1>7

\* Every step keeps what is known of the globals.
LEMMA GlobalsStep ==
    ASSUME "late_display" \notin Habits, SdTypeOK, Shape, DisplayOK, GlobalsOK, [Next]_vars
    PROVE  GlobalsOK'
<1>1. CASE UNCHANGED vars
  <2>1. calls' = calls /\ UNCHANGED <<display, handleVars, globalVars>>
    BY <1>1 DEF vars, displayVars
  <2> QED
    BY <2>1, KeepCallsSame, GlobalsKept
<1>2. CASE ProgramStep
  BY <1>2, DisplayStepsKeep, NewGlobalOK, CopyGlobalOK, DropGlobalOK, RemoveGlobalOK, FilterKeepsOK
     DEF ProgramStep
<1>3. CASE ClientStep
  BY <1>3, DisplayStepsKeep, ListGlobalOK, BindOK DEF ClientStep
<1>4. CASE LibraryStep
  BY <1>4, DisplayStepsKeep, AllAskedOK, AskFilterOK DEF LibraryStep
<1>5. CASE HandlerEnds
  <2>1. withData \subseteq GlobalHandles
    BY DEF SdTypeOK
  <2> QED
    BY <1>5, <2>1, DisplayStepsKeep, FilterReturnsOK, FreeDisplayOK, DropGlobalOK DEF HandlerEnds
<1> QED
  BY <1>1, <1>2, <1>3, <1>4, <1>5 DEF Next
-----------------------------------------------------------------------------
(* The theorems *)

\* The invariant holds initially,
LEMMA SdInvInit == Init => SdInv
<1> SUFFICES ASSUME Init PROVE SdInv
  OBVIOUS
<1>1. SdTypeOK
  BY DEF Init, SdTypeOK
<1>2. Shape
  BY DEF Init, Shape
<1>3. DisplayOK
  BY DEF Init, DisplayOK, DisplayCounted
<1>4. GlobalsOK
  BY DEF Init, GlobalsOK, GlobalOK, HandlesOf, Temporaries, Ending, Used
<1> QED
  BY <1>1, <1>2, <1>3, <1>4 DEF SdInv

\* every step keeps it, unless a handler of the teardown asks for the display,
LEMMA SdInvStep ==
    ASSUME "late_display" \notin Habits
    PROVE  SdInv /\ [Next]_vars => SdInv'
<1> SUFFICES ASSUME SdInv, [Next]_vars PROVE SdInv'
  OBVIOUS
<1>1. SdTypeOK /\ Shape /\ DisplayOK /\ GlobalsOK
  BY DEF SdInv
<1>2. SdTypeOK'
  BY <1>1, TypeStep
<1>3. Shape'
  BY <1>1, ShapeStep
<1>4. DisplayOK'
  BY <1>1, DisplayStep
<1>5. GlobalsOK'
  BY <1>1, GlobalsStep
<1> QED
  BY <1>2, <1>3, <1>4, <1>5 DEF SdInv

\* and so it holds always.
LEMMA SdInvHolds ==
    ASSUME "late_display" \notin Habits
    PROVE  Spec => []SdInv
BY SdInvInit, SdInvStep, PTL DEF Spec

\* A filter's call is the last one: there is one temporary handle at most.
LEMMA OneTemporary ==
    ASSUME Shape, NEW g
    PROVE  Cardinality(Temporaries(g)) = IF Temporaries(g) = {} THEN 0 ELSE 1
<1>1. Temporaries(g) \subseteq {Len(calls)}
  BY DEF Shape, Temporaries
<1>2. Temporaries(g) = {} \/ Temporaries(g) = {Len(calls)}
  BY <1>1
<1> QED
  BY <1>2, FS_EmptySet, FS_Singleton

\* What the invariant says about the properties that the runs check.
LEMMA SdInvProperties ==
    SdInv => DisplayCounted /\ TornDownOnce /\ GlobalCounted /\ NothingFreedInUse /\ ClientsGoFirst
<1> SUFFICES ASSUME SdTypeOK, Shape, DisplayOK, GlobalsOK
             PROVE  DisplayCounted /\ TornDownOnce /\ GlobalCounted /\ NothingFreedInUse /\ ClientsGoFirst
  BY DEF SdInv
<1>1. DisplayCounted
  BY DEF DisplayOK
<1>2. TornDownOnce
  BY DEF TornDownOnce, DisplayOK, GlobalsOK, GlobalOK
<1>3. GlobalCounted
  <2> SUFFICES ASSUME NEW g \in Globals, state[g] = "alive"
               PROVE  gcounter[g] = Cardinality(HandlesOf(g)) + Cardinality(Temporaries(g))
    BY DEF GlobalCounted
  <2> QED
    BY OneTemporary DEF GlobalsOK, GlobalOK
<1>4. NothingFreedInUse
  <2>1. \A h \in withData : state[global[h]] = "alive"
    BY UsedAlive
  <2>2. \A g \in Globals : state[g] = "alive" => display = "alive"
    BY UsedAlive
  <2>3. ASSUME NEW i \in DOMAIN calls
        PROVE  /\ display = "alive"
               /\ calls[i].global # None => state[calls[i].global] = "alive"
    <3>1. calls # <<>> /\ calls[i] \in Frame
      BY EmptySeq DEF SdTypeOK
    <3>2. calls[i].global # None => calls[i].global \in Globals
      BY <3>1 DEF Frame
    <3> QED
      BY <3>1, <3>2, UsedAlive DEF DisplayOK
  <2> QED
    BY <2>1, <2>2, <2>3 DEF NothingFreedInUse
<1>5. ClientsGoFirst
  <2>1. CASE display = "freed"
    <3>1. clients = {} /\ calls = <<>>
      BY <2>1 DEF DisplayOK
    <3>2. Registries = {}
      BY <3>1 DEF Registries
    <3> QED
      BY <3>1, <3>2 DEF ClientsGoFirst
  <2>2. CASE On({"on_destroy"})
    <3>1. /\ DOMAIN calls = {1} /\ calls[1].op = "on_destroy" /\ calls # <<>>
      BY <2>2, Teardown DEF On
    <3>2. calls[1].client = None /\ clients = {} /\ display = "alive"
      BY <3>1 DEF Shape, AboutOK, DisplayOK
    <3>3. Registries = {}
      BY <3>1, <3>2 DEF Registries
    <3> QED
      BY <3>2, <3>3 DEF ClientsGoFirst
  <2> QED
    BY <2>1, <2>2 DEF ClientsGoFirst
<1> QED
  BY <1>1, <1>2, <1>3, <1>4, <1>5

\* Whatever the program and its clients do, the state stays within the types,
\* the call stack included.
THEOREM ServerTypeCorrect ==
    ASSUME "late_display" \notin Habits
    PROVE  Spec => []SdTypeOK
<1>1. SdInv => SdTypeOK
  BY DEF SdInv
<1> QED
  BY <1>1, SdInvHolds, PTL

\* display_t::data_t::counter is exact from wl_display_create() to fini(), if no
\* handler of the teardown itself asks for the display (see Habits).
THEOREM DisplayCountedCorrect ==
    ASSUME "late_display" \notin Habits
    PROVE  Spec => []DisplayCounted
BY SdInvProperties, SdInvHolds, PTL

\* fini() destroys the display once, and every global once, although handlers
\* and the filter run, and get handles, in between.
THEOREM TornDownOnceCorrect ==
    ASSUME "late_display" \notin Habits
    PROVE  Spec => []TornDownOnce
BY SdInvProperties, SdInvHolds, PTL

\* global_base_t::data_t::counter is exact: the program's handles and the
\* filter's temporary one.
THEOREM GlobalCountedCorrect ==
    ASSUME "late_display" \notin Habits
    PROVE  Spec => []GlobalCounted
BY SdInvProperties, SdInvHolds, PTL

\* No handle and no call in progress reaches a freed global or display.
THEOREM NothingFreedInUseCorrect ==
    ASSUME "late_display" \notin Habits
    PROVE  Spec => []NothingFreedInUse
BY SdInvProperties, SdInvHolds, PTL

\* When the display's on_destroy handler runs, no client is left.
THEOREM ClientsGoFirstCorrect ==
    ASSUME "late_display" \notin Habits
    PROVE  Spec => []ClientsGoFirst
BY SdInvProperties, SdInvHolds, PTL
-----------------------------------------------------------------------------
(* The display and the globals of a server are SharedObjects: every step is  *)
(* a step or a stutter of each of them.                                      *)

\* What holds an object, and whether it exists; None stands for the display.
Holding(o) == IF o = None THEN displays ELSE HandlesOf(o) \cup Temporaries(o)
Exists(o)  == IF o = None THEN display = "alive" ELSE state[o] = "alive"
AllHolders == Handles \cup GlobalHandles \cup Depths

\* The steps of SharedObject, of one object.
StepOf(o) ==
    \/ ~Exists(o) /\ Exists(o)' /\ \E h \in AllHolders : Holding(o)' = {h}
    \/ /\ Exists(o) /\ Exists(o)' /\ Holding(o) # {}
       /\ \E h \in AllHolders \ Holding(o) : Holding(o)' = Holding(o) \cup {h}
    \/ /\ Exists(o) /\ Exists(o)'
       /\ \E h \in Holding(o) : Holding(o)' = Holding(o) \ {h}
    \/ Exists(o) /\ ~Exists(o)' /\ Holding(o) = {} /\ Holding(o)' = {}
    \/ (Exists(o)' <=> Exists(o)) /\ Holding(o)' = Holding(o)

\* They are: StepOf in the words of SharedObject.
LEMMA StepsRefine ==
    ASSUME \A o \in Globals \cup {None} : StepOf(o)
    PROVE  Shared!Next
<1> DEFINE H == [o \in Globals \cup {None} |->
                   IF o = None THEN displays ELSE HandlesOf(o) \cup Temporaries(o)]
           X == {o \in Globals \cup {None} : IF o = None THEN display = "alive" ELSE state[o] = "alive"}
<1>1. \A o \in Globals \cup {None} :
         /\ H[o] = Holding(o) /\ H'[o] = Holding(o)'
         /\ (o \in X <=> Exists(o)) /\ (o \in X' <=> Exists(o)')
  BY DEF Holding, Exists
<1> HIDE DEF H, X
<1> SUFFICES ASSUME NEW o \in Globals \cup {None}
             PROVE  \/ /\ o \notin X /\ o \in X' /\ \E h \in AllHolders : H'[o] = {h}
                    \/ /\ o \in X /\ H[o] # {}
                       /\ \E h \in AllHolders \ H[o] : H'[o] = H[o] \cup {h}
                       /\ (o \in X') = (o \in X)
                    \/ /\ o \in X
                       /\ \E g \in H[o], h \in AllHolders \ H[o] : H'[o] = (H[o] \ {g}) \cup {h}
                       /\ (o \in X') = (o \in X)
                    \/ /\ o \in X /\ \E h \in H[o] : H'[o] = H[o] \ {h}
                       /\ (o \in X') = (o \in X)
                    \/ /\ o \in X /\ o \notin X' /\ H[o] = {} /\ H'[o] = {}
                    \/ H'[o] = H[o] /\ (o \in X') = (o \in X)
  BY DEF Shared!Next, Shared!Create, Shared!Share, Shared!Pass, Shared!Drop, Shared!Dispose,
         Shared!Stutter, Shared!Stays, H, X, AllHolders
<1>2. StepOf(o)
  OBVIOUS
<1> HIDE DEF Holding, Exists
<1> QED
  BY <1>1, <1>2 DEF StepOf

\* The display is created, shared, dropped and disposed of.
LEMMA DisplayRefines ==
    ASSUME "late_display" \notin Habits, SdInv, [Next]_vars
    PROVE  StepOf(None)
<1> USE DEF Holding, Exists
<1>0. SdTypeOK /\ Shape /\ DisplayOK /\ GlobalsOK
  BY DEF SdInv
<1>1. CASE UNCHANGED <<display, displays>>
  BY <1>1 DEF StepOf
<1>2. ASSUME NEW h \in Handles, CreateDisplay(h) PROVE StepOf(None)
  <2>1. display = "none" /\ display' = "alive" /\ displays' = {h} /\ h \in AllHolders
    BY <1>2 DEF CreateDisplay, AllHolders
  <2> QED
    BY <2>1 DEF StepOf
<1>3. ASSUME NEW h \in Handles, CopyDisplay(h) \/ WrapDisplay(h) PROVE StepOf(None)
  <2>1. displays # {}
    <3>1. CASE CopyDisplay(h)
      BY <3>1 DEF CopyDisplay
    <3>2. CASE WrapDisplay(h)
      <4>1. counter = Cardinality(displays) /\ counter > 0
        BY <1>0, <3>2, WrapFinds DEF WrapDisplay, DisplayOK, DisplayCounted
      <4> QED
        BY <1>0, <4>1, DisplaysFinite
    <3> QED
      BY <1>3, <3>1, <3>2
  <2>2. display = "alive" /\ display' = "alive" /\ displays' = displays \cup {h}
        /\ h \in AllHolders \ displays
    BY <1>0, <1>3, <2>1 DEF CopyDisplay, WrapDisplay, DisplayOK, AllHolders
  <2> QED
    BY <2>1, <2>2 DEF StepOf
<1>4. ASSUME NEW h \in Handles, DropDisplay(h) PROVE StepOf(None)
  <2>1. display = "alive" /\ display' = "alive" /\ displays' = displays \ {h} /\ h \in displays
    BY <1>0, <1>4 DEF DropDisplay, DisplayOK
  <2> QED
    BY <2>1 DEF StepOf
<1>5. CASE FreeDisplay
  <2>1. calls # <<>> /\ Len(calls) \in DOMAIN calls /\ calls[Len(calls)].op = "on_destroy"
    BY <1>0, <1>5, TopFrame DEF FreeDisplay, On
  <2>2. display = "alive" /\ displays = {} /\ display' = "freed" /\ displays' = {}
    BY <1>0, <1>5, <2>1 DEF FreeDisplay, DisplayOK
  <2> QED
    BY <2>2 DEF StepOf
<1>6. CASE ClientStep \/ LibraryStep \/ UNCHANGED vars
  BY <1>1, <1>6 DEF ClientStep, LibraryStep, vars, displayVars, Connect, Disconnect, ListGlobal, Bind,
     CallFilter, AskFilter, DestroyNextClient, DestroyDisplay, AllAsked
<1>7. CASE ProgramStep
  <2>1. ASSUME NEW h \in GlobalHandles, NEW g \in Globals, NewGlobal(h, g) PROVE StepOf(None)
    BY <1>1, <2>1 DEF NewGlobal, displayVars
  <2>2. ASSUME NEW h \in GlobalHandles, NEW from \in GlobalHandles, CopyGlobal(h, from) PROVE StepOf(None)
    BY <1>1, <2>2 DEF CopyGlobal, displayVars
  <2>3. ASSUME NEW h \in GlobalHandles, DropGlobal(h) \/ RemoveGlobal(h) \/ FilterKeeps(h)
        PROVE  StepOf(None)
    BY <1>1, <2>3 DEF DropGlobal, RemoveGlobal, FilterKeeps, displayVars
  <2> QED
    BY <1>2, <1>3, <1>4, <1>7, <2>1, <2>2, <2>3 DEF ProgramStep
<1>8. CASE HandlerEnds
  <2>1. CASE HandlerReturns \/ FilterReturns
    BY <1>1, <2>1 DEF HandlerReturns, FilterReturns, displayVars
  <2>2. ASSUME NEW h \in withData, DropGlobal(h) PROVE StepOf(None)
    BY <1>1, <2>2 DEF DropGlobal, displayVars
  <2> QED
    BY <1>5, <1>8, <2>1, <2>2 DEF HandlerEnds
<1> QED
  BY <1>6, <1>7, <1>8 DEF Next
-----------------------------------------------------------------------------
(* Temporary handles *)

\* Calls nest four deep at most, and only the last one is the filter's.
LEMMA TemporaryPlace ==
    ASSUME SdTypeOK, Shape, NEW g
    PROVE  Temporaries(g) \subseteq Depths \cap {Len(calls)}
<1>1. calls \in Seq(Frame) /\ Len(calls) \in Nat /\ DOMAIN calls = 1..Len(calls)
  BY DEF SdTypeOK
<1>2. Len(calls) <= 4
  <2> SUFFICES ASSUME Len(calls) > 4 PROVE FALSE
    BY <1>1
  <2> DEFINE n == Len(calls)
  <2>0. n \in Nat /\ n > 4 /\ DOMAIN calls = 1..n
    BY <1>1
  <2> HIDE DEF n
  <2>1. 3 \in DOMAIN calls /\ 4 \in DOMAIN calls /\ 4 # n /\ 3 # n
    BY <2>0
  <2>2. calls[3].op \in Library \cup Handlers
    <3>1. calls[3] \in Frame
      BY <2>1 DEF SdTypeOK
    <3> QED
      BY <3>1 DEF Frame
  <2>3. calls[3].op \in Asking
    BY <2>1, <2>2 DEF Shape, Library, Handlers, Asking, n
  <2>4. calls[4].op = "filter"
    BY <2>1, <2>3 DEF Shape
  <2> QED
    BY <2>1, <2>4 DEF Shape, n
<1>3. \A i \in Temporaries(g) : i \in DOMAIN calls /\ i = Len(calls)
  BY DEF Shape, Temporaries
<1> QED
  BY <1>1, <1>2, <1>3 DEF Depths

\* Where the last call is not the filter's there are none.
LEMMA NoTemporaries ==
    ASSUME SdTypeOK, Shape, calls # <<>> => Top.op # "filter", NEW g
    PROVE  Temporaries(g) = {}
<1>1. \A i \in DOMAIN calls : calls # <<>>
  BY EmptySeq DEF SdTypeOK
<1> QED
  BY <1>1 DEF Shape, Temporaries, Top

\* Handles and temporary handles are told apart.
LEMMA ApartHolders ==
    ASSUME SdTypeOK, Shape, NEW g \in Globals
    PROVE  /\ HandlesOf(g) \subseteq GlobalHandles /\ HandlesOf(g) \cap Depths = {}
           /\ Temporaries(g) \cap GlobalHandles = {}
           /\ Holding(g) = HandlesOf(g) \cup Temporaries(g)
           /\ Exists(g) <=> state[g] = "alive"
           /\ Holding(g)' = HandlesOf(g)' \cup Temporaries(g)' /\ (Exists(g)' <=> state'[g] = "alive")
<1>1. HandlesOf(g) \subseteq GlobalHandles
  BY DEF HandlesOf, SdTypeOK
<1>2. GlobalHandles \cap Depths = {}
  BY DepthAssumption
<1>3. Temporaries(g) \subseteq Depths
  BY TemporaryPlace
<1> QED
  BY <1>1, <1>2, <1>3, NoneAssumption DEF Holding, Exists

\* Steps other than the filter's: it is not asked before, nor after.
NoFilter == \A i \in DOMAIN calls : calls[i].op # "filter"

FilterStep ==
    \/ \E c \in Clients : AskFilter(c)
    \/ \E g \in Globals : ListGlobal(g)
    \/ \E h \in GlobalHandles : FilterKeeps(h)
    \/ FilterReturns

\* No call of the filter among them, no temporary handle.
LEMMA NoFilterFacts == NoFilter => \A g : Temporaries(g) = {}
BY DEF NoFilter, Temporaries

LEMMA NoFilterBefore ==
    ASSUME SdTypeOK, Shape, calls # <<>> => Top.op # "filter"
    PROVE  NoFilter
<1>1. \A i \in DOMAIN calls : calls # <<>>
  BY EmptySeq DEF SdTypeOK
<1> QED
  BY <1>1 DEF Shape, NoFilter, Top

\* Other calls come and go, and still none is the filter's.
LEMMA NoFilterPush ==
    ASSUME SdTypeOK, NoFilter, NEW f \in Frame, f.op # "filter", calls' = Append(calls, f)
    PROVE  NoFilter'
<1>1. \A i \in DOMAIN calls' : (i \in DOMAIN calls /\ calls'[i] = calls[i]) \/ calls'[i] = f
  BY AfterPush
<1> QED
  BY <1>1 DEF NoFilter

LEMMA NoFilterPop ==
    ASSUME SdTypeOK, NoFilter, calls # <<>>, calls' = Below
    PROVE  NoFilter'
<1>1. \A i \in DOMAIN calls' : i \in DOMAIN calls /\ calls'[i] = calls[i]
  BY AfterPop
<1> QED
  BY <1>1 DEF NoFilter

LEMMA NoFilterStep ==
    ASSUME "late_display" \notin Habits, SdTypeOK, Shape, GlobalsOK, Next, ~FilterStep
    PROVE  NoFilter /\ NoFilter'
<1>1. ASSUME ProgramRuns PROVE NoFilter
  BY <1>1, NoFilterBefore DEF ProgramRuns, Idle, On, Handlers
<1>2. ASSUME Idle PROVE NoFilter
  BY <1>2, NoFilterBefore DEF Idle
<1>3. ASSUME NEW ops, "filter" \notin ops, On(ops) PROVE NoFilter
  BY <1>3, NoFilterBefore DEF On
<1>4. ASSUME NoFilter, calls' = calls PROVE NoFilter'
  BY <1>4 DEF NoFilter
<1>5. ASSUME NEW f, f.op # "filter", calls' = <<f>> PROVE NoFilter'
  BY <1>5, AppendOnly DEF NoFilter
<1>6. ASSUME NEW h \in Handles, CreateDisplay(h) \/ CopyDisplay(h) \/ WrapDisplay(h)
      PROVE  NoFilter /\ NoFilter'
  BY <1>1, <1>4, <1>6, WrapFinds DEF CreateDisplay, CopyDisplay, WrapDisplay, ProgramRuns
<1>7. ASSUME NEW h \in Handles, DropDisplay(h) PROVE NoFilter /\ NoFilter'
  <2> DEFINE f == Calling("clients", None, clients)
  <2>1. NoFilter /\ (calls' = calls \/ calls' = Append(calls, f))
    BY <1>1, <1>7 DEF DropDisplay, Push
  <2>2. f \in Frame
    <3>1. "clients" \in Library \cup Handlers /\ clients \in SUBSET Clients
      BY DEF Library, SdTypeOK
    <3> QED
      BY <3>1, CallingFrame
  <2>3. f.op # "filter"
    BY DEF Calling
  <2> HIDE DEF f
  <2> QED
    BY <1>4, <2>1, <2>2, <2>3, NoFilterPush
<1>8. ASSUME NEW h \in GlobalHandles, NEW g \in Globals, NewGlobal(h, g) PROVE NoFilter /\ NoFilter'
  <2> DEFINE f == Calling("announce", g, Registries)
  <2>1. NoFilter /\ calls' = Append(calls, f)
    BY <1>1, <1>8 DEF NewGlobal, Push
  <2>2. f \in Frame /\ f.op # "filter"
    BY AskingFrame, RegistriesType DEF Asking
  <2> HIDE DEF f
  <2> QED
    BY <2>1, <2>2, NoFilterPush
<1>9. ASSUME NEW h \in GlobalHandles, NEW from \in GlobalHandles, CopyGlobal(h, from)
      PROVE  NoFilter /\ NoFilter'
  BY <1>1, <1>4, <1>9 DEF CopyGlobal
<1>10. ASSUME NEW h \in GlobalHandles, DropGlobal(h) PROVE NoFilter /\ NoFilter'
  <2> DEFINE left == IF global[h] \in removed THEN {} ELSE Registries
             f == Calling("destroy", global[h], left)
  <2>1. NoFilter /\ global[h] \in Globals /\ (calls' = calls \/ calls' = Append(calls, f))
    BY <1>1, <1>10 DEF DropGlobal, Fini, SdTypeOK
  <2>2. f \in Frame /\ f.op # "filter"
    BY <2>1, AskingFrame, RegistriesType DEF Asking
  <2> HIDE DEF f, left
  <2> QED
    BY <1>4, <2>1, <2>2, NoFilterPush
<1>11. ASSUME NEW h \in GlobalHandles, RemoveGlobal(h) PROVE NoFilter /\ NoFilter'
  <2> DEFINE f == Calling("withdraw", global[h], Registries)
  <2>1. NoFilter /\ global[h] \in Globals /\ calls' = Append(calls, f)
    BY <1>1, <1>11, UsedAlive DEF RemoveGlobal, Push
  <2>2. f \in Frame /\ f.op # "filter"
    BY <2>1, AskingFrame, RegistriesType DEF Asking
  <2> HIDE DEF f
  <2> QED
    BY <2>1, <2>2, NoFilterPush
<1>12. ASSUME NEW c \in Clients, Connect(c) PROVE NoFilter /\ NoFilter'
  BY <1>2, <1>4, <1>12 DEF Connect
<1>13. ASSUME NEW c \in Clients, Disconnect(c) PROVE NoFilter /\ NoFilter'
  <2> DEFINE f == [Calling("on_client_destroy", None, {}) EXCEPT !.client = c]
  <2>1. calls' = <<f>> /\ f.op # "filter" /\ NoFilter
    BY <1>2, <1>13, ClientFrame, AppendOnly DEF Disconnect, DestroyClient
  <2> HIDE DEF f
  <2> QED
    BY <1>5, <2>1
<1>14. ASSUME NEW g \in Globals, Bind(g) PROVE NoFilter /\ NoFilter'
  <2> DEFINE f == Calling("on_bind", g, {})
  <2>1. NoFilter /\ calls' = Append(calls, f)
    BY <1>2, <1>14 DEF Bind, Push
  <2>2. f \in Frame /\ f.op # "filter"
    BY CallingFrame DEF Handlers, Calling
  <2> HIDE DEF f
  <2> QED
    BY <2>1, <2>2, NoFilterPush
<1>15. ASSUME NEW c \in Clients, DestroyNextClient(c) PROVE NoFilter /\ NoFilter'
  <2>1. NoFilter
    BY <1>3, <1>15 DEF DestroyNextClient
  <2>2. DOMAIN calls' = {1, 2} /\ calls'[1].op = "clients" /\ calls'[2].op = "on_client_destroy"
    BY <1>15, ShapeNextClient
  <2> QED
    BY <2>1, <2>2 DEF NoFilter
<1>16. CASE DestroyDisplay
  <2> DEFINE f == Calling("on_destroy", None, {})
  <2>1. f.op # "filter"
    BY DEF Calling
  <2>2. calls' = <<f>> /\ NoFilter
    BY <1>3, <1>16, Teardown, AppendOnly DEF DestroyDisplay, On
  <2> HIDE DEF f
  <2> QED
    BY <1>5, <2>1, <2>2
<1>17. CASE HandlerReturns \/ FreeDisplay \/ AllAsked
  <2>1. NoFilter /\ calls # <<>> /\ calls' = Below
    BY <1>3, <1>17 DEF HandlerReturns, FreeDisplay, AllAsked, On
  <2> QED
    BY <2>1, NoFilterPop
<1>18. withData \subseteq GlobalHandles
  BY DEF SdTypeOK
<1>19. CASE ProgramStep
  BY <1>6, <1>7, <1>8, <1>9, <1>10, <1>11, <1>19 DEF ProgramStep, FilterStep
<1>20. CASE ClientStep
  BY <1>12, <1>13, <1>14, <1>20 DEF ClientStep, FilterStep
<1>21. CASE LibraryStep \/ HandlerEnds
  BY <1>10, <1>15, <1>16, <1>17, <1>18, <1>21 DEF LibraryStep, HandlerEnds, FilterStep
<1> QED
  BY <1>19, <1>20, <1>21 DEF Next
-----------------------------------------------------------------------------
(* A global is created, shared, dropped and disposed of *)

\* The steps, in terms of handles and temporary handles.
LEMMA StutterStep ==
    ASSUME NEW g \in Globals, state'[g] = state[g], HandlesOf(g)' = HandlesOf(g),
           Temporaries(g)' = Temporaries(g)
    PROVE  StepOf(g)
BY NoneAssumption DEF StepOf, Holding, Exists

LEMMA ShareStep ==
    ASSUME SdTypeOK, Shape, NEW g \in Globals, state[g] = "alive", state'[g] = "alive",
           HandlesOf(g) \cup Temporaries(g) # {},
           NEW h \in AllHolders, h \notin HandlesOf(g) \cup Temporaries(g),
           HandlesOf(g)' \cup Temporaries(g)' = (HandlesOf(g) \cup Temporaries(g)) \cup {h}
    PROVE  StepOf(g)
<1>1. Holding(g)' = Holding(g) \cup {h} /\ Holding(g) # {} /\ h \notin Holding(g)
      /\ Exists(g) /\ Exists(g)'
  BY ApartHolders
<1> QED
  BY <1>1 DEF StepOf

LEMMA DropStep ==
    ASSUME SdTypeOK, Shape, NEW g \in Globals, state[g] = "alive", state'[g] = "alive",
           NEW h \in HandlesOf(g) \cup Temporaries(g),
           HandlesOf(g)' \cup Temporaries(g)' = (HandlesOf(g) \cup Temporaries(g)) \ {h}
    PROVE  StepOf(g)
<1>1. Holding(g)' = Holding(g) \ {h} /\ h \in Holding(g) /\ Exists(g) /\ Exists(g)'
  BY ApartHolders
<1> QED
  BY <1>1 DEF StepOf

\* Steps that are not the filter's.
LEMMA OtherRefines ==
    ASSUME "late_display" \notin Habits, SdTypeOK, Shape, DisplayOK, GlobalsOK, Next, ~FilterStep, NEW g \in Globals
    PROVE  StepOf(g)
<1>1. Temporaries(g) = {} /\ Temporaries(g)' = {}
  <2>1. NoFilter /\ NoFilter'
    BY NoFilterStep
  <2> QED
    BY <2>1 DEF NoFilter, Temporaries
<1>2. ASSUME UNCHANGED handleVars, state' = state PROVE StepOf(g)
  BY <1>1, <1>2, HandlesSame, StutterStep
<1>3. ASSUME NEW h \in GlobalHandles, NEW k \in Globals, NewGlobal(h, k) PROVE StepOf(g)
  <2>1. /\ state' = [state EXCEPT ![k] = "alive"] /\ state[k] = "none"
        /\ global[h] = None /\ global' = [global EXCEPT ![h] = k]
        /\ withData' = IF TRUE THEN withData \cup {h} ELSE withData
    BY <1>3 DEF NewGlobal
  <2>2. HandlesOf(k)' = HandlesOf(k) \cup {h} /\ (g # k => HandlesOf(g)' = HandlesOf(g))
    BY <2>1, HandleMade
  <2>3. CASE g # k
    <3>1. state'[g] = state[g]
      BY <2>1, <2>3 DEF SdTypeOK
    <3> QED
      BY <1>1, <2>2, <2>3, <3>1, StutterStep
  <2>4. CASE g = k
    <3>1. state'[g] = "alive" /\ state[g] = "none"
      BY <2>1, <2>4 DEF SdTypeOK
    <3>2. HandlesOf(g) = {}
      BY <3>1 DEF GlobalsOK, GlobalOK
    <3>3. Holding(g)' = {h} /\ ~Exists(g) /\ Exists(g)' /\ h \in AllHolders
      BY <1>1, <2>2, <2>4, <3>1, <3>2, ApartHolders DEF AllHolders
    <3> QED
      BY <3>3 DEF StepOf
  <2> QED
    BY <2>3, <2>4
<1>4. ASSUME NEW h \in GlobalHandles, NEW from \in GlobalHandles, CopyGlobal(h, from) PROVE StepOf(g)
  <2>1. PICK k \in Globals, d \in BOOLEAN : k = global[from] /\ d = (from \in withData)
    <3>1. global[from] \in Globals
      BY <1>4 DEF CopyGlobal, SdTypeOK
    <3>2. (from \in withData) \in BOOLEAN
      OBVIOUS
    <3> QED
      BY <3>1, <3>2, Zenon
  <2>2. /\ state' = state /\ global[h] = None /\ global' = [global EXCEPT ![h] = k]
        /\ withData' = IF d THEN withData \cup {h} ELSE withData
    BY <1>4, <2>1 DEF CopyGlobal
  <2>3. /\ h \notin HandlesOf(k)
        /\ HandlesOf(k)' = IF d THEN HandlesOf(k) \cup {h} ELSE HandlesOf(k)
        /\ (g # k => HandlesOf(g)' = HandlesOf(g))
    BY <2>2, HandleMade
  <2>4. CASE g # k \/ ~d
    BY <1>1, <2>2, <2>3, <2>4, StutterStep
  <2>5. CASE g = k /\ d
    <3>1. from \in HandlesOf(g) /\ state[g] = "alive"
      BY <2>1, <2>5, UsedAlive
    <3> QED
      BY <1>1, <2>2, <2>3, <2>5, <3>1, ShareStep DEF AllHolders
  <2> QED
    BY <2>4, <2>5
<1>5. ASSUME NEW h \in GlobalHandles, DropGlobal(h) PROVE StepOf(g)
  <2>1. state' = state /\ HandlesOf(g)' = HandlesOf(g) \ {h}
    BY <1>5, HandleDropped DEF DropGlobal
  <2>2. CASE h \notin HandlesOf(g)
    BY <1>1, <2>1, <2>2, StutterStep
  <2>3. CASE h \in HandlesOf(g)
    <3>1. state[g] = "alive"
      BY <2>3, Counted
    <3> QED
      BY <1>1, <2>1, <2>3, <3>1, DropStep
  <2> QED
    BY <2>2, <2>3
<1>6. CASE AllAsked
  <2>1. /\ Top.global \in Globals /\ UNCHANGED handleVars
        /\ state' = IF On({"destroy"}) THEN [state EXCEPT ![Top.global] = "freed"] ELSE state
    BY <1>6, GlobalOfTop DEF AllAsked, On, Asking
  <2>2. CASE ~(On({"destroy"}) /\ Top.global = g)
    <3>1. state'[g] = state[g]
      BY <2>1, <2>2 DEF SdTypeOK
    <3> QED
      BY <1>1, <2>1, <3>1, HandlesSame, StutterStep
  <2>3. CASE On({"destroy"}) /\ Top.global = g
    <3>1. Len(calls) \in DOMAIN calls /\ Top = calls[Len(calls)] /\ Top.op = "destroy"
      BY <2>3, TopFrame DEF On
    <3>2. Ending(g) /\ state[g] = "alive"
      BY <2>3, <3>1, UsedAlive DEF Ending
    <3>3. HandlesOf(g) = {}
      BY <3>2, Counted
    <3>4. state'[g] = "freed"
      BY <2>1, <2>3 DEF SdTypeOK
    <3>5. Holding(g) = {} /\ Holding(g)' = {} /\ Exists(g) /\ ~Exists(g)'
      BY <1>1, <2>1, <3>2, <3>3, <3>4, HandlesSame, ApartHolders
    <3> QED
      BY <3>5 DEF StepOf
  <2> QED
    BY <2>2, <2>3
<1>7. withData \subseteq GlobalHandles
  BY DEF SdTypeOK
<1>8. CASE ProgramStep
  <2>1. ASSUME NEW h \in Handles, CreateDisplay(h) \/ CopyDisplay(h) \/ WrapDisplay(h) \/ DropDisplay(h)
        PROVE  StepOf(g)
    BY <1>2, <2>1 DEF CreateDisplay, CopyDisplay, WrapDisplay, DropDisplay, globalVars
  <2>2. ASSUME NEW h \in GlobalHandles, RemoveGlobal(h) PROVE StepOf(g)
    BY <1>2, <2>2 DEF RemoveGlobal, globalVars
  <2> QED
    BY <1>3, <1>4, <1>5, <1>8, <2>1, <2>2 DEF ProgramStep, FilterStep
<1>9. CASE ClientStep
  <2>1. ASSUME NEW c \in Clients, Connect(c) \/ Disconnect(c) PROVE StepOf(g)
    BY <1>2, <2>1 DEF Connect, Disconnect, globalVars
  <2>2. ASSUME NEW k \in Globals, Bind(k) PROVE StepOf(g)
    BY <1>2, <2>2 DEF Bind, globalVars
  <2> QED
    BY <1>9, <2>1, <2>2 DEF ClientStep, FilterStep
<1>10. CASE LibraryStep \/ HandlerEnds
  <2>1. ASSUME NEW c \in Clients, DestroyNextClient(c) PROVE StepOf(g)
    BY <1>2, <2>1 DEF DestroyNextClient, globalVars
  <2>2. CASE DestroyDisplay \/ HandlerReturns \/ FreeDisplay
    BY <1>2, <2>2 DEF DestroyDisplay, HandlerReturns, FreeDisplay, globalVars
  <2> QED
    BY <1>5, <1>6, <1>7, <1>10, <2>1, <2>2 DEF LibraryStep, HandlerEnds, FilterStep
<1> QED
  BY <1>8, <1>9, <1>10 DEF Next

\* The filter's temporary handle shares a global that still has its user data ...
LEMMA FilterCalledRefines ==
    ASSUME SdTypeOK, Shape, GlobalsOK, SdTypeOK', Shape',
           NEW k \in Globals, state[k] = "alive", Temporaries(k) = {},
           NEW n \in Nat, DOMAIN calls = 1..n, DOMAIN calls' = 1..n + 1,
           calls'[n + 1].op = "filter", calls'[n + 1].global = k,
           calls'[n + 1].hasData = (k \in userData),
           UNCHANGED <<handleVars, state>>, NoFilter, NEW g \in Globals
    PROVE  StepOf(g)
<1>1. HandlesOf(g)' = HandlesOf(g) /\ Temporaries(g) = {} /\ state'[g] = state[g]
  BY HandlesSame, NoFilterFacts
<1>2. \A i \in DOMAIN calls' : calls'[i].op = "filter" => i = n + 1
  <2>1. Shape' => \A i \in DOMAIN calls' : calls'[i].op = "filter" => i = Len(calls')
    BY DEF Shape
  <2>2. Len(calls') = n + 1
    <3>1. calls' \in Seq(Frame)
      BY DEF SdTypeOK
    <3>2. Len(calls') \in Nat /\ DOMAIN calls' = 1..Len(calls')
      BY <3>1
    <3>3. 1..Len(calls') = 1..n + 1
      BY <3>2
    <3>4. Len(calls') \in Nat /\ n + 1 \in Nat
      BY <3>2
    <3>5. \A a, b \in Nat : 1..a = 1..b => a = b
      OBVIOUS
    <3> QED
      BY <3>3, <3>4, <3>5
  <2> QED
    BY <2>1, <2>2
<1>3. n + 1 \in DOMAIN calls'
  OBVIOUS
<1>4. CASE g = k /\ k \in userData
  <2>1. Temporaries(g)' = {n + 1}
    BY <1>2, <1>3, <1>4 DEF Temporaries
  <2>2. n + 1 \in Depths
    <3> SUFFICES ASSUME ~(n <= 3) PROVE FALSE
      BY DEF Depths
    <3>1. 3 \in 1..n /\ 4 \in 1..n
      OBVIOUS
    <3>2. calls[3].op \in Library \cup Handlers
      <4>1. calls[3] \in Frame
        BY <3>1 DEF SdTypeOK
      <4> QED
        BY <4>1 DEF Frame
    <3>3. calls[3].op \in Asking
      BY <3>1, <3>2 DEF Shape, NoFilter, Library, Handlers, Asking
    <3> QED
      BY <3>1, <3>3 DEF Shape, NoFilter
  <2>3. n + 1 \notin HandlesOf(g)
    BY <2>2, ApartHolders
  <2>4. HandlesOf(g) # {}
    <3>1. gcounter[g] >= 1 /\ gcounter[g] = Cardinality(HandlesOf(g)) + 0
      BY <1>1, <1>4 DEF GlobalsOK, GlobalOK
    <3> QED
      BY <3>1, HandlesFinite
  <2> QED
    BY <1>1, <1>4, <2>1, <2>2, <2>3, <2>4, ShareStep DEF AllHolders
<1>5. CASE ~(g = k /\ k \in userData)
  <2>1. Temporaries(g)' = {}
    BY <1>2, <1>5 DEF Temporaries
  <2> QED
    BY <1>1, <2>1, StutterStep
<1> QED
  BY <1>4, <1>5

LEMMA ListGlobalRefines ==
    ASSUME SdTypeOK, Shape, GlobalsOK, SdTypeOK', Shape', NEW k \in Globals, ListGlobal(k),
           NEW g \in Globals
    PROVE  StepOf(g)
<1> DEFINE f == [Calling("filter", k, {}) EXCEPT !.hasData = k \in userData]
<1>1. f \in Frame /\ f.op = "filter" /\ f.global = k /\ f.hasData = (k \in userData)
  BY FilterFrame
<1>2. /\ calls' = Append(calls, f) /\ calls = <<>> /\ state[k] = "alive"
      /\ UNCHANGED <<handleVars, state>>
  BY DEF ListGlobal, CallFilter, Idle
<1> HIDE DEF f
<1>3. /\ Len(calls) \in Nat /\ DOMAIN calls = 1..Len(calls)
      /\ DOMAIN calls' = 1..Len(calls) + 1 /\ calls'[Len(calls) + 1] = f
  BY <1>1, <1>2, AfterPush
<1>4. NoFilter
  BY <1>2 DEF NoFilter
<1>5. Temporaries(k) = {}
  BY <1>4, NoFilterFacts
<1>6. PICK n \in Nat : n = Len(calls)
  BY <1>3
<1> QED
  BY <1>1, <1>2, <1>3, <1>4, <1>5, <1>6, FilterCalledRefines

LEMMA AskFilterRefines ==
    ASSUME SdTypeOK, Shape, GlobalsOK, SdTypeOK', Shape', NEW c \in Clients, AskFilter(c),
           NEW g \in Globals
    PROVE  StepOf(g)
<1>1. On(Asking) /\ calls # <<>> /\ Top \in Frame /\ Top.global \in Globals
      /\ Len(calls) \in DOMAIN calls /\ Top = calls[Len(calls)]
  BY TopFrame, GlobalOfTop DEF AskFilter, On, Asking
<1>2. PICK k \in Globals : k = Top.global
  BY <1>1
<1>3. PICK t \in Frame : t = [Top EXCEPT !.left = @ \ {c}]
  BY <1>1, LeftFrame
<1>4. PICK f \in Frame : f = [Calling("filter", k, {}) EXCEPT !.hasData = k \in userData]
  BY FilterFrame
<1>5. f.op = "filter" /\ f.global = k /\ f.hasData = (k \in userData)
  BY <1>4, FilterFrame
<1>6. calls' = Append(Append(Below, t), f) /\ UNCHANGED <<handleVars, state>>
  BY <1>2, <1>3, <1>4 DEF AskFilter, CallFilter
<1>7. /\ Len(calls) \in Nat \ {0} /\ DOMAIN calls = 1..Len(calls)
      /\ DOMAIN calls' = 1..Len(calls) + 1 /\ calls'[Len(calls) + 1] = f
  BY <1>1, <1>6, AfterAsk
<1>8. PICK n \in Nat : n = Len(calls)
  BY <1>7
<1>9. state[k] = "alive"
  BY <1>1, <1>2, UsedAlive
<1>10. NoFilter
  BY <1>1, NoFilterBefore DEF On, Asking
<1>11. Temporaries(k) = {}
  BY <1>10, NoFilterFacts
<1> QED
  BY <1>5, <1>6, <1>7, <1>8, <1>9, <1>10, <1>11, FilterCalledRefines

\* ... from which the filter may make a handle of its own ...
LEMMA FilterKeepsRefines ==
    ASSUME SdTypeOK, Shape, GlobalsOK, NEW h \in GlobalHandles, FilterKeeps(h), NEW g \in Globals
    PROVE  StepOf(g)
<1>1. On({"filter"}) /\ Top.global \in Globals /\ calls # <<>> /\ Top.hasData \in BOOLEAN
      /\ Len(calls) \in DOMAIN calls /\ Top = calls[Len(calls)]
  BY GlobalOfTop, TopFrame DEF FilterKeeps, On, Frame
<1>2. PICK k \in Globals, d \in BOOLEAN : k = Top.global /\ d = Top.hasData
  BY <1>1, Zenon
<1>3. /\ global[h] = None /\ global' = [global EXCEPT ![h] = k]
      /\ withData' = IF d THEN withData \cup {h} ELSE withData
      /\ state' = state /\ calls' = calls
  BY <1>2 DEF FilterKeeps
<1>4. /\ h \notin HandlesOf(k)
      /\ HandlesOf(k)' = IF d THEN HandlesOf(k) \cup {h} ELSE HandlesOf(k)
      /\ (g # k => HandlesOf(g)' = HandlesOf(g))
  BY <1>3, HandleMade
<1>5. Temporaries(g)' = Temporaries(g)
  BY <1>3 DEF Temporaries
<1>6. CASE g # k \/ ~d
  BY <1>3, <1>4, <1>5, <1>6, StutterStep
<1>7. CASE g = k /\ d
  <2>1. Len(calls) \in Temporaries(g) /\ state[g] = "alive"
    BY <1>1, <1>2, <1>7, UsedAlive DEF On, Temporaries
  <2>2. h \notin Temporaries(g)
    BY ApartHolders
  <2> QED
    BY <1>3, <1>4, <1>5, <1>7, <2>1, <2>2, ShareStep DEF AllHolders
<1> QED
  BY <1>6, <1>7

\* ... and which ends with the call.
LEMMA FilterReturnsRefines ==
    ASSUME SdTypeOK, Shape, GlobalsOK, FilterReturns, NEW g \in Globals
    PROVE  StepOf(g)
<1>1. /\ Top.op = "filter" /\ Top.global \in Globals /\ calls # <<>>
      /\ Len(calls) \in DOMAIN calls /\ Top = calls[Len(calls)]
      /\ UNCHANGED <<handleVars, state>>
  BY TopFrame, FilterReturnsCases DEF FilterReturns
<1>2. PICK n \in Nat : n = Len(calls)
  BY <1>1, PopFacts DEF SdTypeOK
<1>3. \A i \in DOMAIN calls' : calls'[i].op # "filter"
  <2> DEFINE left == IF Top.global \in removed THEN {} ELSE Registries
             f == Calling("destroy", Top.global, left)
  <2>1. f \in Frame /\ f.op = "destroy" /\ (calls' = Below \/ calls' = Append(Below, f))
    BY FilterReturnsCases
  <2> HIDE DEF f, left
  <2>2. \A i \in DOMAIN calls : i # Len(calls) => calls[i].op # "filter"
    BY DEF Shape
  <2>3. CASE calls' = Below
    <3>1. /\ Len(calls) \in Nat /\ DOMAIN calls' = 1..Len(calls) - 1
          /\ \A i \in DOMAIN calls' : i \in DOMAIN calls /\ calls'[i] = calls[i]
      BY <1>1, <2>3, AfterPop
    <3>2. \A i \in DOMAIN calls' : i # Len(calls)
      BY <3>1
    <3> QED
      BY <2>2, <3>1, <3>2
  <2>4. CASE calls' = Append(Below, f)
    <3>1. /\ Len(calls) \in Nat \ {0} /\ DOMAIN calls = 1..Len(calls)
          /\ DOMAIN calls' = 1..Len(calls) /\ calls'[Len(calls)] = f
          /\ \A i \in 1..Len(calls) - 1 : calls'[i] = calls[i]
      BY <1>1, <2>1, <2>4, AfterReplace
    <3>2. \A i \in DOMAIN calls' : i = Len(calls) \/ (i # Len(calls) /\ i \in DOMAIN calls
                                                      /\ calls'[i] = calls[i])
      BY <3>1
    <3> QED
      BY <2>1, <2>2, <3>1, <3>2
  <2> QED
    BY <2>1, <2>3, <2>4
<1>4. Temporaries(g)' = {} /\ HandlesOf(g)' = HandlesOf(g) /\ state'[g] = state[g]
  BY <1>1, <1>3, HandlesSame DEF Temporaries
<1>5. Temporaries(g) \subseteq {n}
  BY <1>2, TemporaryPlace
<1>6. CASE Temporaries(g) = {}
  BY <1>4, <1>6, StutterStep
<1>7. CASE Temporaries(g) # {}
  <2>1. Temporaries(g) = {n} /\ state[g] = "alive"
    BY <1>5, <1>7, Counted
  <2>2. n \notin HandlesOf(g)
    BY <2>1, ApartHolders
  <2> QED
    BY <1>4, <2>1, <2>2, DropStep
<1> QED
  BY <1>6, <1>7

LEMMA GlobalRefines ==
    ASSUME "late_display" \notin Habits, SdInv, SdInv', [Next]_vars, NEW g \in Globals
    PROVE  StepOf(g)
<1>1. SdTypeOK /\ Shape /\ DisplayOK /\ GlobalsOK /\ SdTypeOK' /\ Shape'
  BY DEF SdInv
<1>2. CASE UNCHANGED vars
  <2>1. state' = state /\ UNCHANGED handleVars /\ calls' = calls
    BY <1>2 DEF vars, globalVars
  <2>2. Temporaries(g)' = Temporaries(g)
    BY <2>1 DEF Temporaries
  <2> QED
    BY <2>1, <2>2, HandlesSame, StutterStep
<1>3. CASE Next /\ ~FilterStep
  BY <1>1, <1>3, OtherRefines
<1>4. CASE FilterStep
  BY <1>1, <1>4, AskFilterRefines, ListGlobalRefines, FilterKeepsRefines, FilterReturnsRefines
     DEF FilterStep
<1> QED
  BY <1>2, <1>3, <1>4
-----------------------------------------------------------------------------
(* The theorem *)

\* The safety part of ImplementsSharedObject: display_t and global_base_t take
\* an object up only from a holder, create it for one, and destroy it without,
\* one object and one holder at a time.
THEOREM ServerDisplayImplements ==
    ASSUME "late_display" \notin Habits
    PROVE  Spec => Shared!Init /\ [][Shared!Next]_(Shared!vars)
<1>1. Init => Shared!Init
  <2> SUFFICES ASSUME Init PROVE Shared!Init
    OBVIOUS
  <2>1. \A g \in Globals : HandlesOf(g) = {} /\ Temporaries(g) = {} /\ state[g] = "none"
    BY DEF Init, HandlesOf, Temporaries
  <2>2. displays = {} /\ display = "none"
    BY DEF Init
  <2> QED
    BY <2>1, <2>2 DEF Shared!Init
<1>2. SdInv /\ SdInv' /\ [Next]_vars => [Shared!Next]_(Shared!vars)
  BY DisplayRefines, GlobalRefines, StepsRefine
<1>3. Spec => []SdInv
  BY SdInvHolds
<1> QED
  BY <1>1, <1>2, <1>3, PTL DEF Spec
=============================================================================
