------------------------ MODULE ServerObjectsProofs ------------------------
(***************************************************************************)
(* Proofs about ServerObjects, for any number of resources, handles and    *)
(* blocks: all handles of an object refer to one block, on_destroy is      *)
(* called once, before the object goes, and nothing deleted is used.       *)
(***************************************************************************)
EXTENDS ServerObjects, FiniteSetTheorems, SequenceTheorems, TLAPS

\* What the program must not do: the usages for which a run shows that an object
\* has two blocks for a while, or user data that is no block.
Careful == Habits \cap {"client_fd", "keep_created", "list"} = {}
-----------------------------------------------------------------------------
(* The inductive invariant *)

UnderWay  == {"construct", "their_construct"}
WithBlock == WithHandle \cup {"on_destroy", "on_destroy_late"}
Teardown  == {"destroy_client", "destroy_resource", "on_destroy", "on_destroy_late"}

\* The blocks that were made are the first ones.
Made == \E n \in 0..MaxBlocks : \A b \in Blocks : owner[b] # None <=> b <= n

\* The object's destruction has still to be told to the block, or is being told.
Waiting(b) == \E i \in DOMAIN listeners[owner[b]] : listeners[owner[b]][i] = b
Ending(b)  == \E i \in DOMAIN calls : calls[i].op = "on_destroy" /\ calls[i].block = b

ObjectOK(o) ==
    /\ userData[o] \in Blocks => owner[userData[o]] = o
    /\ \A i \in DOMAIN listeners[o] : owner[listeners[o][i]] = o
    /\ \A i, j \in DOMAIN listeners[o] : listeners[o][i] = listeners[o][j] => i = j
    /\ life[o] = "none" => listeners[o] = <<>> /\ \A b \in Blocks : owner[b] # o
    /\ life[o] = "alive" => \A b \in Blocks : owner[b] = o => Waiting(b)
    /\ life[o] = "freed" => listeners[o] = <<>>
    /\ life[o] # "none" /\ o \in Resources \cup {Client} => userData[o] \in Blocks

BlockOK(b) ==
    /\ owner[b] = None => b \notin deleted \cup withEvents \cup handled /\ notified[b] = 0
    /\ owner[b] # None => notified[b] = IF Waiting(b) THEN 0 ELSE 1
    /\ owner[b] = Client => b = userData[Client] /\ (b \in deleted => life[Client] = "freed")
    /\ b \in deleted => owner[b] # None /\ ~Waiting(b)

StoreOK == /\ Made /\ DispatcherHasEvents
           /\ \A o \in Objects : ObjectOK(o)
           /\ \A b \in Blocks : BlockOK(b)
           /\ \A i \in DOMAIN late : owner[late[i]] = Client

\* The objects with a constructor on the stack.
Constructed == {o \in Objects : \E i \in DOMAIN calls :
                   calls[i].op \in UnderWay /\ calls[i].object = o}

\* A handle has an on_destroy handler, that was not called yet or is running.
HandleOK(h) ==
    handle[h] # None =>
        /\ handle[h] \in Blocks /\ owner[handle[h]] # None
        /\ handle[h] \in handled /\ handle[h] = userData[owner[handle[h]]]
        /\ owner[handle[h]] \notin Constructed
        /\ Waiting(handle[h]) \/ Ending(handle[h])

HandlesOK == \A h \in Handles : HandleOK(h)

\* What a call works with.
AboutOK(f) ==
    /\ f.op \in {"construct", "classify", "bind", "convert", "on_request", "on_bind"}
          => f.object \in Resources
    /\ f.op = "their_construct" => f.object \in TheirResources
    /\ f.op \in {"on_client_created", "destroy_client", "on_destroy_late"} => f.object = Client
    /\ f.op \in {"destroy_resource", "on_resource_created"} => f.object \in AllResources
    /\ life[f.object] # "none" /\ (f.arg \in Resources => life[f.arg] # "none")
    /\ f.op \in WithBlock => f.block \in Blocks /\ owner[f.block] = f.object
    /\ f.op \notin WithBlock => f.block = None
    /\ f.op \in WithHandle => f.block = userData[f.object]
    /\ f.op = "on_destroy" => f.block \notin deleted /\ ~Waiting(f.block)

\* How calls are nested: an object under construction has no other calls than
\* on_resource_created, which has the constructor below it, and what goes on
\* after the constructor.
Nested(i) ==
    /\ calls[i].op = "on_resource_created" =>
          i > 1 /\ calls[i - 1].op \in UnderWay /\ calls[i - 1].object = calls[i].object
    /\ calls[i].op \in UnderWay => \A j \in DOMAIN calls :
          j # i /\ calls[j].object = calls[i].object =>
              \/ calls[j].op \in {"classify", "bind"} /\ j < i
              \/ calls[j].op = "on_resource_created"

NestedOK == \A i \in DOMAIN calls : Nested(i)
CallsOK  == NestedOK /\ \A i \in DOMAIN calls : AboutOK(calls[i])

\* Before the client goes, while it goes, and afterwards.
LiveOK ==
    life[Client] \in {"none", "alive"} =>
        /\ deleted = {} /\ \A r \in AllResources : life[r] \in {"none", "alive"}
        /\ \A i \in DOMAIN calls : calls[i].op \notin Teardown
        /\ life[Client] = "none" => calls = <<>> /\ \A r \in AllResources : life[r] = "none"

DyingOK ==
    life[Client] = "dying" =>
        /\ Len(calls) \in 1..3 /\ calls[1].op = "destroy_client"
        /\ Len(calls) >= 2 =>
              /\ calls[2].op \in {"destroy_resource", "on_destroy", "on_destroy_late"}
              /\ calls[2].op = "on_destroy" => calls[2].object = Client
              /\ calls[2].op = "destroy_resource" => life[calls[2].object] = "dying"
              /\ calls[2].op = "on_destroy_late" =>
                    \A r \in AllResources : life[r] \in {"none", "freed"}
        /\ Len(calls) = 3 => /\ calls[2].op = "destroy_resource"
                             /\ calls[3].op = "on_destroy"
                             /\ calls[3].object = calls[2].object
        /\ \A r \in AllResources : life[r] = "dying" =>
              Len(calls) >= 2 /\ calls[2].op = "destroy_resource" /\ calls[2].object = r
        /\ listeners[Client] # <<>> \/ (Len(calls) >= 2 /\ calls[2].op = "on_destroy") =>
              \A r \in AllResources : life[r] \in {"none", "alive"}

FreedOK ==
    life[Client] = "freed" =>
        calls = <<>> /\ \A r \in AllResources : life[r] \in {"none", "freed"}

PhaseOK == LiveOK /\ DyingOK /\ FreedOK

SoInv == SoTypeOK /\ StoreOK /\ HandlesOK /\ CallsOK /\ PhaseOK
-----------------------------------------------------------------------------
(* Sequences *)

\* Elements stay where they are when one is appended ...
LEMMA PushFacts ==
    ASSUME NEW S, NEW s \in Seq(S), NEW f \in S
    PROVE  /\ Append(s, f) \in Seq(S) /\ Append(s, f) # <<>>
           /\ Len(Append(s, f)) = Len(s) + 1 /\ Len(s) \in Nat
           /\ DOMAIN s = 1..Len(s) /\ DOMAIN Append(s, f) = 1..Len(s) + 1
           /\ Append(s, f)[Len(s) + 1] = f
           /\ \A i \in 1..Len(s) : Append(s, f)[i] = s[i]
OBVIOUS

\* ... and when the last one goes.
LEMMA PopFacts ==
    ASSUME NEW S, NEW s \in Seq(S), s # <<>>
    PROVE  /\ SubSeq(s, 1, Len(s) - 1) \in Seq(S)
           /\ Len(SubSeq(s, 1, Len(s) - 1)) = Len(s) - 1 /\ Len(s) \in Nat \ {0}
           /\ DOMAIN s = 1..Len(s) /\ DOMAIN SubSeq(s, 1, Len(s) - 1) = 1..Len(s) - 1
           /\ \A i \in 1..Len(s) - 1 : SubSeq(s, 1, Len(s) - 1)[i] = s[i]
<1>1. Len(s) \in Nat \ {0} /\ DOMAIN s = 1..Len(s)
  BY EmptySeq
<1>2. Len(s) - 1 \in 1 - 1 .. Len(s)
  BY <1>1
<1> QED
  BY <1>1, <1>2, SubSeqProperties

\* A new element keeps the elements different.
LEMMA AppendDistinct ==
    ASSUME NEW S, NEW s \in Seq(S), NEW f \in S,
           \A i, j \in DOMAIN s : s[i] = s[j] => i = j, \A i \in DOMAIN s : s[i] # f
    PROVE  \A i, j \in DOMAIN Append(s, f) : Append(s, f)[i] = Append(s, f)[j] => i = j
<1>1. /\ Len(s) \in Nat /\ DOMAIN s = 1..Len(s) /\ DOMAIN Append(s, f) = 1..Len(s) + 1
      /\ Append(s, f)[Len(s) + 1] = f /\ \A i \in 1..Len(s) : Append(s, f)[i] = s[i]
  BY PushFacts
<1>2. \A i \in DOMAIN Append(s, f) : i \in DOMAIN s \/ i = Len(s) + 1
  BY <1>1
<1> QED
  BY <1>1, <1>2

\* The first of a sequence goes: the others stay in it.
LEMMA TailFacts ==
    ASSUME NEW S, NEW s \in Seq(S), s # <<>>
    PROVE  /\ Tail(s) \in Seq(S) /\ Head(s) = s[1] /\ Head(s) \in S
           /\ Len(s) \in Nat \ {0} /\ DOMAIN s = 1..Len(s)
           /\ DOMAIN Tail(s) = 1..Len(s) - 1
           /\ \A i \in 1..Len(s) - 1 : Tail(s)[i] = s[i + 1]
<1>1. Len(s) \in Nat \ {0} /\ DOMAIN s = 1..Len(s)
  BY EmptySeq
<1> QED
  BY <1>1, HeadTailProperties
-----------------------------------------------------------------------------
(* Objects, blocks and calls *)

\* The names of things are no names of others.
LEMMA Names ==
    /\ None \notin Objects \cup Blocks /\ Theirs \notin Blocks \cup {None}
    /\ Null \notin Resources \cup {None} /\ Client \notin AllResources
    /\ Client \in Objects /\ AllResources \subseteq Objects
    /\ Resources \subseteq AllResources /\ TheirResources \subseteq AllResources
    /\ Resources \cap TheirResources = {} /\ WlDisplay \in TheirResources
    /\ Objects = {Client} \cup AllResources
BY NameAssumption DEF Objects, AllResources, Blocks

\* init() makes the block that comes after those there are.
LEMMA FreshFacts ==
    ASSUME SoTypeOK, Made
    PROVE  \E n \in 0..MaxBlocks : Fresh = n + 1 /\ \A b \in Blocks : owner[b] # None <=> b <= n
<1>1. PICK n \in 0..MaxBlocks : \A b \in Blocks : owner[b] # None <=> b <= n
  BY DEF Made
<1>2. {b \in Blocks : owner[b] # None} = 1..n
  BY <1>1, NameAssumption DEF Blocks
<1>3. Cardinality(1..n) = n
  BY <1>1, FS_Interval
<1>4. Cardinality({b \in Blocks : owner[b] # None}) = Cardinality(1..n)
  BY <1>2
<1>5. Fresh = n + 1
  BY <1>3, <1>4 DEF Fresh
<1> QED
  BY <1>1, <1>5

LEMMA FreshBlock ==
    ASSUME SoTypeOK, Made, Fresh \in Blocks, NEW o \in Objects
    PROVE  /\ owner[Fresh] = None
           /\ owner' = [owner EXCEPT ![Fresh] = o] => Made'
<1>1. PICK n \in 0..MaxBlocks : Fresh = n + 1 /\ \A b \in Blocks : owner[b] # None <=> b <= n
  BY FreshFacts
<1>2. owner[Fresh] = None
  BY <1>1
<1>3. ASSUME owner' = [owner EXCEPT ![Fresh] = o] PROVE Made'
  <2>1. n + 1 \in 0..MaxBlocks
    BY <1>1, NameAssumption DEF Blocks
  <2>2. \A b \in Blocks : owner'[b] # None <=> b <= n + 1
    BY <1>1, <1>3, Names DEF SoTypeOK, Blocks
  <2> QED
    BY <2>1, <2>2 DEF Made
<1> QED
  BY <1>2, <1>3

\* The call on top is one of the stack.
LEMMA TopFrame ==
    ASSUME SoTypeOK, calls # <<>>
    PROVE  /\ Top \in Frame /\ Len(calls) \in DOMAIN calls /\ Top = calls[Len(calls)]
           /\ Len(calls) \in Nat \ {0} /\ DOMAIN calls = 1..Len(calls)
           /\ Top.object \in Objects /\ Top.arg \in Resources \cup {None, Null}
           /\ Top.op \in Library \cup Handlers
<1>1. calls \in Seq(Frame)
  BY DEF SoTypeOK
<1>2. Len(calls) \in Nat \ {0} /\ DOMAIN calls = 1..Len(calls)
  BY <1>1, PopFacts
<1>3. Top \in Frame /\ Top = calls[Len(calls)]
  BY <1>1, <1>2 DEF Top
<1> QED
  BY <1>2, <1>3 DEF Frame

\* The constructor of calls gives calls.
LEMMA CallingFrame ==
    ASSUME NEW op \in Library \cup Handlers, NEW o \in Objects, NEW b \in Blocks \cup {None}
    PROVE  /\ Calling(op, o, b) \in Frame /\ Calling(op, o, b).op = op
           /\ Calling(op, o, b).object = o /\ Calling(op, o, b).block = b
           /\ Calling(op, o, b).arg = None
BY DEF Calling, Frame

\* An element of the stack has the type of a call.
LEMMA Elements ==
    ASSUME SoTypeOK
    PROVE  /\ calls \in Seq(Frame) /\ Len(calls) \in Nat /\ DOMAIN calls = 1..Len(calls)
           /\ \A i \in DOMAIN calls : calls[i] \in Frame /\ calls[i].object \in Objects
<1>1. calls \in Seq(Frame)
  BY DEF SoTypeOK
<1>2. \A i \in DOMAIN calls : calls[i] \in Frame
  BY <1>1
<1> QED
  BY <1>1, <1>2 DEF Frame

\* The two ways to say that an object is under construction.
LEMMA ConstructedMeans == SoTypeOK => UnderConstruction = Constructed
<1> SUFFICES ASSUME SoTypeOK PROVE UnderConstruction = Constructed
  OBVIOUS
<1>1. \A i \in DOMAIN calls : calls[i].object \in Objects
  BY Elements
<1> QED
  BY <1>1 DEF UnderConstruction, Constructed, UnderWay

\* The stack after a step that keeps the first n calls, and puts calls on them
\* that are none of a constructor nor about an object under construction.
LEMMA NestedPrefix ==
    ASSUME SoTypeOK, NestedOK, calls' \in Seq(Frame), NEW n \in Nat,
           n <= Len(calls), n <= Len(calls'), \A i \in 1..n : calls'[i] = calls[i],
           \A i \in n + 1..Len(calls') :
              /\ calls'[i].op \notin UnderWay \cup {"on_resource_created"}
              /\ \A j \in 1..n : calls[j].op \in UnderWay => calls[j].object # calls'[i].object
    PROVE  NestedOK'
<1>1. calls \in Seq(Frame)
  BY DEF SoTypeOK
<1>2. DOMAIN calls = 1..Len(calls) /\ DOMAIN calls' = 1..Len(calls')
      /\ Len(calls) \in Nat /\ Len(calls') \in Nat
  BY <1>1
<1>3. ASSUME NEW i \in DOMAIN calls' PROVE Nested(i)'
  <2>1. CASE i <= n
    <3>1. i \in 1..n /\ i \in DOMAIN calls /\ calls'[i] = calls[i]
      BY <1>2, <1>3, <2>1
    <3>2. Nested(i)
      BY <3>1 DEF NestedOK
    <3>3. i > 1 => calls'[i - 1] = calls[i - 1]
      <4>1. i > 1 => i - 1 \in 1..n
        BY <3>1
      <4> QED
        BY <4>1
    <3>4. calls'[i].op = "on_resource_created" =>
             i > 1 /\ calls'[i - 1].op \in UnderWay /\ calls'[i - 1].object = calls'[i].object
      BY <3>1, <3>2, <3>3 DEF Nested
    <3>5. ASSUME calls[i].op \in UnderWay, NEW j \in DOMAIN calls', j # i,
                 calls'[j].object = calls[i].object
          PROVE  \/ calls'[j].op \in {"classify", "bind"} /\ j < i
                 \/ calls'[j].op = "on_resource_created"
      <4>1. j \in 1..n
        BY <1>2, <3>1, <3>5
      <4>2. calls'[j] = calls[j] /\ j \in DOMAIN calls
        BY <1>2, <4>1
      <4> QED
        BY <3>2, <3>5, <4>2 DEF Nested
    <3> QED
      BY <3>1, <3>4, <3>5 DEF Nested
  <2>2. CASE ~(i <= n)
    <3>1. i \in n + 1..Len(calls')
      BY <1>2, <1>3, <2>2
    <3> QED
      BY <3>1 DEF Nested
  <2> QED
    BY <2>1, <2>2
<1> QED
  BY <1>3 DEF NestedOK

\* A call returns.
LEMMA Popped ==
    ASSUME SoTypeOK, NestedOK, calls # <<>>, calls' = Below
    PROVE  /\ calls' \in Seq(Frame) /\ Len(calls') = Len(calls) - 1
           /\ DOMAIN calls' = 1..Len(calls) - 1 /\ DOMAIN calls' \subseteq DOMAIN calls
           /\ \A i \in DOMAIN calls' : calls'[i] = calls[i]
           /\ NestedOK' /\ Constructed' \subseteq Constructed
           /\ \A b : Ending(b) => Ending(b)' \/ (Top.op = "on_destroy" /\ Top.block = b)
<1>1. /\ calls' \in Seq(Frame) /\ Len(calls') = Len(calls) - 1 /\ Len(calls) \in Nat \ {0}
      /\ DOMAIN calls = 1..Len(calls) /\ DOMAIN calls' = 1..Len(calls) - 1
      /\ \A i \in 1..Len(calls) - 1 : calls'[i] = calls[i]
  BY PopFacts DEF SoTypeOK, Below
<1>2. NestedOK'
  BY <1>1, NestedPrefix
<1>3. Constructed' \subseteq Constructed
  BY <1>1 DEF Constructed
<1>4. ASSUME NEW b, Ending(b), ~(Top.op = "on_destroy" /\ Top.block = b) PROVE Ending(b)'
  <2>1. PICK i \in DOMAIN calls : calls[i].op = "on_destroy" /\ calls[i].block = b
    BY <1>4 DEF Ending
  <2>2. i # Len(calls)
    BY <1>4, <2>1 DEF Top
  <2>3. i \in DOMAIN calls' /\ calls'[i] = calls[i]
    BY <1>1, <2>1, <2>2
  <2> QED
    BY <2>1, <2>3 DEF Ending
<1> QED
  BY <1>1, <1>2, <1>3, <1>4

\* A call that is none of a constructor is put on the stack.
LEMMA Pushed ==
    ASSUME SoTypeOK, NestedOK, NEW f \in Frame,
           f.op \notin UnderWay \cup {"on_resource_created"}, f.object \notin Constructed,
           calls' = Append(calls, f)
    PROVE  /\ calls' \in Seq(Frame) /\ calls' # <<>> /\ Len(calls') = Len(calls) + 1
           /\ DOMAIN calls' = 1..Len(calls) + 1 /\ DOMAIN calls \subseteq DOMAIN calls'
           /\ calls'[Len(calls) + 1] = f /\ \A i \in DOMAIN calls : calls'[i] = calls[i]
           /\ NestedOK' /\ Constructed' = Constructed
           /\ \A b : Ending(b) => Ending(b)'
           /\ f.op = "on_destroy" => Ending(f.block)'
<1>1. /\ calls' \in Seq(Frame) /\ calls' # <<>> /\ Len(calls') = Len(calls) + 1
      /\ Len(calls) \in Nat /\ DOMAIN calls = 1..Len(calls) /\ DOMAIN calls' = 1..Len(calls) + 1
      /\ calls'[Len(calls) + 1] = f /\ \A i \in 1..Len(calls) : calls'[i] = calls[i]
  BY PushFacts DEF SoTypeOK
<1>2. \A j \in DOMAIN calls : calls[j].op \in UnderWay => calls[j].object # f.object
  BY Elements DEF Constructed
<1>3. \A i \in Len(calls) + 1..Len(calls') : i = Len(calls) + 1
  BY <1>1
<1>4. NestedOK'
  BY <1>1, <1>2, <1>3, NestedPrefix
<1>5. Constructed' = Constructed
  BY <1>1 DEF Constructed
<1>6. \A b : Ending(b) => Ending(b)'
  BY <1>1 DEF Ending
<1>7. f.op = "on_destroy" => Ending(f.block)'
  BY <1>1 DEF Ending
<1> QED
  BY <1>1, <1>4, <1>5, <1>6, <1>7

\* The call on top goes on as another.
LEMMA Replaced ==
    ASSUME SoTypeOK, NestedOK, calls # <<>>, NEW f \in Frame, f.object = Top.object,
           f.op \notin UnderWay \cup {"on_resource_created", "on_destroy"},
           Top.op \notin UnderWay \cup {"on_resource_created", "on_destroy"},
           calls' = Append(Below, f)
    PROVE  /\ calls' \in Seq(Frame) /\ calls' # <<>> /\ Len(calls') = Len(calls)
           /\ DOMAIN calls' = DOMAIN calls /\ DOMAIN calls = 1..Len(calls)
           /\ Len(calls) \in Nat \ {0} /\ calls'[Len(calls)] = f
           /\ \A i \in 1..Len(calls) - 1 : calls'[i] = calls[i]
           /\ NestedOK' /\ Constructed' = Constructed
           /\ \A b : Ending(b) => Ending(b)'
<1>1. /\ Below \in Seq(Frame) /\ Len(Below) = Len(calls) - 1 /\ Len(calls) \in Nat \ {0}
      /\ DOMAIN calls = 1..Len(calls) /\ DOMAIN Below = 1..Len(calls) - 1
      /\ \A i \in 1..Len(calls) - 1 : Below[i] = calls[i]
  BY PopFacts DEF SoTypeOK, Below
<1>2. /\ calls' \in Seq(Frame) /\ calls' # <<>> /\ Len(calls') = Len(calls)
      /\ DOMAIN calls' = 1..Len(calls) /\ calls'[Len(calls)] = f
      /\ \A i \in 1..Len(calls) - 1 : calls'[i] = calls[i]
  BY <1>1, PushFacts
<1>3. ASSUME NEW j \in 1..Len(calls) - 1, calls[j].op \in UnderWay
      PROVE  calls[j].object # f.object
  <2>1. Nested(j)
    BY <1>1, <1>3 DEF NestedOK
  <2> QED
    BY <1>1, <1>3, <2>1 DEF Nested, Top
<1>4. \A i \in (Len(calls) - 1) + 1..Len(calls') : i = Len(calls)
  BY <1>1, <1>2
<1>5. NestedOK'
  <2>1. /\ Len(calls) - 1 \in Nat /\ Len(calls) - 1 <= Len(calls)
        /\ Len(calls) - 1 <= Len(calls')
    BY <1>1, <1>2
  <2> QED
    BY <1>2, <1>3, <1>4, <2>1, NestedPrefix
<1>6. \A i \in 1..Len(calls) : calls'[i].op \in UnderWay \cup {"on_destroy"}
                                \/ calls[i].op \in UnderWay \cup {"on_destroy"} => calls'[i] = calls[i]
  BY <1>1, <1>2 DEF Top
<1>7. Constructed' = Constructed
  BY <1>1, <1>2, <1>6 DEF Constructed
<1>8. \A b : Ending(b) => Ending(b)'
  BY <1>1, <1>2, <1>6 DEF Ending
<1> QED
  BY <1>1, <1>2, <1>5, <1>7, <1>8
-----------------------------------------------------------------------------
(* init(): an object gets a new block *)

\* What one init() of a resource does to blocks and listeners.
LEMMA AttachFacts ==
    ASSUME SoTypeOK, Made, NEW o \in AllResources, Attach(o)
    PROVE  /\ Fresh \in Blocks /\ owner[Fresh] = None
           /\ owner' = [owner EXCEPT ![Fresh] = o] /\ userData' = [userData EXCEPT ![o] = Fresh]
           /\ dispatcher' = [dispatcher EXCEPT ![o] = "dummy"]
           /\ owner'[Fresh] = o /\ userData'[o] = Fresh /\ dispatcher'[o] = "dummy"
           /\ \A p \in Objects \ {o} : userData'[p] = userData[p] /\ listeners'[p] = listeners[p]
           /\ \A b \in Blocks \ {Fresh} : owner'[b] = owner[b]
           /\ listeners'[o] = Append(listeners[o], Fresh) /\ listeners[o] \in Seq(Blocks)
           /\ listeners' \in [Objects -> Seq(Blocks)] /\ owner' \in [Blocks -> Objects \cup {None}]
           /\ userData' \in [Objects -> Blocks \cup {None, Theirs}]
           /\ dispatcher' \in [AllResources -> {"none", "dummy", "generated"}]
           /\ late' = late /\ deleted' = deleted /\ Made'
<1>1. o \in Objects /\ o # Client
  BY Names
<1>2. Fresh \in Blocks /\ owner[Fresh] = None
  BY <1>1, FreshBlock DEF Attach
<1>3. owner' = [owner EXCEPT ![Fresh] = o] /\ userData' = [userData EXCEPT ![o] = Fresh]
      /\ dispatcher' = [dispatcher EXCEPT ![o] = "dummy"] /\ late' = late /\ deleted' = deleted
      /\ listeners' = [listeners EXCEPT ![o] = Append(@, Fresh)]
  BY <1>1 DEF Attach
<1>4. Made'
  BY <1>1, <1>2, <1>3, FreshBlock
<1>5. owner'[Fresh] = o /\ (\A b \in Blocks \ {Fresh} : owner'[b] = owner[b])
      /\ owner' \in [Blocks -> Objects \cup {None}]
  BY <1>1, <1>2, <1>3 DEF SoTypeOK
<1>6. userData'[o] = Fresh /\ (\A p \in Objects \ {o} : userData'[p] = userData[p])
      /\ userData' \in [Objects -> Blocks \cup {None, Theirs}]
  BY <1>1, <1>2, <1>3 DEF SoTypeOK
<1>7. dispatcher'[o] = "dummy" /\ dispatcher' \in [AllResources -> {"none", "dummy", "generated"}]
  BY <1>3 DEF SoTypeOK
<1>8. listeners[o] \in Seq(Blocks) /\ Append(listeners[o], Fresh) \in Seq(Blocks)
  BY <1>1, <1>2, PushFacts DEF SoTypeOK
<1>9. /\ listeners'[o] = Append(listeners[o], Fresh)
      /\ \A p \in Objects \ {o} : listeners'[p] = listeners[p]
      /\ listeners' \in [Objects -> Seq(Blocks)]
  BY <1>1, <1>3, <1>8 DEF SoTypeOK
<1> QED
  BY <1>2, <1>3, <1>4, <1>5, <1>6, <1>7, <1>8, <1>9

\* The other blocks wait for the destruction of their objects as before, the new
\* one does now.
LEMMA AttachWaiting ==
    ASSUME SoTypeOK, Made, NEW o \in AllResources, Attach(o), NEW k \in Blocks, k = Fresh
    PROVE  /\ Waiting(k)'
           /\ \A b \in Blocks \ {k} : owner[b] # None => (Waiting(b)' <=> Waiting(b))
<1>2. /\ owner'[k] = o /\ listeners'[o] = Append(listeners[o], k)
      /\ \A b \in Blocks \ {k} : owner'[b] = owner[b]
      /\ \A p \in Objects \ {o} : listeners'[p] = listeners[p]
  BY AttachFacts
<1>3. /\ Len(listeners[o]) \in Nat /\ DOMAIN listeners[o] = 1..Len(listeners[o])
      /\ DOMAIN listeners'[o] = 1..Len(listeners[o]) + 1
      /\ listeners'[o][Len(listeners[o]) + 1] = k
      /\ \A i \in 1..Len(listeners[o]) : listeners'[o][i] = listeners[o][i]
  BY <1>2, AttachFacts, PushFacts
<1>4. Waiting(k)'
  BY <1>2, <1>3 DEF Waiting
<1>6. ASSUME NEW b \in Blocks \ {k}, owner[b] # None PROVE Waiting(b)' <=> Waiting(b)
  <2>1. owner'[b] = owner[b] /\ owner[b] \in Objects
    BY <1>2, <1>6 DEF SoTypeOK
  <2>2. CASE owner[b] = o
    BY <1>3, <2>1, <2>2 DEF Waiting
  <2>3. CASE owner[b] # o
    BY <1>2, <2>1, <2>3 DEF Waiting
  <2> QED
    BY <2>2, <2>3
<1> QED
  BY <1>4, <1>6

\* After init() of a resource that is alive then, everything is in order.
LEMMA Attaching ==
    ASSUME SoTypeOK, StoreOK, NEW o \in AllResources, Attach(o),
           life[o] \in {"none", "alive"}, life' = [life EXCEPT ![o] = "alive"],
           UNCHANGED <<withEvents, handled, notified>>
    PROVE  StoreOK'
<1>1. PICK k \in Blocks : k = Fresh
  BY AttachFacts DEF StoreOK
<1>2. /\ owner[k] = None /\ owner'[k] = o /\ \A b \in Blocks \ {k} : owner'[b] = owner[b]
      /\ userData'[o] = k /\ \A p \in Objects \ {o} : userData'[p] = userData[p]
      /\ dispatcher' = [dispatcher EXCEPT ![o] = "dummy"] /\ dispatcher'[o] = "dummy"
      /\ late' = late /\ deleted' = deleted /\ Made'
      /\ \A p \in Objects \ {o} : listeners'[p] = listeners[p]
      /\ listeners'[o] = Append(listeners[o], k)
  BY <1>1, AttachFacts DEF StoreOK
<1>3. /\ Waiting(k)'
      /\ \A b \in Blocks \ {k} : owner[b] # None => (Waiting(b)' <=> Waiting(b))
  BY <1>1, AttachWaiting DEF StoreOK
<1>4. o \in Objects /\ o # Client /\ o # None /\ Client # None
  BY Names
<1>5. life'[o] = "alive" /\ \A p \in Objects \ {o} : life'[p] = life[p]
  BY <1>4 DEF SoTypeOK
<1>6. ASSUME NEW p \in Objects, p # o PROVE ObjectOK(p)'
  <2>1. ObjectOK(p) /\ p # None /\ life'[p] = life[p] /\ userData'[p] = userData[p]
        /\ listeners'[p] = listeners[p]
    BY <1>2, <1>5, <1>6, Names DEF StoreOK
  <2>2. \A b \in Blocks : owner'[b] = p <=> owner[b] = p
    BY <1>2, <1>6, <2>1
  <2>3. \A i \in DOMAIN listeners[p] : listeners[p][i] \in Blocks
    BY <1>6 DEF SoTypeOK
  <2>4. \A b \in Blocks : owner[b] = p => (Waiting(b)' <=> Waiting(b))
    BY <1>2, <1>3, <2>1
  <2> QED
    BY <2>1, <2>2, <2>3, <2>4 DEF ObjectOK
<1>7. ObjectOK(o)'
  <2>1. ObjectOK(o) /\ listeners[o] \in Seq(Blocks)
    BY <1>4 DEF StoreOK, SoTypeOK
  <2>2. /\ Len(listeners[o]) \in Nat /\ DOMAIN listeners[o] = 1..Len(listeners[o])
        /\ DOMAIN listeners'[o] = 1..Len(listeners[o]) + 1
        /\ listeners'[o][Len(listeners[o]) + 1] = k
        /\ \A i \in 1..Len(listeners[o]) : listeners'[o][i] = listeners[o][i]
    BY <1>2, <2>1, PushFacts
  <2>3. \A i \in DOMAIN listeners[o] : listeners[o][i] \in Blocks \ {k}
                                       /\ owner[listeners[o][i]] = o
    BY <1>2, <1>4, <2>1 DEF ObjectOK
  <2>4. \A i \in DOMAIN listeners'[o] : owner'[listeners'[o][i]] = o
    BY <1>2, <2>2, <2>3
  <2>5. \A i, j \in DOMAIN listeners'[o] : listeners'[o][i] = listeners'[o][j] => i = j
    <3>1. \A i, j \in DOMAIN listeners[o] : listeners[o][i] = listeners[o][j] => i = j
      BY <2>1 DEF ObjectOK
    <3>2. \A i \in DOMAIN listeners[o] : listeners[o][i] # k
      BY <2>3
    <3> QED
      BY <1>2, <2>1, <3>1, <3>2, AppendDistinct
  <2>6. \A b \in Blocks : owner'[b] = o => Waiting(b)'
    <3>1. ASSUME NEW b \in Blocks \ {k}, owner[b] = o PROVE Waiting(b)'
      BY <1>3, <1>4, <2>1, <3>1 DEF ObjectOK
    <3> QED
      BY <1>2, <1>3, <3>1
  <2> QED
    BY <1>2, <1>5, <2>4, <2>5, <2>6 DEF ObjectOK
<1>8. ASSUME NEW b \in Blocks PROVE BlockOK(b)'
  <2>1. BlockOK(b)
    BY DEF StoreOK
  <2>2. CASE b = k
    BY <1>2, <1>3, <1>4, <2>1, <2>2 DEF BlockOK
  <2>3. CASE b # k
    BY <1>2, <1>3, <1>4, <1>5, <2>1, <2>3, Names DEF BlockOK
  <2> QED
    BY <2>2, <2>3
<1>9. \A i \in DOMAIN late' : owner'[late'[i]] = Client
  <2>1. \A i \in DOMAIN late : late[i] \in Blocks /\ owner[late[i]] = Client
    BY DEF StoreOK, SoTypeOK
  <2> QED
    BY <1>2, <1>4, <2>1
<1>10. DispatcherHasEvents'
  <2>1. ASSUME NEW r \in Resources, life'[r] = "alive", dispatcher'[r] = "generated"
        PROVE  userData'[r] \in withEvents'
    <3>1. r \in Objects /\ r \in AllResources /\ r # o
      BY <1>2, <2>1, Names
    <3>2. life[r] = "alive" /\ dispatcher[r] = "generated" /\ userData'[r] = userData[r]
      BY <1>2, <1>5, <2>1, <3>1 DEF SoTypeOK
    <3> QED
      BY <2>1, <3>2 DEF StoreOK, DispatcherHasEvents
  <2> QED
    BY <2>1 DEF DispatcherHasEvents
<1> QED
  BY <1>2, <1>6, <1>7, <1>8, <1>9, <1>10 DEF StoreOK
-----------------------------------------------------------------------------
(* A resource is created *)

\* What is on the stack when resource_created_func is called for r: the calls
\* there were, a constructor of r, and what goes on after it.
Creating(r, rest) ==
    /\ rest \in Seq(Frame) /\ Len(rest) \in {Len(calls) + 1, Len(calls) + 2}
    /\ \A i \in 1..Len(calls) : rest[i] = calls[i]
    /\ LET f == rest[Len(rest)] IN
          /\ f.op \in UnderWay /\ f.object = r /\ f.block = None /\ f.arg = None
          /\ f.op = "construct" => r \in Resources
          /\ f.op = "their_construct" => r \in TheirResources
    /\ Len(rest) = Len(calls) + 2 =>
          LET f == rest[Len(calls) + 1] IN
          \/ /\ f.op \in {"classify", "bind"} /\ f.object = r
             /\ f.block = None /\ f.arg = None /\ r \in Resources
          \/ /\ f.op = "convert" /\ calls = <<>> /\ f.object \in Resources
             /\ f.object # r /\ life[f.object] # "none"
             /\ f.block = userData[f.object] /\ f.arg = r

\* The frames of such a stack.
LEMMA CreatingFrames ==
    ASSUME SoTypeOK, NEW r \in AllResources, NEW rest, Creating(r, rest),
           NEW b \in Blocks, calls' = Append(rest, Calling("on_resource_created", r, b))
    PROVE  /\ calls' \in Seq(Frame) /\ Len(calls') = Len(rest) + 1 /\ Len(calls) \in Nat
           /\ Len(rest) \in Nat /\ Len(rest) > Len(calls) /\ DOMAIN calls = 1..Len(calls)
           /\ DOMAIN calls' = 1..Len(rest) + 1
           /\ \A i \in 1..Len(calls) : calls'[i] = calls[i]
           /\ \A i \in 1..Len(rest) : calls'[i] = rest[i]
           /\ calls'[Len(rest) + 1] = Calling("on_resource_created", r, b)
           /\ Calling("on_resource_created", r, b).op = "on_resource_created"
           /\ Calling("on_resource_created", r, b).object = r
           /\ Calling("on_resource_created", r, b).block = b
           /\ Calling("on_resource_created", r, b).arg = None
           /\ \A i \in 1..Len(rest) + 1 :
                 \/ i \in 1..Len(calls) \/ i = Len(rest) \/ i = Len(rest) + 1
                 \/ Len(rest) = Len(calls) + 2 /\ i = Len(calls) + 1
<1>1. r \in Objects
  BY Names
<1>2. /\ Calling("on_resource_created", r, b) \in Frame
      /\ Calling("on_resource_created", r, b).op = "on_resource_created"
      /\ Calling("on_resource_created", r, b).object = r
      /\ Calling("on_resource_created", r, b).block = b
      /\ Calling("on_resource_created", r, b).arg = None
  <2>1. "on_resource_created" \in Library \cup Handlers
    BY DEF Handlers
  <2> QED
    BY <1>1, <2>1, CallingFrame
<1>3. Len(calls) \in Nat /\ DOMAIN calls = 1..Len(calls)
  BY Elements
<1>4. rest \in Seq(Frame) /\ Len(rest) \in {Len(calls) + 1, Len(calls) + 2}
      /\ \A i \in 1..Len(calls) : rest[i] = calls[i]
  BY DEF Creating
<1>5. /\ calls' \in Seq(Frame) /\ Len(calls') = Len(rest) + 1 /\ Len(rest) \in Nat
      /\ DOMAIN calls' = 1..Len(rest) + 1 /\ calls'[Len(rest) + 1] = Calling("on_resource_created", r, b)
      /\ \A i \in 1..Len(rest) : calls'[i] = rest[i]
  BY <1>2, <1>4, PushFacts
<1>6. \A i \in 1..Len(calls) : calls'[i] = calls[i]
  BY <1>3, <1>4, <1>5
<1>7. \A i \in 1..Len(rest) + 1 :
         \/ i \in 1..Len(calls) \/ i = Len(rest) \/ i = Len(rest) + 1
         \/ Len(rest) = Len(calls) + 2 /\ i = Len(calls) + 1
  BY <1>3, <1>4, <1>5
<1>8. Len(rest) > Len(calls)
  BY <1>3, <1>4
<1> QED
  BY <1>2, <1>3, <1>5, <1>6, <1>7, <1>8

\* They are nested as they should be.
LEMMA CreatingNested ==
    ASSUME SoTypeOK, CallsOK, NEW r \in AllResources, life[r] = "none",
           NEW rest, Creating(r, rest),
           NEW b \in Blocks, calls' = Append(rest, Calling("on_resource_created", r, b))
    PROVE  NestedOK'
<1>0. PICK L \in Nat, N \in Nat : L = Len(calls) /\ N = Len(rest)
  BY CreatingFrames
<1>1. /\ L \in Nat /\ N \in Nat /\ N > L /\ DOMAIN calls = 1..L /\ DOMAIN calls' = 1..N + 1
      /\ \A i \in 1..L : calls'[i] = calls[i]
      /\ \A i \in 1..N : calls'[i] = rest[i]
      /\ calls'[N + 1].op = "on_resource_created" /\ calls'[N + 1].object = r
      /\ \A i \in 1..N + 1 : i \in 1..L \/ i = N \/ i = N + 1 \/ (N = L + 2 /\ i = L + 1)
  BY <1>0, CreatingFrames
<1>2. calls'[N].op \in UnderWay /\ calls'[N].object = r
  BY <1>0, <1>1 DEF Creating
<1>3. N = L + 2 => \/ calls'[L + 1].op \in {"classify", "bind"} /\ calls'[L + 1].object = r
                   \/ calls'[L + 1].op = "convert" /\ calls = <<>> /\ calls'[L + 1].object # r
  BY <1>0, <1>1 DEF Creating
<1>4. \A i \in 1..L : calls[i].object # r /\ Nested(i)
  BY <1>1 DEF CallsOK, NestedOK, AboutOK
<1>5. calls = <<>> => L = 0
  BY <1>0
<1>6. ASSUME NEW i \in 1..L PROVE Nested(i)'
  <2>1. i \in DOMAIN calls /\ calls'[i] = calls[i] /\ Nested(i)
    BY <1>1, <1>4
  <2>2. i > 1 => calls'[i - 1] = calls[i - 1]
    <3>1. i > 1 => i - 1 \in 1..L
      BY <1>1
    <3> QED
      BY <1>1, <3>1
  <2>3. ASSUME calls[i].op \in UnderWay, NEW j \in 1..N + 1, j # i,
               calls'[j].object = calls[i].object
        PROVE  \/ calls'[j].op \in {"classify", "bind"} /\ j < i
               \/ calls'[j].op = "on_resource_created"
    <3>1. CASE j \in 1..L
      BY <1>1, <2>1, <2>3, <3>1 DEF Nested
    <3>2. CASE j = N \/ j = N + 1
      BY <1>1, <1>2, <1>4, <2>3, <3>2
    <3>3. CASE N = L + 2 /\ j = L + 1
      <4>1. calls'[j].op = "convert" => L = 0
        BY <1>3, <1>5, <3>3
      <4>2. L # 0
        BY <2>1
      <4> QED
        BY <1>3, <1>4, <2>3, <3>3, <4>1, <4>2
    <3> QED
      BY <1>1, <3>1, <3>2, <3>3
  <2> QED
    BY <1>1, <2>1, <2>2, <2>3 DEF Nested
<1>7. Nested(N)'
  <2>1. ASSUME NEW j \in 1..N + 1, j # N, calls'[j].object = r
        PROVE  \/ calls'[j].op \in {"classify", "bind"} /\ j < N
               \/ calls'[j].op = "on_resource_created"
    BY SMTT(30), <1>1, <1>3, <1>4, <2>1
  <2> QED
    BY <1>1, <1>2, <2>1 DEF Nested, UnderWay
<1>8. Nested(N + 1)'
  <2>1. N + 1 > 1 /\ (N + 1) - 1 = N
    BY <1>1
  <2> QED
    BY <1>1, <1>2, <2>1 DEF Nested, UnderWay
<1>9. N = L + 2 => Nested(L + 1)'
  BY <1>3 DEF Nested, UnderWay
<1>10. \A i \in DOMAIN calls' : Nested(i)'
  BY <1>1, <1>6, <1>7, <1>8, <1>9
<1> QED
  BY <1>10 DEF NestedOK

\* Handles refer to blocks of objects that are there.
LEMMA HeldBlocks ==
    ASSUME SoTypeOK, StoreOK, HandlesOK, NEW h \in Handles, handle[h] # None
    PROVE  /\ handle[h] \in Blocks /\ owner[handle[h]] \in Objects
           /\ owner[handle[h]] # None /\ life[owner[handle[h]]] # "none"
<1>1. HandleOK(h)
  BY DEF HandlesOK
<1>2. handle[h] \in Blocks /\ owner[handle[h]] # None /\ owner[handle[h]] \in Objects
  BY <1>1 DEF HandleOK, SoTypeOK
<1> QED
  BY <1>2 DEF StoreOK, ObjectOK

\* Any creation of a resource.
LEMMA Creation ==
    ASSUME SoInv, NEW r \in AllResources, NEW rest, Creating(r, rest), CreateResource(r, rest)
    PROVE  SoInv'
<1>1. /\ life[Client] = "alive" /\ life[r] = "none" /\ life' = [life EXCEPT ![r] = "alive"]
      /\ Attach(r) /\ withEvents' = withEvents /\ handled' = handled
      /\ notified' = notified /\ handle' = handle
  BY DEF CreateResource
<1>2. SoTypeOK /\ StoreOK /\ HandlesOK /\ CallsOK /\ PhaseOK /\ Made
  BY DEF SoInv, StoreOK
<1>3. PICK k \in Blocks : k = Fresh
  BY <1>1, <1>2, AttachFacts
<1>4. calls' = Append(rest, Calling("on_resource_created", r, k))
  BY <1>3 DEF CreateResource
<1>5. /\ owner[k] = None /\ owner'[k] = r /\ \A b \in Blocks \ {k} : owner'[b] = owner[b]
      /\ userData'[r] = k /\ \A p \in Objects \ {r} : userData'[p] = userData[p]
      /\ late' = late /\ deleted' = deleted
      /\ listeners' \in [Objects -> Seq(Blocks)] /\ owner' \in [Blocks -> Objects \cup {None}]
      /\ userData' \in [Objects -> Blocks \cup {None, Theirs}]
      /\ dispatcher' \in [AllResources -> {"none", "dummy", "generated"}]
      /\ \A p \in Objects \ {r} : listeners'[p] = listeners[p]
  BY <1>1, <1>2, <1>3, AttachFacts
<1>6. r \in Objects /\ r # Client /\ r # None
  BY Names
<1>7. /\ life' \in [Objects -> {"none", "alive", "dying", "freed"}]
      /\ life'[r] = "alive" /\ \A p \in Objects \ {r} : life'[p] = life[p]
  BY <1>1, <1>2, <1>6 DEF SoTypeOK
<1>8. StoreOK'
  BY <1>1, <1>2, Attaching
<1>9. calls' \in Seq(Frame) /\ NestedOK'
  BY <1>1, <1>2, <1>4, CreatingFrames, CreatingNested
<1>10. SoTypeOK'
  BY <1>1, <1>2, <1>5, <1>7, <1>9 DEF SoTypeOK
<1>11. /\ Len(calls) \in Nat /\ Len(rest) \in Nat
       /\ DOMAIN calls' = 1..Len(rest) + 1 /\ DOMAIN calls = 1..Len(calls)
       /\ \A i \in 1..Len(calls) : calls'[i] = calls[i]
       /\ \A i \in 1..Len(rest) : calls'[i] = rest[i]
       /\ calls'[Len(rest) + 1].op = "on_resource_created"
       /\ calls'[Len(rest) + 1].object = r /\ calls'[Len(rest) + 1].block = k
       /\ calls'[Len(rest) + 1].arg = None
       /\ Len(rest) > Len(calls)
       /\ \A i \in 1..Len(rest) + 1 :
             \/ i \in 1..Len(calls) \/ i = Len(rest) \/ i = Len(rest) + 1
             \/ Len(rest) = Len(calls) + 2 /\ i = Len(calls) + 1
  BY <1>2, <1>4, CreatingFrames
<1>12. PICK L \in Nat, N \in Nat : L = Len(calls) /\ N = Len(rest)
  BY <1>11
<1>13. \A i \in DOMAIN calls : /\ AboutOK(calls[i]) /\ calls[i].op \notin Teardown
                               /\ calls[i].object \in Objects \ {r}
                               /\ calls[i].arg \in Resources => calls[i].arg \in Objects \ {r}
  <2>1. \A i \in DOMAIN calls : AboutOK(calls[i]) /\ calls[i].op \notin Teardown
    BY <1>1, <1>2 DEF CallsOK, PhaseOK, LiveOK
  <2>2. \A i \in DOMAIN calls : calls[i].object \in Objects
    BY <1>2, Elements
  <2> QED
    BY <1>1, <2>1, <2>2, Names DEF AboutOK
<1>14. ASSUME NEW i \in 1..L PROVE AboutOK(calls[i])'
  <2>1. i \in DOMAIN calls /\ calls'[i] = calls[i]
    BY <1>11, <1>12
  <2>2. PICK f \in Frame : f = calls[i] /\ f = calls'[i]
    BY <1>2, <2>1, Elements
  <2>3. /\ AboutOK(f) /\ f.op \notin Teardown /\ f.object \in Objects \ {r} /\ f.object # None
        /\ f.arg \in Resources => f.arg \in Objects \ {r}
    BY <1>13, <2>1, <2>2, Names
  <2>4. f.op \in WithBlock => f.block \in Blocks \ {k} /\ owner'[f.block] = f.object
    BY <1>5, <2>3 DEF AboutOK
  <2>5. AboutOK(f)'
    BY <1>5, <1>7, <2>3, <2>4 DEF AboutOK, Teardown
  <2> QED
    BY <2>2, <2>5 DEF AboutOK
<1>15. AboutOK(calls[N])'
  BY <1>6, <1>12, <1>7, <1>11, Names DEF Creating, AboutOK, UnderWay, WithBlock, WithHandle
<1>16. AboutOK(calls[N + 1])'
  BY <1>5, <1>12, <1>6, <1>7, <1>11, Names DEF AboutOK, UnderWay, WithBlock, WithHandle
<1>17. ASSUME N = L + 2 PROVE AboutOK(calls[L + 1])'
  <2>1. calls'[L + 1] = rest[L + 1]
    BY <1>11, <1>17, <1>12
  <2>2. CASE rest[L + 1].op \in {"classify", "bind"}
    BY <1>6, <1>7, <1>17, <1>12, <2>1, <2>2, Names DEF Creating, AboutOK, WithBlock, WithHandle
  <2>3. CASE rest[L + 1].op = "convert"
    <3>1. LET f == rest[L + 1] IN
             /\ f.object \in Resources \ {r} /\ life[f.object] # "none"
             /\ f.block = userData[f.object] /\ f.arg = r
      BY <1>17, <1>12, <2>3 DEF Creating
    <3>2. LET f == rest[L + 1] IN
             /\ f.object \in Objects \ {r} /\ userData[f.object] \in Blocks
             /\ owner[userData[f.object]] = f.object
      BY <1>2, <3>1, Names DEF StoreOK, ObjectOK
    <3> QED
      BY <1>5, <1>7, <2>1, <2>3, <3>1, <3>2, Names DEF AboutOK, WithBlock, WithHandle
  <2> QED
    BY <1>17, <1>12, <2>2, <2>3 DEF Creating
<1>18. CallsOK'
  <2>1. \A i \in DOMAIN calls' : AboutOK(calls[i])'
    BY <1>11, <1>12, <1>14, <1>15, <1>16, <1>17
  <2> QED
    BY <1>9, <2>1 DEF CallsOK
<1>19. ASSUME NEW i \in DOMAIN calls' PROVE calls'[i].op \notin Teardown
  BY <1>11, <1>13 DEF Creating, Teardown, UnderWay
<1>20. \A o \in Constructed' : o \in Constructed \/ o = r
  BY <1>11, <1>9, <1>19 DEF Constructed, Creating, UnderWay
<1>21. ASSUME NEW h \in Handles PROVE HandleOK(h)'
  <2>1. CASE handle[h] = None
    BY <1>1, <2>1 DEF HandleOK
  <2>2. CASE handle[h] # None
    <3>1. PICK b \in Blocks : b = handle[h] /\ handle'[h] = b
      BY <1>1, <1>2, <2>2, HeldBlocks
    <3>2. b # k /\ owner[b] \in Objects \ {r} /\ owner'[b] = owner[b] /\ owner[b] # None
      BY <1>1, <1>2, <1>5, <2>2, <3>1, HeldBlocks
    <3>3. HandleOK(h) /\ ~Ending(b)
      BY <1>2, <1>13 DEF HandlesOK, Ending, Teardown
    <3>4. Waiting(b)'
      BY <1>1, <1>2, <1>3, <2>2, <3>1, <3>2, <3>3, AttachWaiting DEF HandleOK
    <3> QED
      BY <1>1, <1>5, <1>20, <2>2, <3>1, <3>2, <3>3, <3>4 DEF HandleOK
  <2> QED
    BY <2>1, <2>2
<1>22. PhaseOK'
  BY <1>1, <1>2, <1>5, <1>6, <1>7, <1>19, Names DEF PhaseOK, LiveOK, DyingOK, FreedOK
<1> QED
  BY <1>8, <1>10, <1>18, <1>21, <1>22 DEF SoInv, HandlesOK

\* Two calls are put on the stack.
LEMMA TwoPushed ==
    ASSUME NEW s \in Seq(Frame), NEW f \in Frame, NEW g \in Frame
    PROVE  /\ s \o <<f, g>> \in Seq(Frame) /\ Len(s \o <<f, g>>) = Len(s) + 2 /\ Len(s) \in Nat
           /\ \A i \in 1..Len(s) : (s \o <<f, g>>)[i] = s[i]
           /\ (s \o <<f, g>>)[Len(s) + 1] = f /\ (s \o <<f, g>>)[Len(s) + 2] = g
<1>1. <<f, g>> \in Seq(Frame) /\ Len(<<f, g>>) = 2 /\ <<f, g>>[1] = f /\ <<f, g>>[2] = g
  OBVIOUS
<1>2. Len(s) \in Nat /\ Len(s \o <<f, g>>) = Len(s) + 2 /\ s \o <<f, g>> \in Seq(Frame)
  BY <1>1
<1>3. \A i \in 1..Len(s) : (s \o <<f, g>>)[i] = s[i]
  BY <1>1, <1>2
<1>4. (s \o <<f, g>>)[Len(s) + 1] = f /\ (s \o <<f, g>>)[Len(s) + 2] = g
  BY <1>1, <1>2
<1> QED
  BY <1>2, <1>3, <1>4

\* Whoever makes a resource has such a stack.
LEMMA StepCreate ==
    ASSUME SoInv, NEW r \in AllResources,
           \/ r \in TheirResources /\ CreateRegistry(r)
           \/ (r \in Resources /\ (Bind(r) \/ Offer(r)
                                  \/ \E x \in Resources : RequestNew(x, r)))
    PROVE  SoInv'
<1>1. SoTypeOK /\ calls \in Seq(Frame) /\ r \in Objects
  BY Names DEF SoInv, SoTypeOK
<1>2. \A op \in {"construct", "their_construct", "classify", "bind"} :
         /\ Calling(op, r, None) \in Frame /\ Calling(op, r, None).op = op
         /\ Calling(op, r, None).object = r /\ Calling(op, r, None).block = None
         /\ Calling(op, r, None).arg = None
  <2>1. {"construct", "their_construct", "classify", "bind"} \subseteq Library \cup Handlers
    BY DEF Library
  <2>2. None \in Blocks \cup {None}
    OBVIOUS
  <2> QED
    BY <1>1, <2>1, <2>2, CallingFrame
<1>3. CASE r \in Resources /\ Offer(r)
  <2>1. PICK rest : rest = calls \o <<Calling("classify", r, None), Calling("construct", r, None)>>
    OBVIOUS
  <2>2. Creating(r, rest)
    BY <1>1, <1>2, <1>3, <2>1, TwoPushed DEF Creating, UnderWay
  <2> QED
    BY <1>3, <2>1, <2>2, Creation DEF Offer
<1>4. CASE r \in Resources /\ Bind(r)
  <2>1. PICK rest : rest = <<Calling("bind", r, None), Calling("construct", r, None)>>
    OBVIOUS
  <2>2. calls = <<>> /\ rest = calls \o <<Calling("bind", r, None), Calling("construct", r, None)>>
    BY <1>2, <1>4, <2>1 DEF Bind, Idle
  <2>3. Creating(r, rest)
    BY <1>1, <1>2, <1>4, <2>2, TwoPushed DEF Creating, UnderWay
  <2> QED
    BY <1>4, <2>1, <2>3, Creation DEF Bind
<1>5. CASE r \in TheirResources /\ CreateRegistry(r)
  <2>1. PICK rest : rest = <<Calling("their_construct", r, None)>>
    OBVIOUS
  <2>2. calls = <<>> /\ Len(calls) = 0 /\ r \notin Resources
    BY <1>5, Names DEF CreateRegistry, Idle
  <2>3. rest \in Seq(Frame) /\ Len(rest) = 1 /\ rest[1] = Calling("their_construct", r, None)
    BY <1>2, <2>1
  <2>4. r \in TheirResources
    BY <2>2, Names DEF AllResources
  <2>5. Creating(r, rest)
    BY <1>2, <2>2, <2>3, <2>4 DEF Creating, UnderWay
  <2> QED
    BY <1>5, <2>1, <2>5, Creation DEF CreateRegistry
<1>6. ASSUME r \in Resources, NEW x \in Resources, RequestNew(x, r) PROVE SoInv'
  <2>1. PICK rest : rest = <<Dispatching(x, r), Calling("construct", r, None)>>
    OBVIOUS
  <2>2. calls = <<>> /\ life[x] = "alive" /\ life[r] = "none" /\ x \in Objects
    BY <1>6, Names DEF RequestNew, Idle, CreateResource
  <2>3. userData[x] \in Blocks
    BY <1>6, <2>2 DEF SoInv, StoreOK, ObjectOK
  <2>4. Calling("convert", x, userData[x]) \in Frame
        /\ Calling("convert", x, userData[x]).op = "convert"
        /\ Calling("convert", x, userData[x]).object = x
        /\ Calling("convert", x, userData[x]).block = userData[x]
    <3>1. "convert" \in Library \cup Handlers
      BY DEF Library
    <3> QED
      BY <2>2, <2>3, <3>1, CallingFrame
  <2>5. PICK f \in Frame : f = Dispatching(x, r) /\ f.op = "convert" /\ f.object = x
                           /\ f.block = userData[x] /\ f.arg = r
    <3>1. PICK g \in Frame : /\ g = Calling("convert", x, userData[x]) /\ g.op = "convert"
                              /\ g.object = x /\ g.block = userData[x]
      BY <2>4
    <3>2. LET f == [g EXCEPT !.arg = r] IN
             /\ f \in Frame /\ f.op = g.op /\ f.object = g.object /\ f.block = g.block /\ f.arg = r
      BY <1>6, <3>1 DEF Frame
    <3> QED
      BY <3>1, <3>2 DEF Dispatching
  <2>6. rest = calls \o <<f, Calling("construct", r, None)>>
    BY <1>2, <2>1, <2>2, <2>5
  <2>7. Creating(r, rest)
    BY <1>1, <1>2, <1>6, <2>2, <2>5, <2>6, TwoPushed DEF Creating, UnderWay
  <2> QED
    BY <1>6, <2>1, <2>7, Creation DEF RequestNew
<1> QED
  BY <1>3, <1>4, <1>5, <1>6
-----------------------------------------------------------------------------
(* Constructors go on *)

\* All calls but those of a teardown are of a client that lives.
LEMMA LiveCalls ==
    ASSUME SoInv, NEW i \in DOMAIN calls, calls[i].op \notin Teardown
    PROVE  /\ life[Client] = "alive" /\ deleted = {}
           /\ \A r \in AllResources : life[r] \in {"none", "alive"}
           /\ \A j \in DOMAIN calls : calls[j].op \notin Teardown
<1>1. SoTypeOK /\ PhaseOK /\ life[Client] \in {"none", "alive", "dying", "freed"}
  BY Names DEF SoInv, SoTypeOK
<1>2. Len(calls) \in Nat /\ DOMAIN calls = 1..Len(calls)
  BY <1>1, Elements
<1>3. calls # <<>>
  BY <1>2
<1>4. life[Client] # "none" /\ life[Client] # "freed"
  BY <1>1, <1>3 DEF PhaseOK, LiveOK, FreedOK
<1>5. ASSUME life[Client] = "dying" PROVE FALSE
  <2>1. Len(calls) \in 1..3 /\ i \in 1..3 /\ i <= Len(calls)
    BY <1>1, <1>2, <1>5 DEF PhaseOK, DyingOK
  <2>2. i = 1 \/ i = 2 \/ i = 3
    BY <2>1
  <2>3. CASE i = 1
    BY <1>1, <1>5, <2>3 DEF PhaseOK, DyingOK, Teardown
  <2>4. CASE i = 2
    BY <1>1, <1>5, <2>1, <2>4 DEF PhaseOK, DyingOK, Teardown
  <2>5. CASE i = 3
    BY <1>1, <1>5, <2>1, <2>5 DEF PhaseOK, DyingOK, Teardown
  <2> QED
    BY <2>2, <2>3, <2>4, <2>5
<1>6. life[Client] = "alive"
  BY <1>1, <1>4, <1>5
<1> QED
  BY <1>1, <1>6 DEF PhaseOK, LiveOK

\* While an object is constructed, neither a handle nor any other call has it.
LEMMA ConstructorAlone ==
    ASSUME SoInv, calls # <<>>, Top.op \in UnderWay
    PROVE  /\ life[Client] = "alive" /\ life[Top.object] = "alive" /\ Top.object \in AllResources
           /\ Top.op = "construct" => Top.object \in Resources
           /\ Top.op = "their_construct" => Top.object \in TheirResources
           /\ \A i \in 1..Len(calls) - 1 :
                 calls[i].object = Top.object => calls[i].op \in {"classify", "bind"}
           /\ \A h \in Handles : handle[h] # None => owner[handle[h]] # Top.object
           /\ \A i \in DOMAIN calls : calls[i].op \notin Teardown
<1>1. SoTypeOK /\ CallsOK /\ HandlesOK
  BY DEF SoInv
<1>2. /\ Len(calls) \in DOMAIN calls /\ Top = calls[Len(calls)] /\ Len(calls) \in Nat \ {0}
      /\ DOMAIN calls = 1..Len(calls) /\ Top.object \in Objects
  BY <1>1, TopFrame
<1>3. AboutOK(Top) /\ Nested(Len(calls))
  BY <1>1, <1>2 DEF CallsOK, NestedOK
<1>4. /\ Top.object \in AllResources
      /\ Top.op = "construct" => Top.object \in Resources
      /\ Top.op = "their_construct" => Top.object \in TheirResources
  BY <1>3, Names DEF AboutOK, UnderWay
<1>5. Top.op \notin Teardown
  BY DEF UnderWay, Teardown
<1>6. /\ life[Client] = "alive" /\ \A r \in AllResources : life[r] \in {"none", "alive"}
      /\ \A i \in DOMAIN calls : calls[i].op \notin Teardown
  BY <1>2, <1>5, LiveCalls
<1>7. life[Top.object] = "alive"
  BY <1>3, <1>4, <1>6 DEF AboutOK
<1>8. ASSUME NEW i \in 1..Len(calls) - 1, calls[i].object = Top.object
      PROVE  calls[i].op \in {"classify", "bind"}
  <2>1. i \in DOMAIN calls /\ i < Len(calls) /\ Nested(i)
    BY <1>1, <1>2, <1>8 DEF CallsOK, NestedOK
  <2>2. calls[i].op \in {"classify", "bind"} \/ calls[i].op = "on_resource_created"
    BY <1>2, <1>3, <1>8, <2>1 DEF Nested
  <2>3. ASSUME calls[i].op = "on_resource_created" PROVE FALSE
    <3>1. i > 1 /\ calls[i - 1].op \in UnderWay /\ calls[i - 1].object = Top.object
      BY <1>8, <2>1, <2>3 DEF Nested
    <3>2. i - 1 \in DOMAIN calls /\ i - 1 # Len(calls)
      BY <1>2, <2>1, <3>1
    <3>3. calls[i - 1].op \in {"classify", "bind"} \/ calls[i - 1].op = "on_resource_created"
      BY <1>2, <1>3, <3>1, <3>2 DEF Nested
    <3> QED
      BY <3>1, <3>3 DEF UnderWay
  <2> QED
    BY <2>2, <2>3
<1>9. ASSUME NEW h \in Handles, handle[h] # None PROVE owner[handle[h]] # Top.object
  <2>1. HandleOK(h)
    BY <1>1 DEF HandlesOK
  <2>2. Top.object \in Constructed
    BY <1>2 DEF Constructed
  <2> QED
    BY <1>9, <2>1, <2>2 DEF HandleOK
<1> QED
  BY <1>4, <1>6, <1>7, <1>8, <1>9

\* What a call works with is not touched by a step: then it is as it was.
LEMMA AboutKept ==
    ASSUME SoTypeOK, NEW f \in Frame, AboutOK(f),
           life'[f.object] # "none", f.arg \in Resources => life'[f.arg] # "none",
           f.op \in WithBlock => owner'[f.block] = owner[f.block],
           f.op \in WithHandle => userData'[f.object] = userData[f.object],
           f.op = "on_destroy" => f.block \notin deleted' /\ ~Waiting(f.block)'
    PROVE  AboutOK(f)'
BY DEF AboutOK

\* A constructor of our own goes on with a second init(): only new handles find
\* the second block, and there are no others.
LEMMA StepFinishInit == SoInv /\ FinishInit => SoInv'
<1> SUFFICES ASSUME SoInv, FinishInit PROVE SoInv'
  OBVIOUS
<1>1. SoTypeOK /\ StoreOK /\ HandlesOK /\ CallsOK /\ PhaseOK /\ Made /\ NestedOK
  BY DEF SoInv, StoreOK, CallsOK
<1>2. calls # <<>> /\ Top.op = "construct" /\ calls' = Below
      /\ Attach(Top.object) /\ UNCHANGED <<life, withEvents, handled, notified, handle>>
  BY DEF FinishInit, On
<1>3. PICK r \in Resources : r = Top.object
  BY <1>1, <1>2, ConstructorAlone DEF UnderWay
<1>4. /\ life[Client] = "alive" /\ life[r] = "alive" /\ r \in AllResources /\ r \in Objects
      /\ r # None /\ r # Client /\ Client \in Objects
      /\ \A i \in 1..Len(calls) - 1 : calls[i].object = r => calls[i].op \in {"classify", "bind"}
      /\ \A h \in Handles : handle[h] # None => owner[handle[h]] # r
      /\ \A i \in DOMAIN calls : calls[i].op \notin Teardown
  BY <1>1, <1>2, <1>3, ConstructorAlone, Names DEF UnderWay
<1>5. Attach(r)
  BY <1>2, <1>3
<1>6. PICK k \in Blocks : k = Fresh
  BY <1>1, <1>4, <1>5, AttachFacts
<1>7. /\ owner[k] = None /\ \A b \in Blocks \ {k} : owner'[b] = owner[b]
      /\ \A p \in Objects \ {r} : userData'[p] = userData[p]
      /\ late' = late /\ deleted' = deleted
      /\ listeners' \in [Objects -> Seq(Blocks)] /\ owner' \in [Blocks -> Objects \cup {None}]
      /\ userData' \in [Objects -> Blocks \cup {None, Theirs}]
      /\ dispatcher' \in [AllResources -> {"none", "dummy", "generated"}]
      /\ \A p \in Objects \ {r} : listeners'[p] = listeners[p]
  BY <1>1, <1>4, <1>5, <1>6, AttachFacts
<1>8. life' = [life EXCEPT ![r] = "alive"]
  BY <1>1, <1>2, <1>4 DEF SoTypeOK
<1>9. StoreOK'
  BY <1>1, <1>2, <1>4, <1>5, <1>8, Attaching
<1>10. /\ calls' \in Seq(Frame) /\ DOMAIN calls' = 1..Len(calls) - 1
       /\ DOMAIN calls' \subseteq DOMAIN calls /\ NestedOK' /\ Constructed' \subseteq Constructed
       /\ \A i \in DOMAIN calls' : calls'[i] = calls[i]
  BY <1>1, <1>2, Popped
<1>11. SoTypeOK'
  BY <1>1, <1>2, <1>7, <1>10 DEF SoTypeOK
<1>12. ASSUME NEW i \in DOMAIN calls' PROVE AboutOK(calls[i])'
  <2>1. PICK f \in Frame : f = calls[i] /\ f = calls'[i] /\ f.object \in Objects
    BY <1>1, <1>10, Elements
  <2>2. AboutOK(f) /\ f.op \notin Teardown
    BY <1>1, <1>4, <1>10, <2>1 DEF CallsOK
  <2>3. f.op \in WithBlock => owner'[f.block] = owner[f.block]
    BY <1>7, <2>1, <2>2, Names DEF AboutOK
  <2>4. f.op \in WithHandle => userData'[f.object] = userData[f.object]
    BY ZenonT(30), <1>4, <1>7, <1>10, <2>1 DEF WithHandle
  <2>5. life'[f.object] # "none" /\ (f.arg \in Resources => life'[f.arg] # "none")
    BY <1>2, <2>2 DEF AboutOK
  <2>6. AboutOK(f)'
    BY <1>1, <2>2, <2>3, <2>4, <2>5, AboutKept DEF Teardown
  <2> QED
    BY <2>1, <2>6 DEF AboutOK
<1>13. ASSUME NEW h \in Handles PROVE HandleOK(h)'
  <2>1. CASE handle[h] = None
    BY <1>2, <2>1 DEF HandleOK
  <2>2. CASE handle[h] # None
    <3>1. PICK b \in Blocks : b = handle[h] /\ handle'[h] = b
      BY <1>1, <1>2, <2>2, HeldBlocks
    <3>2. b # k /\ owner[b] \in Objects \ {r} /\ owner'[b] = owner[b] /\ owner[b] # None
      BY <1>1, <1>4, <1>7, <2>2, <3>1, HeldBlocks
    <3>3. HandleOK(h) /\ ~Ending(b)
      BY <1>1, <1>4 DEF HandlesOK, Ending, Teardown
    <3>4. Waiting(b)'
      BY <1>1, <1>4, <1>5, <1>6, <2>2, <3>1, <3>2, <3>3, AttachWaiting DEF HandleOK
    <3> QED
      BY <1>2, <1>7, <1>10, <2>2, <3>1, <3>2, <3>3, <3>4 DEF HandleOK
  <2> QED
    BY <2>1, <2>2
<1>14. PhaseOK'
  BY <1>1, <1>2, <1>4, <1>7, <1>10 DEF PhaseOK, LiveOK, DyingOK, FreedOK
<1> QED
  BY <1>9, <1>10, <1>11, <1>12, <1>13, <1>14 DEF SoInv, HandlesOK, CallsOK

\* A store in which only the user data of libwayland's own resources changes.
LEMMA StepFinishRegistry == SoInv /\ FinishRegistry => SoInv'
<1> SUFFICES ASSUME SoInv, FinishRegistry PROVE SoInv'
  OBVIOUS
<1>1. SoTypeOK /\ StoreOK /\ HandlesOK /\ CallsOK /\ PhaseOK /\ NestedOK
  BY DEF SoInv, CallsOK
<1>2. /\ calls # <<>> /\ Top.op = "their_construct" /\ calls' = Below
      /\ userData' = [userData EXCEPT ![Top.object] = Theirs]
      /\ dispatcher' = [dispatcher EXCEPT ![Top.object] = "none"]
      /\ UNCHANGED <<life, listeners, late, owner, deleted, withEvents, handled, notified, handle>>
  BY DEF FinishRegistry, On, blockVars
<1>3. PICK r \in TheirResources : r = Top.object
  BY <1>1, <1>2, ConstructorAlone DEF UnderWay
<1>4. /\ life[Client] = "alive" /\ life[r] = "alive" /\ r \in AllResources /\ r \in Objects
      /\ r \notin Resources /\ r # Client /\ r # None
      /\ \A i \in 1..Len(calls) - 1 : calls[i].object = r => calls[i].op \in {"classify", "bind"}
      /\ \A h \in Handles : handle[h] # None => owner[handle[h]] # r
      /\ \A i \in DOMAIN calls : calls[i].op \notin Teardown
  BY <1>1, <1>2, <1>3, ConstructorAlone, Names DEF UnderWay
<1>5. /\ userData'[r] = Theirs /\ \A p \in Objects \ {r} : userData'[p] = userData[p]
      /\ \A p \in AllResources \ {r} : dispatcher'[p] = dispatcher[p]
      /\ userData' \in [Objects -> Blocks \cup {None, Theirs}]
      /\ dispatcher' \in [AllResources -> {"none", "dummy", "generated"}]
  BY <1>1, <1>2, <1>3, <1>4 DEF SoTypeOK
<1>6. /\ calls' \in Seq(Frame) /\ DOMAIN calls' = 1..Len(calls) - 1
      /\ DOMAIN calls' \subseteq DOMAIN calls /\ NestedOK' /\ Constructed' \subseteq Constructed
      /\ \A i \in DOMAIN calls' : calls'[i] = calls[i]
  BY <1>1, <1>2, Popped
<1>7. SoTypeOK'
  BY <1>1, <1>2, <1>5, <1>6 DEF SoTypeOK
<1>8. \A b : Waiting(b)' = Waiting(b)
  BY <1>2 DEF Waiting
<1>9. \A p \in Objects : ObjectOK(p)'
  BY <1>1, <1>2, <1>4, <1>5, <1>8, Names DEF StoreOK, ObjectOK
<1>10. \A b \in Blocks : BlockOK(b)'
  BY <1>1, <1>2, <1>4, <1>5, <1>8, Names DEF StoreOK, BlockOK
<1>11. DispatcherHasEvents'
  BY <1>1, <1>2, <1>4, <1>5, Names DEF StoreOK, DispatcherHasEvents
<1>12. StoreOK'
  BY <1>1, <1>2, <1>9, <1>10, <1>11 DEF StoreOK, Made
<1>13. ASSUME NEW i \in DOMAIN calls' PROVE AboutOK(calls[i])'
  <2>1. PICK f \in Frame : f = calls[i] /\ f = calls'[i] /\ f.object \in Objects
    BY <1>1, <1>6, Elements
  <2>2. AboutOK(f) /\ f.op \notin Teardown
    BY <1>1, <1>4, <1>6, <2>1 DEF CallsOK
  <2>3. f.op \in WithHandle => userData'[f.object] = userData[f.object]
    BY <1>4, <1>5, <1>6, <2>1 DEF WithHandle
  <2>4. AboutOK(f)'
    BY <1>1, <1>2, <2>2, <2>3, AboutKept DEF Teardown, AboutOK
  <2> QED
    BY <2>1, <2>4 DEF AboutOK
<1>14. ASSUME NEW h \in Handles PROVE HandleOK(h)'
  <2>1. HandleOK(h) /\ \A b : ~Ending(b)
    BY <1>1, <1>4 DEF HandlesOK, Ending, Teardown
  <2>2. handle[h] # None => owner[handle[h]] \in Objects \ {r}
    BY <1>1, <1>4, HeldBlocks
  <2> QED
    BY <1>2, <1>5, <1>6, <1>8, <2>1, <2>2 DEF HandleOK
<1>15. PhaseOK'
  BY <1>1, <1>2, <1>4, <1>6 DEF PhaseOK, LiveOK, DyingOK, FreedOK
<1> QED
  BY <1>6, <1>7, <1>12, <1>13, <1>14, <1>15 DEF SoInv, HandlesOK, CallsOK
-----------------------------------------------------------------------------
(* Calls while the client lives *)

\* set_events() through a handle of the resource that the user data has.
LEMMA SettingEvents ==
    ASSUME SoTypeOK, StoreOK, NEW o \in Resources, life[o] # "none", SetEvents(userData[o]),
           life' = life
    PROVE  /\ userData' = userData /\ DispatcherHasEvents'
           /\ withEvents' \in SUBSET Blocks
           /\ \A b \in withEvents' : b \in withEvents \/ owner[b] # None
           /\ dispatcher' \in [AllResources -> {"none", "dummy", "generated"}]
<1>1. o \in Objects /\ o \in AllResources /\ o # None
  BY Names
<1>2. userData[o] \in Blocks /\ owner[userData[o]] = o
  BY <1>1 DEF StoreOK, ObjectOK
<1>3. CASE userData[o] \in withEvents
  BY <1>3 DEF SetEvents, SoTypeOK, StoreOK, DispatcherHasEvents
<1>4. CASE userData[o] \notin withEvents
  <2>1. /\ withEvents' = withEvents \cup {userData[o]}
        /\ dispatcher' = [dispatcher EXCEPT ![o] = "generated"]
        /\ userData' = [userData EXCEPT ![o] = userData[o]]
    BY <1>2, <1>4 DEF SetEvents
  <2>2. userData' = userData /\ withEvents' \in SUBSET Blocks
        /\ dispatcher' \in [AllResources -> {"none", "dummy", "generated"}]
        /\ \A r \in AllResources \ {o} : dispatcher'[r] = dispatcher[r]
    BY <1>1, <1>2, <2>1 DEF SoTypeOK
  <2>3. DispatcherHasEvents'
    BY <2>1, <2>2, Names DEF StoreOK, DispatcherHasEvents
  <2> QED
    BY <1>1, <1>2, <2>1, <2>2, <2>3
<1> QED
  BY <1>3, <1>4

\* Steps that leave the objects and their listeners alone keep them in order.
LEMMA StoreKept ==
    ASSUME SoTypeOK, StoreOK,
           UNCHANGED <<life, userData, listeners, late, owner, deleted, notified>>,
           DispatcherHasEvents',
           \A b \in withEvents' : b \in withEvents \/ owner[b] # None,
           \A b \in handled' : b \in handled \/ owner[b] # None
    PROVE  StoreOK' /\ \A b : Waiting(b)' = Waiting(b)
<1>1. \A b : Waiting(b)' = Waiting(b)
  BY DEF Waiting
<1>2. \A o \in Objects : ObjectOK(o)'
  BY <1>1 DEF StoreOK, ObjectOK
<1>3. \A b \in Blocks : BlockOK(b)'
  BY <1>1 DEF StoreOK, BlockOK
<1> QED
  BY <1>1, <1>2, <1>3 DEF StoreOK, Made

\* Such steps, if the new calls are right, keep calls and handles in order.
LEMMA CallsKept ==
    ASSUME SoInv, UNCHANGED <<life, userData, listeners, owner, deleted>>,
           NestedOK', calls' \in Seq(Frame),
           \A i \in DOMAIN calls' :
              \/ i \in DOMAIN calls /\ calls'[i] = calls[i]
              \/ AboutOK(calls[i])'
    PROVE  CallsOK'
<1>1. SoTypeOK /\ CallsOK
  BY DEF SoInv
<1>2. ASSUME NEW i \in DOMAIN calls', i \in DOMAIN calls /\ calls'[i] = calls[i]
      PROVE  AboutOK(calls[i])'
  <2>1. PICK f : f = calls[i] /\ f = calls'[i]
    BY <1>2
  <2>2. AboutOK(f)
    BY <1>1, <1>2, <2>1 DEF CallsOK
  <2>3. Waiting(f.block)' = Waiting(f.block)
    BY DEF Waiting
  <2>4. AboutOK(f)'
    BY <2>2, <2>3 DEF AboutOK
  <2> QED
    BY <2>1, <2>4 DEF AboutOK
<1> QED
  BY <1>2 DEF CallsOK

LEMMA HandlesKept ==
    ASSUME SoInv, UNCHANGED <<userData, listeners, owner, handle>>,
           Constructed' \subseteq Constructed, handled \subseteq handled',
           \A h \in Handles : handle[h] # None /\ Ending(handle[h]) => Ending(handle[h])'
    PROVE  HandlesOK'
<1>1. HandlesOK
  BY DEF SoInv
<1>2. ASSUME NEW h \in Handles PROVE HandleOK(h)'
  <2>1. HandleOK(h)
    BY <1>1 DEF HandlesOK
  <2>2. CASE handle[h] = None
    BY <2>2 DEF HandleOK
  <2>3. CASE handle[h] # None
    <3>1. Ending(handle[h]) => Ending(handle[h])'
      BY <2>3
    <3>2. Waiting(handle[h]) => Waiting(handle[h])'
      BY DEF Waiting
    <3> QED
      BY <2>1, <2>3, <3>1, <3>2 DEF HandleOK
  <2> QED
    BY <2>2, <2>3
<1> QED
  BY <1>2 DEF HandlesOK

LEMMA PhaseKept ==
    ASSUME SoInv, life[Client] = "alive", UNCHANGED <<life, deleted>>,
           \A i \in DOMAIN calls' : calls'[i].op \notin Teardown
    PROVE  PhaseOK'
BY DEF SoInv, PhaseOK, LiveOK, DyingOK, FreedOK

\* What a call on top works with, if it is none of a teardown.
LEMMA LiveTop ==
    ASSUME SoInv, calls # <<>>, Top.op \notin Teardown
    PROVE  /\ AboutOK(Top) /\ Top \in Frame /\ life[Client] = "alive" /\ deleted = {}
           /\ \A i \in DOMAIN calls : calls[i].op \notin Teardown
           /\ \A b : ~Ending(b)
           /\ Top.op \in {"classify", "bind", "convert", "on_request", "on_bind"}
                 => Top.object \in Resources
           /\ \A o \in Resources \cup {Client} : life[o] # "none" =>
                 userData[o] \in Blocks /\ owner[userData[o]] = o
<1>1. SoTypeOK /\ CallsOK /\ StoreOK
  BY DEF SoInv
<1>2. Len(calls) \in DOMAIN calls /\ Top = calls[Len(calls)] /\ Top \in Frame
  BY <1>1, TopFrame
<1>3. AboutOK(Top)
  BY <1>1, <1>2 DEF CallsOK
<1>4. /\ life[Client] = "alive" /\ deleted = {}
      /\ \A i \in DOMAIN calls : calls[i].op \notin Teardown
  BY <1>2, LiveCalls
<1>5. \A b : ~Ending(b)
  BY <1>4 DEF Ending, Teardown
<1>6. \A o \in Resources \cup {Client} : life[o] # "none" =>
         userData[o] \in Blocks /\ owner[userData[o]] = o
  BY <1>1, Names DEF StoreOK, ObjectOK
<1> QED
  BY <1>2, <1>3, <1>4, <1>5, <1>6 DEF AboutOK

\* on_resource_created gives the resource its class.
LEMMA StepCast == SoInv /\ Cast => SoInv'
<1> SUFFICES ASSUME SoInv, Cast PROVE SoInv'
  OBVIOUS
<1>1. SoTypeOK /\ StoreOK /\ NestedOK
  BY DEF SoInv, CallsOK
<1>2. /\ calls # <<>> /\ Top.op = "on_resource_created" /\ Top.object \in Resources
      /\ SetEvents(Top.block)
      /\ UNCHANGED <<life, listeners, late, owner, deleted, handled, notified, handle, calls>>
  BY DEF Cast, On
<1>3. AboutOK(Top) /\ life[Client] = "alive" /\ \A i \in DOMAIN calls : calls[i].op \notin Teardown
  BY <1>2, LiveTop DEF Teardown
<1>4. Top.block = userData[Top.object] /\ life[Top.object] # "none"
  BY <1>2, <1>3 DEF AboutOK, WithHandle
<1>5. /\ userData' = userData /\ DispatcherHasEvents' /\ withEvents' \in SUBSET Blocks
      /\ \A b \in withEvents' : b \in withEvents \/ owner[b] # None
      /\ dispatcher' \in [AllResources -> {"none", "dummy", "generated"}]
  BY <1>1, <1>2, <1>4, SettingEvents
<1>6. StoreOK'
  BY <1>1, <1>2, <1>5, StoreKept
<1>7. SoTypeOK'
  BY <1>1, <1>2, <1>5 DEF SoTypeOK
<1>8. NestedOK'
  BY ZenonT(30), <1>1, <1>2 DEF NestedOK, Nested
<1>9. CallsOK'
  BY <1>2, <1>5, <1>7, <1>8, CallsKept DEF SoTypeOK
<1>10. Constructed' \subseteq Constructed /\ \A b : Ending(b) => Ending(b)'
  BY <1>2 DEF Constructed, Ending
<1>11. HandlesOK'
  BY <1>2, <1>5, <1>10, HandlesKept
<1>12. PhaseOK'
  BY <1>2, <1>3, PhaseKept
<1> QED
  BY <1>6, <1>7, <1>9, <1>11, <1>12 DEF SoInv

\* The constructor of a generated class ends, and bind_func calls on_bind.
LEMMA StepFinishClass == SoInv /\ FinishClass => SoInv'
<1> SUFFICES ASSUME SoInv, FinishClass PROVE SoInv'
  OBVIOUS
<1>1. SoTypeOK /\ StoreOK /\ NestedOK
  BY DEF SoInv, CallsOK
<1>2. /\ calls # <<>> /\ Top.op \in {"classify", "bind"}
      /\ SetEvents(userData[Top.object])
      /\ UNCHANGED <<life, listeners, late, owner, deleted, handled, notified, handle>>
  BY DEF FinishClass, On
<1>3. /\ AboutOK(Top) /\ life[Client] = "alive" /\ Top.object \in Resources
      /\ \A i \in DOMAIN calls : calls[i].op \notin Teardown
      /\ \A b : ~Ending(b)
  BY <1>2, LiveTop DEF Teardown
<1>4. life[Top.object] # "none" /\ userData[Top.object] \in Blocks
      /\ owner[userData[Top.object]] = Top.object
  BY <1>2, <1>3, LiveTop DEF AboutOK, Teardown
<1>5. /\ userData' = userData /\ DispatcherHasEvents' /\ withEvents' \in SUBSET Blocks
      /\ \A b \in withEvents' : b \in withEvents \/ owner[b] # None
      /\ dispatcher' \in [AllResources -> {"none", "dummy", "generated"}]
  BY <1>1, <1>2, <1>3, <1>4, SettingEvents
<1>6. StoreOK'
  BY <1>1, <1>2, <1>5, StoreKept
<1>7. /\ calls' \in Seq(Frame) /\ NestedOK' /\ Constructed' \subseteq Constructed
      /\ \A i \in DOMAIN calls' : \/ i \in DOMAIN calls /\ calls'[i] = calls[i]
                                  \/ AboutOK(calls[i])' /\ calls'[i].op \notin Teardown
  <2>1. CASE Top.op = "classify"
    <3>1. calls' = Below
      BY <2>1 DEF FinishClass, On
    <3> QED
      BY <1>1, <1>2, <3>1, Popped
  <2>2. CASE Top.op = "bind"
    <3>1. PICK f : f = Calling("on_bind", Top.object, userData[Top.object])
      OBVIOUS
    <3>2. "on_bind" \in Library \cup Handlers /\ Top.object \in Objects
          /\ userData[Top.object] \in Blocks \cup {None}
      BY <1>3, <1>4, Names DEF Handlers
    <3>3. /\ f \in Frame /\ f.op = "on_bind" /\ f.object = Top.object
          /\ f.block = userData[Top.object] /\ f.arg = None
      BY <3>1, <3>2, CallingFrame
    <3>4. calls' = Append(Below, f)
      BY <1>2, <2>2, <3>1 DEF FinishClass, On
    <3>5. /\ calls' \in Seq(Frame) /\ DOMAIN calls' = 1..Len(calls) /\ DOMAIN calls = 1..Len(calls)
          /\ calls'[Len(calls)] = f /\ NestedOK' /\ Constructed' = Constructed
          /\ \A i \in 1..Len(calls) - 1 : calls'[i] = calls[i]
          /\ Len(calls) \in Nat \ {0}
      BY <1>1, <1>2, <2>2, <3>3, <3>4, Replaced DEF UnderWay
    <3>6. AboutOK(f)'
      BY <1>2, <1>3, <1>4, <1>5, <3>3, Names DEF AboutOK, WithBlock, WithHandle
    <3>7. ASSUME NEW i \in DOMAIN calls', i = Len(calls) PROVE AboutOK(calls[i])'
      BY <3>5, <3>6, <3>7 DEF AboutOK
    <3>8. \A i \in DOMAIN calls' : i = Len(calls) \/ i \in 1..Len(calls) - 1
      BY <3>5
    <3>9. ASSUME NEW i \in DOMAIN calls'
          PROVE  \/ i \in DOMAIN calls /\ calls'[i] = calls[i]
                 \/ AboutOK(calls[i])' /\ calls'[i].op \notin Teardown
      BY <3>3, <3>5, <3>7, <3>8 DEF Teardown
    <3> QED
      BY <3>5, <3>9
  <2> QED
    BY <1>2, <2>1, <2>2
<1>8. SoTypeOK'
  BY <1>1, <1>2, <1>5, <1>7 DEF SoTypeOK
<1>9. CallsOK'
  BY <1>2, <1>5, <1>7, CallsKept
<1>10. HandlesOK'
  BY <1>2, <1>3, <1>5, <1>7, HandlesKept
<1>11. PhaseOK'
  BY <1>2, <1>3, <1>7, PhaseKept
<1> QED
  BY <1>6, <1>8, <1>9, <1>10, <1>11 DEF SoInv

\* The generated dispatcher calls the handler, with an argument that has events.
LEMMA StepCallHandler == SoInv /\ CallHandler => SoInv'
<1> SUFFICES ASSUME SoInv, CallHandler PROVE SoInv'
  OBVIOUS
<1>1. SoTypeOK /\ StoreOK /\ NestedOK
  BY DEF SoInv, CallsOK
<1>2. /\ calls # <<>> /\ Top.op = "convert" /\ Top.arg # Null
      /\ calls' = Append(Below, [Top EXCEPT !.op = "on_request"])
      /\ IF Top.arg = None THEN UNCHANGED <<withEvents, dispatcher, userData>>
                           ELSE SetEvents(userData[Top.arg])
      /\ UNCHANGED <<life, listeners, late, owner, deleted, handled, notified, handle>>
  BY DEF CallHandler, On, ArgBlock
<1>3. /\ AboutOK(Top) /\ life[Client] = "alive" /\ Top.object \in Resources /\ Top \in Frame
      /\ \A i \in DOMAIN calls : calls[i].op \notin Teardown
      /\ \A b : ~Ending(b)
  BY <1>2, LiveTop DEF Teardown
<1>4. /\ userData' = userData /\ DispatcherHasEvents' /\ withEvents' \in SUBSET Blocks
      /\ \A b \in withEvents' : b \in withEvents \/ owner[b] # None
      /\ dispatcher' \in [AllResources -> {"none", "dummy", "generated"}]
  <2>1. CASE Top.arg = None
    BY <1>1, <1>2, <2>1 DEF StoreOK, DispatcherHasEvents, SoTypeOK
  <2>2. CASE Top.arg # None
    <3>1. Top.arg \in Resources /\ life[Top.arg] # "none"
      BY <1>1, <1>2, <1>3, <2>2, TopFrame DEF AboutOK
    <3> QED
      BY <1>1, <1>2, <2>2, <3>1, SettingEvents
  <2> QED
    BY <2>1, <2>2
<1>5. StoreOK'
  BY <1>1, <1>2, <1>4, StoreKept
<1>6. PICK f : f = [Top EXCEPT !.op = "on_request"]
  OBVIOUS
<1>7. /\ f \in Frame /\ f.op = "on_request" /\ f.object = Top.object
      /\ f.block = Top.block /\ f.arg = Top.arg
  BY <1>3, <1>6 DEF Frame, Handlers
<1>8. /\ calls' \in Seq(Frame) /\ DOMAIN calls' = 1..Len(calls) /\ DOMAIN calls = 1..Len(calls)
      /\ calls'[Len(calls)] = f /\ NestedOK' /\ Constructed' = Constructed
      /\ \A i \in 1..Len(calls) - 1 : calls'[i] = calls[i]
      /\ Len(calls) \in Nat \ {0}
  BY <1>1, <1>2, <1>6, <1>7, Replaced DEF UnderWay
<1>9. AboutOK(f)'
  BY <1>2, <1>3, <1>4, <1>7 DEF AboutOK, WithBlock, WithHandle
<1>10. ASSUME NEW i \in DOMAIN calls'
       PROVE  \/ i \in DOMAIN calls /\ calls'[i] = calls[i]
              \/ AboutOK(calls[i])' /\ calls'[i].op \notin Teardown
  <2>1. i = Len(calls) \/ i \in 1..Len(calls) - 1
    BY <1>8
  <2>2. ASSUME i = Len(calls) PROVE AboutOK(calls[i])'
    BY <1>8, <1>9, <2>2 DEF AboutOK
  <2> QED
    BY <1>7, <1>8, <2>1, <2>2 DEF Teardown
<1>11. SoTypeOK'
  BY <1>1, <1>2, <1>4, <1>8 DEF SoTypeOK
<1>12. CallsOK'
  BY <1>2, <1>4, <1>8, <1>10, CallsKept
<1>13. HandlesOK'
  BY <1>2, <1>3, <1>4, <1>8, HandlesKept
<1>14. PhaseOK'
  BY <1>2, <1>3, <1>10, PhaseKept
<1> QED
  BY <1>5, <1>11, <1>12, <1>13, <1>14 DEF SoInv

\* A request comes.
LEMMA StepRequest ==
    ASSUME SoInv, NEW r \in Resources, Request(r)
    PROVE  SoInv'
<1>1. SoTypeOK /\ StoreOK /\ NestedOK /\ r \in Objects
  BY Names DEF SoInv, CallsOK
<1>2. /\ calls = <<>> /\ life[Client] = "alive" /\ life[r] = "alive"
      /\ UNCHANGED <<life, userData, dispatcher, listeners, late, owner, deleted, withEvents,
                     handled, notified, handle>>
  BY DEF Request, Idle, objectVars, blockVars
<1>3. PICK arg : /\ arg \in {a \in Resources : life[a] = "alive"} \cup {None, Null}
                 /\ calls' = <<Dispatching(r, arg)>>
  BY DEF Request
<1>4. userData[r] \in Blocks /\ owner[userData[r]] = r
  BY <1>1, <1>2 DEF StoreOK, ObjectOK
<1>5. PICK g \in Frame : /\ g = Calling("convert", r, userData[r]) /\ g.op = "convert"
                         /\ g.object = r /\ g.block = userData[r]
  <2>1. "convert" \in Library \cup Handlers
    BY DEF Library
  <2> QED
    BY <1>1, <1>4, <2>1, CallingFrame
<1>6. PICK f : f = Dispatching(r, arg)
  OBVIOUS
<1>7. f \in Frame /\ f.op = "convert" /\ f.object = r /\ f.block = userData[r] /\ f.arg = arg
  BY <1>3, <1>5, <1>6 DEF Dispatching, Frame
<1>8. calls' = Append(calls, f)
  BY <1>2, <1>3, <1>6, <1>7
<1>9. Constructed = {} /\ Len(calls) = 0 /\ DOMAIN calls = {}
  BY <1>2 DEF Constructed
<1>10. /\ calls' \in Seq(Frame) /\ DOMAIN calls' = 1..1 /\ calls'[1] = f /\ NestedOK'
       /\ Constructed' = Constructed
       /\ \A b : Ending(b) => Ending(b)'
  BY <1>1, <1>7, <1>8, <1>9, Pushed DEF UnderWay
<1>11. AboutOK(f)'
  BY <1>2, <1>3, <1>4, <1>7, Names DEF AboutOK, WithBlock, WithHandle
<1>12. AboutOK(calls[1])'
  BY <1>10, <1>11 DEF AboutOK
<1>13. StoreOK'
  BY <1>1, <1>2, StoreKept DEF StoreOK, DispatcherHasEvents
<1>14. SoTypeOK'
  BY <1>1, <1>2, <1>10 DEF SoTypeOK
<1>15. CallsOK'
  BY <1>2, <1>10, <1>12, CallsKept
<1>16. HandlesOK'
  BY <1>2, <1>10, HandlesKept
<1>17. PhaseOK'
  BY <1>2, <1>7, <1>10, PhaseKept DEF Teardown
<1> QED
  BY <1>13, <1>14, <1>15, <1>16, <1>17 DEF SoInv

\* There is no handler for it.
LEMMA StepIgnore == SoInv /\ Ignore => SoInv'
<1> SUFFICES ASSUME SoInv, Ignore PROVE SoInv'
  OBVIOUS
<1>1. SoTypeOK /\ StoreOK /\ NestedOK
  BY DEF SoInv, CallsOK
<1>2. /\ calls # <<>> /\ Top.op = "convert" /\ calls' = Below
      /\ UNCHANGED <<life, userData, dispatcher, listeners, late, owner, deleted, withEvents,
                     handled, notified, handle>>
  BY DEF Ignore, On, objectVars, blockVars
<1>3. /\ life[Client] = "alive" /\ \A i \in DOMAIN calls : calls[i].op \notin Teardown
      /\ \A b : ~Ending(b)
  BY <1>2, LiveTop DEF Teardown
<1>4. /\ calls' \in Seq(Frame) /\ DOMAIN calls' \subseteq DOMAIN calls
      /\ \A i \in DOMAIN calls' : calls'[i] = calls[i]
      /\ NestedOK' /\ Constructed' \subseteq Constructed
  BY <1>1, <1>2, Popped
<1>5. StoreOK'
  BY <1>1, <1>2, StoreKept DEF StoreOK, DispatcherHasEvents
<1>6. SoTypeOK'
  BY <1>1, <1>2, <1>4 DEF SoTypeOK
<1>7. CallsOK'
  BY <1>2, <1>4, CallsKept
<1>8. HandlesOK'
  BY <1>2, <1>3, <1>4, HandlesKept
<1>9. PhaseOK'
  BY <1>2, <1>3, <1>4, PhaseKept
<1> QED
  BY <1>5, <1>6, <1>7, <1>8, <1>9 DEF SoInv

-----------------------------------------------------------------------------
(* The program's handles *)

\* A handler makes no other calls: the stack and the objects stay as they are.
LEMMA StackKept ==
    ASSUME SoInv,
           UNCHANGED <<life, userData, dispatcher, listeners, late, owner, deleted, withEvents,
                       notified, calls>>,
           \A b \in handled' : b \in handled \/ (b \in Blocks /\ owner[b] # None),
           handle' \in [Handles -> Blocks \cup {None, Theirs}]
    PROVE  SoTypeOK' /\ StoreOK' /\ CallsOK' /\ PhaseOK'
<1>1. SoTypeOK /\ StoreOK /\ CallsOK /\ NestedOK /\ PhaseOK
  BY DEF SoInv, CallsOK
<1>2. SoTypeOK'
  BY <1>1 DEF SoTypeOK
<1>3. StoreOK'
  BY <1>1, StoreKept DEF StoreOK, DispatcherHasEvents
<1>4. NestedOK' /\ calls' \in Seq(Frame)
  BY <1>1 DEF NestedOK, Nested, SoTypeOK
<1>5. CallsOK'
  BY <1>4, CallsKept
<1>6. PhaseOK'
  BY <1>1 DEF PhaseOK, LiveOK, DyingOK, FreedOK
<1> QED
  BY <1>2, <1>3, <1>5, <1>6

\* A handle made from a C pointer finds the block, which waits for the object's
\* destruction.
LEMMA StepKeep ==
    ASSUME SoInv, Careful, NEW h \in Handles, NEW o \in Objects, Keep(h, o)
    PROVE  SoInv'
<1>1. SoTypeOK /\ StoreOK /\ CallsOK /\ HandlesOK
  BY DEF SoInv
<1>2. /\ life[o] = "alive" /\ o \notin UnderConstruction /\ o \notin TheirResources
      /\ handle' = [handle EXCEPT ![h] = Found(o)]
      /\ handled' = handled \cup ({Found(o)} \ {Theirs})
      /\ UNCHANGED <<life, userData, dispatcher, listeners, late, owner, deleted, withEvents,
                     notified, calls>>
  BY DEF Keep, Careful, objectVars
<1>3. o \in Resources \cup {Client}
  BY <1>2, Names DEF AllResources
<1>4. userData[o] \in Blocks /\ owner[userData[o]] = o /\ o # None
      /\ Waiting(userData[o])
  BY <1>1, <1>2, <1>3, Names DEF StoreOK, ObjectOK
<1>5. Found(o) = userData[o]
  <2>1. ASSUME On(WithHandle), Top.object = o PROVE Top.block = userData[o]
    <3>1. calls # <<>> /\ Top.op \in WithHandle
      BY <2>1 DEF On
    <3>2. AboutOK(Top)
      BY <1>1, <3>1, TopFrame DEF CallsOK
    <3> QED
      BY <2>1, <3>1, <3>2 DEF AboutOK
  <2> QED
    BY <2>1 DEF Found
<1>6. handled' = handled \cup {userData[o]}
  BY <1>2, <1>4, <1>5, Names
<1>7. handle' = [handle EXCEPT ![h] = userData[o]]
      /\ handle' \in [Handles -> Blocks \cup {None, Theirs}]
  BY <1>1, <1>2, <1>4, <1>5 DEF SoTypeOK
<1>8. SoTypeOK' /\ StoreOK' /\ CallsOK' /\ PhaseOK'
  BY <1>2, <1>4, <1>6, <1>7, StackKept
<1>9. Constructed' = Constructed /\ (\A b : Waiting(b)' = Waiting(b))
      /\ (\A b : Ending(b)' = Ending(b))
  BY <1>2 DEF Constructed, Waiting, Ending
<1>10. o \notin Constructed
  BY <1>1, <1>2, ConstructedMeans
<1>11. ASSUME NEW g \in Handles PROVE HandleOK(g)'
  <2>1. CASE g = h
    <3>1. handle'[g] = userData[o]
      BY <1>1, <1>7, <2>1 DEF SoTypeOK
    <3> QED
      BY <1>2, <1>4, <1>6, <1>9, <1>10, <3>1 DEF HandleOK
  <2>2. CASE g # h
    <3>1. handle'[g] = handle[g] /\ HandleOK(g)
      BY <1>1, <1>7, <2>2 DEF SoTypeOK, HandlesOK
    <3> QED
      BY <1>2, <1>6, <1>9, <3>1 DEF HandleOK
  <2> QED
    BY <2>1, <2>2
<1> QED
  BY <1>8, <1>11 DEF SoInv, HandlesOK

\* A handle goes.
LEMMA StepDrop ==
    ASSUME SoInv, NEW h \in Handles, Drop(h)
    PROVE  SoInv'
<1>1. SoTypeOK /\ HandlesOK
  BY DEF SoInv
<1>2. /\ handle' = [handle EXCEPT ![h] = None]
      /\ UNCHANGED <<life, userData, dispatcher, listeners, late, owner, deleted, withEvents,
                     notified, calls, handled>>
  BY DEF Drop, objectVars, blockVars
<1>3. handle' \in [Handles -> Blocks \cup {None, Theirs}]
  BY <1>1, <1>2 DEF SoTypeOK
<1>4. SoTypeOK' /\ StoreOK' /\ CallsOK' /\ PhaseOK'
  BY <1>2, <1>3, StackKept
<1>5. Constructed' = Constructed /\ (\A b : Waiting(b)' = Waiting(b))
      /\ (\A b : Ending(b)' = Ending(b))
  BY <1>2 DEF Constructed, Waiting, Ending
<1>6. ASSUME NEW g \in Handles PROVE HandleOK(g)'
  <2>1. handle'[g] = None \/ handle'[g] = handle[g]
    BY <1>1, <1>2 DEF SoTypeOK
  <2>2. HandleOK(g)
    BY <1>1 DEF HandlesOK
  <2> QED
    BY <1>2, <1>5, <2>1, <2>2 DEF HandleOK
<1> QED
  BY <1>4, <1>6 DEF SoInv, HandlesOK

\* A handler sets on_destroy of what it is shown.
LEMMA StepWatch == SoInv /\ Watch => SoInv'
<1> SUFFICES ASSUME SoInv, Watch PROVE SoInv'
  OBVIOUS
<1>1. SoTypeOK /\ CallsOK
  BY DEF SoInv
<1>2. /\ calls # <<>> /\ Top.op \in WithHandle
      /\ handled' = handled \cup {Top.block}
      /\ UNCHANGED <<life, userData, dispatcher, listeners, late, owner, deleted, withEvents,
                     notified, handle, calls>>
  BY DEF Watch, On, Handlers, WithHandle, objectVars
<1>3. AboutOK(Top) /\ Top.object \in Objects
  BY <1>1, <1>2, TopFrame DEF CallsOK
<1>4. Top.block \in Blocks /\ owner[Top.block] # None
  BY <1>2, <1>3, Names DEF AboutOK, WithBlock
<1>5. SoTypeOK' /\ StoreOK' /\ CallsOK' /\ PhaseOK'
  BY <1>1, <1>2, <1>4, StackKept DEF SoTypeOK
<1>6. Constructed' = Constructed /\ (\A b : Ending(b)' = Ending(b))
  BY <1>2 DEF Constructed, Ending
<1>7. HandlesOK'
  BY <1>2, <1>6, HandlesKept
<1> QED
  BY <1>5, <1>7 DEF SoInv
-----------------------------------------------------------------------------
(* The client goes *)

\* The stack then: wl_client_destroy, what it destroys or tells, and the handler.
LEMMA TeardownStack ==
    ASSUME SoInv, calls # <<>>, Top.op \in Teardown
    PROVE  /\ life[Client] = "dying" /\ AboutOK(Top) /\ Top \in Frame
           /\ Len(calls) \in 1..3 /\ DOMAIN calls = 1..Len(calls) /\ Top = calls[Len(calls)]
           /\ calls[1].op = "destroy_client"
           /\ Top.op = "destroy_client" => Len(calls) = 1
           /\ Top.op \in {"destroy_resource", "on_destroy_late"} => Len(calls) = 2
           /\ Top.op = "destroy_resource" => Top.object \in AllResources /\ life[Top.object] = "dying"
           /\ Top.op = "on_destroy" =>
                 \/ Len(calls) = 2 /\ Top.object = Client
                 \/ Len(calls) = 3 /\ calls[2].op = "destroy_resource"
           /\ Len(calls) = 1 => \A r \in AllResources : life[r] # "dying"
           /\ \A i \in DOMAIN calls : calls[i].op \in Teardown
           /\ \A i \in 1..Len(calls) - 1 : calls[i].op \in {"destroy_client", "destroy_resource"}
           /\ Constructed = {}
<1>1. SoTypeOK /\ PhaseOK /\ CallsOK /\ life[Client] \in {"none", "alive", "dying", "freed"}
  BY Names DEF SoInv, SoTypeOK
<1>2. /\ Len(calls) \in DOMAIN calls /\ Top = calls[Len(calls)] /\ Top \in Frame
      /\ Len(calls) \in Nat /\ DOMAIN calls = 1..Len(calls)
  BY <1>1, TopFrame
<1>3. AboutOK(Top)
  BY <1>1, <1>2 DEF CallsOK
<1>4. life[Client] = "dying"
  BY <1>1, <1>2 DEF PhaseOK, LiveOK, FreedOK
<1>5. DyingOK
  BY <1>1 DEF PhaseOK
<1>6. PICK L \in 1..3 : L = Len(calls)
  BY <1>4, <1>5 DEF DyingOK
<1>7. /\ calls[1].op = "destroy_client"
      /\ L >= 2 => /\ calls[2].op \in {"destroy_resource", "on_destroy", "on_destroy_late"}
                   /\ calls[2].op = "on_destroy" => calls[2].object = Client
                   /\ calls[2].op = "destroy_resource" => life[calls[2].object] = "dying"
      /\ L = 3 => calls[2].op = "destroy_resource" /\ calls[3].op = "on_destroy"
      /\ L = 1 => \A r \in AllResources : life[r] # "dying"
  BY <1>4, <1>5, <1>6 DEF DyingOK
<1>8. L = 1 \/ L = 2 \/ L = 3
  BY <1>6
<1>9. /\ Top.op = "destroy_client" => L = 1
      /\ Top.op \in {"destroy_resource", "on_destroy_late"} => L = 2
      /\ Top.op = "on_destroy" => \/ L = 2 /\ Top.object = Client
                                  \/ L = 3 /\ calls[2].op = "destroy_resource"
  BY <1>2, <1>6, <1>7, <1>8
<1>10. Top.op = "destroy_resource" => Top.object \in AllResources /\ life[Top.object] = "dying"
  BY <1>2, <1>3, <1>6, <1>7, <1>9 DEF AboutOK
<1>11. ASSUME NEW i \in DOMAIN calls
       PROVE  /\ calls[i].op \in Teardown
              /\ i # L => calls[i].op \in {"destroy_client", "destroy_resource"}
  <2>1. i \in 1..3 /\ i <= L
    BY <1>2, <1>6
  <2>2. i = 1 \/ i = 2 \/ i = 3
    BY <2>1
  <2> QED
    BY <1>6, <1>7, <1>8, <2>1, <2>2 DEF Teardown
<1>12. Constructed = {}
  BY <1>11 DEF Constructed, UnderWay, Teardown
<1>13. \A i \in 1..L - 1 : i \in DOMAIN calls /\ i # L
  <2>1. \A i \in 1..L - 1 : i \in 1..L /\ i # L
    BY <1>6
  <2> QED
    BY <1>2, <1>6, <2>1
<1> QED
  BY <1>2, <1>3, <1>4, <1>6, <1>7, <1>9, <1>10, <1>11, <1>12, <1>13

\* Calls other than on_destroy handlers stay right as long as their objects and
\* blocks do.
LEMMA CallsStay ==
    ASSUME SoTypeOK, CallsOK, UNCHANGED <<userData, owner>>,
           \A o \in Objects : life[o] # "none" => life'[o] # "none",
           NestedOK', calls' \in Seq(Frame),
           \A i \in DOMAIN calls' :
              \/ i \in DOMAIN calls /\ calls'[i] = calls[i] /\ calls[i].op # "on_destroy"
              \/ AboutOK(calls[i])'
    PROVE  CallsOK'
<1>1. ASSUME NEW i \in DOMAIN calls', i \in DOMAIN calls, calls'[i] = calls[i],
             calls[i].op # "on_destroy"
      PROVE  AboutOK(calls[i])'
  <2>1. PICK f : f = calls[i] /\ f = calls'[i]
    BY <1>1
  <2>2. AboutOK(f) /\ f.object \in Objects /\ f.op # "on_destroy"
    BY <1>1, <2>1, Elements DEF CallsOK
  <2>3. AboutOK(f)'
    BY <2>2, Names DEF AboutOK
  <2> QED
    BY <2>1, <2>3 DEF AboutOK
<1> QED
  BY <1>1 DEF CallsOK

\* A handler returns; the program has dropped the handles of what goes.
LEMMA StepHandlerReturns == SoInv /\ HandlerReturns => SoInv'
<1> SUFFICES ASSUME SoInv, HandlerReturns PROVE SoInv'
  OBVIOUS
<1>1. SoTypeOK /\ StoreOK /\ CallsOK /\ NestedOK /\ HandlesOK /\ PhaseOK
  BY DEF SoInv, CallsOK
<1>2. /\ calls # <<>> /\ Top.op \in Handlers /\ calls' = Below
      /\ Top.op = "on_destroy" => HandlesOf(Top.object) = {}
      /\ deleted' = IF Top.op = "on_destroy" /\ Top.object # Client
                    THEN deleted \cup {Top.block} ELSE deleted
      /\ UNCHANGED <<life, userData, dispatcher, listeners, late, owner, withEvents,
                     handled, notified, handle>>
  BY DEF HandlerReturns, On, objectVars
<1>3. /\ calls' \in Seq(Frame) /\ DOMAIN calls' \subseteq DOMAIN calls
      /\ Len(calls') = Len(calls) - 1 /\ DOMAIN calls' = 1..Len(calls) - 1
      /\ \A i \in DOMAIN calls' : calls'[i] = calls[i]
      /\ NestedOK' /\ Constructed' \subseteq Constructed
      /\ \A b : Ending(b) => Ending(b)' \/ (Top.op = "on_destroy" /\ Top.block = b)
  BY <1>1, <1>2, Popped
<1>4. AboutOK(Top)
  BY <1>1, <1>2, TopFrame DEF CallsOK
<1>5. HandlesOK'
  <2>1. ASSUME NEW h \in Handles, handle[h] # None, Ending(handle[h]) PROVE Ending(handle[h])'
    <3>1. HandleOK(h)
      BY <1>1 DEF HandlesOK
    <3>2. ASSUME Top.op = "on_destroy", Top.block = handle[h] PROVE FALSE
      <4>1. owner[handle[h]] = Top.object /\ handle[h] \in Blocks
        BY <1>4, <2>1, <3>1, <3>2 DEF AboutOK, HandleOK, WithBlock
      <4>2. h \in HandlesOf(Top.object)
        BY <4>1 DEF HandlesOf
      <4> QED
        BY <1>2, <3>2, <4>2
    <3>3. PICK b : b = handle[h] /\ b = handle'[h]
      BY <1>2
    <3>4. Ending(b)'
      BY <1>3, <2>1, <3>2, <3>3
    <3> QED
      BY <3>3, <3>4 DEF Ending
  <2> QED
    BY <1>2, <1>3, <2>1, HandlesKept
<1>6. CASE Top.op \notin Teardown
  <2>1. deleted' = deleted
    BY <1>2, <1>6 DEF Teardown
  <2>2. life[Client] = "alive" /\ \A i \in DOMAIN calls : calls[i].op \notin Teardown
    BY <1>2, <1>6, LiveTop
  <2>3. StoreOK'
    BY <1>1, <1>2, <2>1, StoreKept DEF StoreOK, DispatcherHasEvents
  <2>4. SoTypeOK'
    BY <1>1, <1>2, <1>3, <2>1 DEF SoTypeOK
  <2>5. CallsOK'
    BY <1>2, <1>3, <2>1, CallsKept
  <2>6. PhaseOK'
    BY <1>2, <1>3, <2>1, <2>2, PhaseKept
  <2> QED
    BY <1>5, <2>3, <2>4, <2>5, <2>6 DEF SoInv
<1>7. CASE Top.op \in Teardown
  <2>1. PICK L \in 1..3 : L = Len(calls)
    BY <1>2, <1>7, TeardownStack
  <2>2. /\ life[Client] = "dying" /\ calls[1].op = "destroy_client" /\ L \in {2, 3}
        /\ L = 3 => calls[2].op = "destroy_resource"
        /\ L = 2 => calls[2].op # "destroy_resource"
        /\ \A i \in 1..L - 1 : calls[i].op \in {"destroy_client", "destroy_resource"}
    <3>1. Top.op \in {"on_destroy", "on_destroy_late"}
      BY <1>2, <1>7 DEF Handlers, Teardown
    <3> QED
      BY <1>2, <1>7, <2>1, <3>1, TeardownStack
  <2>3. /\ Len(calls') = L - 1 /\ DOMAIN calls' = 1..L - 1
        /\ \A i \in 1..L - 1 : calls'[i] = calls[i] /\ i \in DOMAIN calls
    BY <1>3, <2>1
  <2>4. CallsOK'
    <3>1. \A i \in DOMAIN calls' : /\ i \in DOMAIN calls /\ calls'[i] = calls[i]
                                   /\ calls[i].op # "on_destroy"
      BY <2>2, <2>3
    <3> QED
      BY <1>1, <1>2, <1>3, <3>1, CallsStay
  <2>5. PhaseOK'
    <3>1. DyingOK
      BY <1>1 DEF PhaseOK
    <3>2. DyingOK'
      <4>1. CASE L = 2
        BY <1>2, <2>1, <2>2, <2>3, <3>1, <4>1 DEF DyingOK
      <4>2. CASE L = 3
        <5>1. calls'[1] = calls[1] /\ calls'[2] = calls[2] /\ Len(calls') = 2
          BY <2>3, <4>2
        <5> QED
          BY <1>2, <2>1, <2>2, <3>1, <4>2, <5>1 DEF DyingOK
      <4> QED
        BY <2>2, <4>1, <4>2
    <3> QED
      BY <1>2, <2>2, <3>2 DEF PhaseOK, LiveOK, FreedOK
  <2>6. CASE deleted' = deleted
    <3>1. StoreOK'
      BY <1>1, <1>2, <2>6, StoreKept DEF StoreOK, DispatcherHasEvents
    <3>2. SoTypeOK'
      BY <1>1, <1>2, <1>3, <2>6 DEF SoTypeOK
    <3> QED
      BY <1>5, <2>4, <2>5, <3>1, <3>2 DEF SoInv
  <2>7. CASE deleted' # deleted
    <3>1. PICK k \in Blocks : /\ k = Top.block /\ deleted' = deleted \cup {k} /\ owner[k] # Client
                              /\ owner[k] # None /\ ~Waiting(k)
      BY <1>1, <1>2, <1>4, <2>7, TopFrame, Names DEF AboutOK, WithBlock
    <3>2. \A b : Waiting(b)' = Waiting(b)
      BY <1>2 DEF Waiting
    <3>3. \A o \in Objects : ObjectOK(o)'
      BY <1>1, <1>2, <3>2 DEF StoreOK, ObjectOK
    <3>4. \A b \in Blocks : BlockOK(b)'
      BY <1>1, <1>2, <3>1, <3>2 DEF StoreOK, BlockOK
    <3>5. StoreOK'
      BY <1>1, <1>2, <3>3, <3>4 DEF StoreOK, Made, DispatcherHasEvents
    <3>6. SoTypeOK'
      BY <1>1, <1>2, <1>3, <3>1 DEF SoTypeOK
    <3> QED
      BY <1>5, <2>4, <2>5, <3>5, <3>6 DEF SoInv
  <2> QED
    BY <2>6, <2>7
<1> QED
  BY <1>6, <1>7

\* A block is told of the destruction of its object: it waits no longer, the
\* others as before.
LEMMA Heard ==
    ASSUME SoTypeOK, StoreOK, NEW o \in Objects, listeners[o] # <<>>, owner' = owner,
           listeners' = [listeners EXCEPT ![o] = Tail(@)], NEW k, k = Head(listeners[o])
    PROVE  /\ k \in Blocks /\ owner[k] = o /\ Waiting(k) /\ ~Waiting(k)' /\ notified[k] = 0
           /\ k \notin deleted
           /\ \A b \in Blocks \ {k} : owner[b] # None => (Waiting(b)' <=> Waiting(b))
           /\ listeners' \in [Objects -> Seq(Blocks)]
           /\ \A p \in Objects \ {o} : listeners'[p] = listeners[p]
           /\ \A i \in DOMAIN listeners'[o] : owner[listeners'[o][i]] = o
           /\ \A i, j \in DOMAIN listeners'[o] : listeners'[o][i] = listeners'[o][j] => i = j
<1>1. listeners[o] \in Seq(Blocks) /\ ObjectOK(o) /\ o # None
  BY Names DEF SoTypeOK, StoreOK
<1>2. PICK L \in Nat \ {0} : L = Len(listeners[o])
  BY <1>1, TailFacts
<1>3. /\ Tail(listeners[o]) \in Seq(Blocks) /\ k = listeners[o][1] /\ k \in Blocks
      /\ DOMAIN listeners[o] = 1..L /\ DOMAIN Tail(listeners[o]) = 1..L - 1
      /\ \A i \in 1..L - 1 : Tail(listeners[o])[i] = listeners[o][i + 1]
  BY <1>1, <1>2, TailFacts
<1>4. /\ listeners' \in [Objects -> Seq(Blocks)] /\ listeners'[o] = Tail(listeners[o])
      /\ \A p \in Objects \ {o} : listeners'[p] = listeners[p]
  BY <1>3 DEF SoTypeOK
<1>5. 1 \in 1..L /\ \A i \in 1..L - 1 : i + 1 \in 1..L /\ i + 1 # 1
  BY <1>2
<1>6. owner[k] = o /\ Waiting(k)
  BY <1>1, <1>3, <1>5 DEF ObjectOK, Waiting
<1>7. notified[k] = 0 /\ k \notin deleted
  BY <1>1, <1>3, <1>6 DEF StoreOK, BlockOK
<1>8. \A i \in 1..L - 1 : listeners'[o][i] = listeners[o][i + 1]
  BY <1>3, <1>4
<1>9. \A i \in DOMAIN listeners'[o] : owner[listeners'[o][i]] = o /\ listeners'[o][i] # k
  <2>1. ASSUME NEW i \in 1..L - 1 PROVE owner[listeners[o][i + 1]] = o /\ listeners[o][i + 1] # k
    BY <1>1, <1>3, <1>5 DEF ObjectOK
  <2> QED
    BY <1>3, <1>4, <1>8, <2>1
<1>10. \A i, j \in DOMAIN listeners'[o] : listeners'[o][i] = listeners'[o][j] => i = j
  <2>1. ASSUME NEW i \in 1..L - 1, NEW j \in 1..L - 1, listeners'[o][i] = listeners'[o][j]
        PROVE  i = j
    <3>1. listeners[o][i + 1] = listeners[o][j + 1] /\ i + 1 \in 1..L /\ j + 1 \in 1..L
      BY <1>5, <1>8, <2>1
    <3>2. i + 1 = j + 1
      BY <1>1, <1>3, <3>1 DEF ObjectOK
    <3> QED
      BY <3>2
  <2>2. DOMAIN listeners'[o] = 1..L - 1
    BY <1>3, <1>4
  <2> QED
    BY <2>1, <2>2
<1>11. ~Waiting(k)'
  BY <1>6, <1>9 DEF Waiting
<1>12. ASSUME NEW b \in Blocks \ {k}, owner[b] # None PROVE Waiting(b)' <=> Waiting(b)
  <2>1. owner[b] \in Objects /\ owner'[b] = owner[b]
    BY <1>12 DEF SoTypeOK
  <2>2. CASE owner[b] # o
    BY <1>4, <2>1, <2>2 DEF Waiting
  <2>3. CASE owner[b] = o
    <3>1. Waiting(b)' => Waiting(b)
      BY <1>3, <1>4, <1>5, <1>8, <2>1, <2>3 DEF Waiting
    <3>2. ASSUME NEW i \in 1..L, listeners[o][i] = b PROVE Waiting(b)'
      <4>1. i - 1 \in 1..L - 1 /\ (i - 1) + 1 = i
        BY <1>3, <1>12, <3>2
      <4>2. listeners'[o][i - 1] = b
        BY <1>8, <3>2, <4>1
      <4> QED
        BY <1>3, <1>4, <2>1, <2>3, <4>1, <4>2 DEF Waiting
    <3> QED
      BY <1>3, <2>3, <3>1, <3>2 DEF Waiting
  <2> QED
    BY <2>2, <2>3
<1> QED
  BY <1>3, <1>4, <1>6, <1>7, <1>9, <1>10, <1>11, <1>12

\* It has then been notified once, and may be deleted if it is a resource's.
LEMMA StoreHeard ==
    ASSUME SoTypeOK, StoreOK, NEW o \in Objects, listeners[o] # <<>>, life[o] = "dying",
           listeners' = [listeners EXCEPT ![o] = Tail(@)], NEW k, k = Head(listeners[o]),
           notified' = [notified EXCEPT ![k] = @ + 1],
           deleted' = deleted \/ (o # Client /\ deleted' = deleted \cup {k}),
           UNCHANGED <<life, userData, dispatcher, late, owner, withEvents, handled>>
    PROVE  /\ StoreOK' /\ notified' \in [Blocks -> Nat] /\ deleted' \in SUBSET Blocks
<1>1. /\ k \in Blocks /\ owner[k] = o /\ ~Waiting(k)' /\ notified[k] = 0 /\ k \notin deleted
      /\ \A b \in Blocks \ {k} : owner[b] # None => (Waiting(b)' <=> Waiting(b))
      /\ \A p \in Objects \ {o} : listeners'[p] = listeners[p]
      /\ \A i \in DOMAIN listeners'[o] : owner[listeners'[o][i]] = o
      /\ \A i, j \in DOMAIN listeners'[o] : listeners'[o][i] = listeners'[o][j] => i = j
  BY ZenonT(30), Heard
<1>2. /\ notified'[k] = 1 /\ \A b \in Blocks \ {k} : notified'[b] = notified[b]
      /\ notified' \in [Blocks -> Nat] /\ deleted' \in SUBSET Blocks
  BY <1>1 DEF SoTypeOK
<1>3. ASSUME NEW p \in Objects PROVE ObjectOK(p)'
  <2>1. ObjectOK(p) /\ p # None
    BY Names DEF StoreOK
  <2>2. CASE p = o
    BY <1>1, <2>1, <2>2 DEF ObjectOK
  <2>3. CASE p # o
    <3>1. listeners'[p] = listeners[p]
      BY <1>1, <2>3
    <3>2. \A b \in Blocks : owner[b] = p => (Waiting(b)' <=> Waiting(b))
      BY <1>1, <2>1, <2>3
    <3>3. life'[p] = life[p] /\ userData'[p] = userData[p] /\ owner' = owner
      OBVIOUS
    <3>4. \A i \in DOMAIN listeners'[p] : owner'[listeners'[p][i]] = p
      BY <2>1, <3>1, <3>3 DEF ObjectOK
    <3>5. \A i, j \in DOMAIN listeners'[p] : listeners'[p][i] = listeners'[p][j] => i = j
      BY ZenonT(30), <2>1, <3>1 DEF ObjectOK
    <3>6. life'[p] = "alive" => \A b \in Blocks : owner'[b] = p => Waiting(b)'
      BY <2>1, <3>2, <3>3 DEF ObjectOK
    <3> QED
      BY <2>1, <3>1, <3>3, <3>4, <3>5, <3>6 DEF ObjectOK
  <2> QED
    BY <2>2, <2>3
<1>4. ASSUME NEW b \in Blocks PROVE BlockOK(b)'
  <2>1. BlockOK(b)
    BY DEF StoreOK
  <2>2. CASE b = k
    BY <1>1, <1>2, <2>1, <2>2, Names DEF BlockOK
  <2>3. CASE b # k
    <3>1. (b \in deleted' <=> b \in deleted) /\ notified'[b] = notified[b]
      BY <1>2, <2>3
    <3>2. owner[b] # None => (Waiting(b)' <=> Waiting(b))
      BY <1>1, <2>3
    <3> QED
      BY <2>1, <3>1, <3>2 DEF BlockOK
  <2> QED
    BY <2>2, <2>3
<1> QED
  BY <1>2, <1>3, <1>4 DEF StoreOK, Made, DispatcherHasEvents

\* destroy_func with a handler calls it, on top of the stack.
LEMMA Notifying ==
    ASSUME SoInv, calls # <<>>, Top.op \in {"destroy_client", "destroy_resource"},
           NEW op \in {"on_destroy", "on_destroy_late"}, NEW b \in Blocks,
           owner[b] \in Objects, Notify(op, b, calls)
    PROVE  /\ calls' \in Seq(Frame) /\ NestedOK' /\ Constructed' = {}
           /\ Len(calls') \in {Len(calls), Len(calls) + 1} /\ DOMAIN calls' = 1..Len(calls')
           /\ \A i \in DOMAIN calls : i \in DOMAIN calls' /\ calls'[i] = calls[i]
                                      /\ calls[i].op # "on_destroy"
           /\ Len(calls') = Len(calls) + 1 =>
                 /\ calls'[Len(calls) + 1].op = op
                 /\ calls'[Len(calls) + 1].object = owner[b]
                 /\ calls'[Len(calls) + 1].block = b
                 /\ calls'[Len(calls) + 1].arg = None /\ b \in handled
           /\ \A x : Ending(x) => Ending(x)'
           /\ op = "on_destroy" /\ b \in handled => Ending(b)'
<1>1. SoTypeOK /\ NestedOK
  BY DEF SoInv, CallsOK
<1>2. /\ Top.op \in Teardown
  BY DEF Teardown
<1>3. /\ Constructed = {} /\ Len(calls) \in Nat /\ DOMAIN calls = 1..Len(calls)
      /\ Top = calls[Len(calls)]
      /\ \A i \in 1..Len(calls) - 1 : calls[i].op \in {"destroy_client", "destroy_resource"}
  BY <1>1, <1>2, TeardownStack, Elements
<1>4. \A i \in DOMAIN calls : calls[i].op # "on_destroy"
  <2>1. PICK L \in Nat : L = Len(calls)
    BY <1>3
  <2>2. \A i \in 1..L : i = L \/ i \in 1..L - 1
    BY <2>1
  <2> QED
    BY <1>3, <2>1, <2>2
<1>5. CASE b \notin handled
  <2>1. calls' = calls
    BY <1>5 DEF Notify
  <2>2. NestedOK' /\ Constructed' = Constructed /\ \A x : Ending(x)' = Ending(x)
    BY <1>1, <2>1 DEF NestedOK, Nested, Constructed, Ending
  <2>3. Len(calls') \in {Len(calls), Len(calls) + 1} /\ Len(calls') # Len(calls) + 1
    <3>1. PICK L \in Nat : L = Len(calls) /\ L = Len(calls')
      BY <1>3, <2>1
    <3> QED
      BY <3>1
  <2> QED
    BY <1>1, <1>3, <1>4, <1>5, <2>1, <2>2, <2>3 DEF SoTypeOK
<1>6. CASE b \in handled
  <2>1. op \in Library \cup Handlers
    BY DEF Handlers
  <2>2. PICK f \in Frame : /\ f = Calling(op, owner[b], b) /\ f.op = op /\ f.object = owner[b]
                           /\ f.block = b /\ f.arg = None
    BY <2>1, CallingFrame
  <2>3. calls' = Append(calls, f)
    BY <1>6, <2>2 DEF Notify
  <2>4. f.op \notin UnderWay \cup {"on_resource_created"} /\ f.object \notin Constructed
    BY <1>3, <2>2 DEF UnderWay
  <2> QED
    BY <1>1, <1>3, <1>4, <1>6, <2>2, <2>3, <2>4, Pushed
<1> QED
  BY <1>5, <1>6

\* What the steps that notify a block have in common.
LEMMA NotifyBlock ==
    ASSUME SoInv, calls # <<>>, Top.op \in {"destroy_client", "destroy_resource"},
           NEW o \in Objects, listeners[o] # <<>>, life[o] = "dying",
           listeners' = [listeners EXCEPT ![o] = Tail(@)],
           NEW k, k = Head(listeners[o]), Notify("on_destroy", k, calls),
           deleted' = deleted \/ (o # Client /\ k \notin handled /\ deleted' = deleted \cup {k}),
           UNCHANGED <<life, userData, dispatcher, late, owner, withEvents, handled, handle>>
    PROVE  /\ SoTypeOK' /\ StoreOK' /\ HandlesOK' /\ CallsOK'
           /\ k \in Blocks /\ owner[k] = o
<1>1. SoTypeOK /\ StoreOK /\ CallsOK /\ HandlesOK
  BY DEF SoInv
<1>2. notified' = [notified EXCEPT ![k] = @ + 1]
  BY DEF Notify
<1>3. /\ k \in Blocks /\ owner[k] = o /\ Waiting(k) /\ ~Waiting(k)' /\ k \notin deleted
      /\ \A b \in Blocks \ {k} : owner[b] # None => (Waiting(b)' <=> Waiting(b))
      /\ listeners' \in [Objects -> Seq(Blocks)]
  BY <1>1, Heard
<1>4. StoreOK' /\ notified' \in [Blocks -> Nat] /\ deleted' \in SUBSET Blocks
  BY <1>1, <1>2, StoreHeard
<1>5. PICK L, N : L = Len(calls) /\ N = Len(calls')
  OBVIOUS
<1>6. /\ calls' \in Seq(Frame) /\ NestedOK' /\ Constructed' = {}
      /\ N \in {L, L + 1} /\ DOMAIN calls' = 1..N
      /\ \A i \in DOMAIN calls : i \in DOMAIN calls' /\ calls'[i] = calls[i]
                                 /\ calls[i].op # "on_destroy"
      /\ N = L + 1 => /\ calls'[L + 1].op = "on_destroy" /\ calls'[L + 1].object = o
                      /\ calls'[L + 1].block = k /\ calls'[L + 1].arg = None /\ k \in handled
      /\ \A x : Ending(x) => Ending(x)'
      /\ k \in handled => Ending(k)'
  BY <1>3, <1>5, Notifying
<1>7. SoTypeOK'
  BY <1>1, <1>3, <1>4, <1>6 DEF SoTypeOK
<1>8. HandlesOK'
  <2>1. ASSUME NEW h \in Handles PROVE HandleOK(h)'
    <3>1. HandleOK(h)
      BY <1>1 DEF HandlesOK
    <3>2. CASE handle[h] = None
      BY <3>2 DEF HandleOK
    <3>3. CASE handle[h] # None
      <4>1. PICK x : x = handle[h] /\ x = handle'[h]
        OBVIOUS
      <4>2. /\ x \in Blocks /\ owner[x] # None /\ x \in handled /\ x = userData[owner[x]]
            /\ Waiting(x) \/ Ending(x)
        BY <3>1, <3>3, <4>1 DEF HandleOK
      <4>3. Waiting(x)' \/ Ending(x)'
        BY <1>3, <1>6, <4>2
      <4>4. Waiting(handle[h])' \/ Ending(handle[h])'
        BY <4>1, <4>3 DEF Waiting, Ending
      <4> QED
        BY <1>6, <4>1, <4>2, <4>4 DEF HandleOK
    <3> QED
      BY <3>2, <3>3
  <2> QED
    BY <2>1 DEF HandlesOK
<1>9. CallsOK'
  <2>1. L \in Nat /\ DOMAIN calls = 1..L
    BY <1>1, <1>5, Elements
  <2>2. ASSUME N = L + 1 PROVE AboutOK(calls[L + 1])'
    <3>1. PICK f : f = calls'[L + 1]
      OBVIOUS
    <3>2. f.op = "on_destroy" /\ f.object = o /\ f.block = k /\ f.arg = None /\ k \in handled
      BY <1>6, <2>2, <3>1
    <3>3. deleted' = deleted
      BY <3>2
    <3>4. AboutOK(f)'
      BY <1>3, <3>2, <3>3, Names DEF AboutOK, WithBlock, WithHandle
    <3> QED
      BY <3>1, <3>4 DEF AboutOK
  <2>3. \A i \in 1..N : i \in 1..L \/ (N = L + 1 /\ i = L + 1)
    BY <1>6, <2>1
  <2>4. ASSUME NEW i \in DOMAIN calls'
        PROVE  \/ i \in DOMAIN calls /\ calls'[i] = calls[i] /\ calls[i].op # "on_destroy"
               \/ AboutOK(calls[i])'
    BY <1>6, <2>1, <2>2, <2>3
  <2> QED
    BY <1>1, <1>6, <2>4, CallsStay
<1> QED
  BY <1>3, <1>4, <1>7, <1>8, <1>9

\* client_t::destroy_func.
LEMMA StepNotifyClient == SoInv /\ NotifyClient => SoInv'
<1> SUFFICES ASSUME SoInv, NotifyClient PROVE SoInv'
  OBVIOUS
<1>1. PICK k : k = Head(listeners[Client])
  OBVIOUS
<1>2. /\ calls # <<>> /\ Top.op = "destroy_client" /\ listeners[Client] # <<>>
      /\ listeners' = [listeners EXCEPT ![Client] = Tail(@)]
      /\ Notify("on_destroy", k, calls)
      /\ UNCHANGED <<life, userData, dispatcher, late, owner, deleted, withEvents,
                     handled, handle>>
  BY <1>1 DEF NotifyClient, On
<1>3. /\ life[Client] = "dying" /\ Len(calls) = 1 /\ DOMAIN calls = 1..1
      /\ calls[1].op = "destroy_client" /\ \A r \in AllResources : life[r] # "dying"
  BY <1>2, TeardownStack DEF Teardown
<1>4. Client \in Objects
  BY Names
<1>5. SoTypeOK' /\ StoreOK' /\ HandlesOK' /\ CallsOK' /\ k \in Blocks /\ owner[k] = Client
  BY <1>1, <1>2, <1>3, <1>4, NotifyBlock
<1>6. /\ Len(calls') \in {1, 2} /\ calls'[1].op = "destroy_client"
      /\ Len(calls') = 2 => calls'[2].op = "on_destroy" /\ calls'[2].object = Client
  <2>1. 1 \in DOMAIN calls
    BY <1>3
  <2> QED
    BY <1>2, <1>3, <1>4, <1>5, <2>1, Notifying
<1>7. \A r \in AllResources : life[r] \in {"none", "alive"}
  BY <1>2, <1>3 DEF SoInv, PhaseOK, DyingOK
<1>8. PhaseOK'
  BY <1>2, <1>3, <1>6, <1>7 DEF PhaseOK, LiveOK, DyingOK, FreedOK
<1> QED
  BY <1>5, <1>8 DEF SoInv

\* resource_t::destroy_func.
LEMMA StepNotifyResource == SoInv /\ NotifyResource => SoInv'
<1> SUFFICES ASSUME SoInv, NotifyResource PROVE SoInv'
  OBVIOUS
<1>1. PICK o, k : o = Top.object /\ k = Head(listeners[o])
  OBVIOUS
<1>2. /\ calls # <<>> /\ Top.op = "destroy_resource" /\ listeners[o] # <<>>
      /\ listeners' = [listeners EXCEPT ![o] = Tail(@)]
      /\ Notify("on_destroy", k, calls)
      /\ deleted' = IF k \in handled THEN deleted ELSE deleted \cup {k}
      /\ UNCHANGED <<life, userData, dispatcher, late, owner, withEvents, handled, handle>>
  BY <1>1 DEF NotifyResource, On
<1>3. /\ life[Client] = "dying" /\ Len(calls) = 2 /\ DOMAIN calls = 1..2 /\ Top = calls[2]
      /\ calls[1].op = "destroy_client" /\ o \in AllResources /\ life[o] = "dying"
  BY <1>1, <1>2, TeardownStack DEF Teardown
<1>4. o \in Objects /\ o # Client /\ Client \in Objects
  BY <1>3, Names
<1>5. SoTypeOK' /\ StoreOK' /\ HandlesOK' /\ CallsOK' /\ k \in Blocks /\ owner[k] = o
  BY <1>1, <1>2, <1>3, <1>4, NotifyBlock
<1>6. /\ Len(calls') \in {2, 3} /\ calls'[1] = calls[1] /\ calls'[2] = calls[2]
      /\ Len(calls') = 3 => calls'[3].op = "on_destroy" /\ calls'[3].object = o
  <2>1. 1 \in DOMAIN calls /\ 2 \in DOMAIN calls
    BY <1>3
  <2> QED
    BY <1>2, <1>3, <1>4, <1>5, <2>1, Notifying
<1>7. /\ DyingOK /\ calls[2].op = "destroy_resource" /\ calls[2].object = o
  BY <1>1, <1>2, <1>3 DEF SoInv, PhaseOK
<1>8. listeners'[Client] = listeners[Client]
  BY <1>2, <1>4 DEF SoInv, SoTypeOK
<1>9. \A r \in AllResources : life[r] = "dying" => r = o
  BY <1>3, <1>7 DEF DyingOK
<1>10. listeners[Client] # <<>> => \A r \in AllResources : life[r] \in {"none", "alive"}
  BY <1>3, <1>7 DEF DyingOK
<1>11. DyingOK'
  BY <1>2, <1>3, <1>6, <1>7, <1>8, <1>9, <1>10 DEF DyingOK
<1>12. PhaseOK'
  BY <1>2, <1>3, <1>11 DEF PhaseOK, LiveOK, FreedOK
<1> QED
  BY <1>5, <1>12 DEF SoInv

\* An object begins to be destroyed, or is freed: blocks and listeners stay.
LEMMA LifeStep ==
    ASSUME SoTypeOK, StoreOK, NEW o \in Objects, life[o] # "none", NEW v \in {"dying", "freed"},
           life' = [life EXCEPT ![o] = v], v = "freed" => listeners[o] = <<>>,
           UNCHANGED <<userData, dispatcher, listeners, owner, withEvents, handled, notified>>,
           \A i \in DOMAIN late' : owner[late'[i]] = Client,
           \A b \in Blocks : b \in deleted' => b \in deleted \/
                (owner[b] \in Objects /\ ~Waiting(b) /\ (owner[b] = Client => v = "freed" /\ o = Client)),
           deleted \subseteq deleted',
           \A b \in deleted : owner[b] = Client => o # Client
    PROVE  /\ StoreOK' /\ life' \in [Objects -> {"none", "alive", "dying", "freed"}]
           /\ life'[o] = v /\ \A p \in Objects \ {o} : life'[p] = life[p]
           /\ \A p \in Objects : life[p] # "none" => life'[p] # "none"
           /\ \A b : Waiting(b)' = Waiting(b)
<1>1. /\ life'[o] = v /\ (\A p \in Objects \ {o} : life'[p] = life[p])
      /\ life' \in [Objects -> {"none", "alive", "dying", "freed"}]
  BY DEF SoTypeOK
<1>2. \A b : Waiting(b)' = Waiting(b)
  BY DEF Waiting
<1>3. ASSUME NEW p \in Objects PROVE ObjectOK(p)'
  <2>1. ObjectOK(p)
    BY DEF StoreOK
  <2>2. CASE p = o
    BY <1>1, <1>2, <2>1, <2>2 DEF ObjectOK
  <2>3. CASE p # o
    BY <1>1, <1>2, <2>1, <2>3 DEF ObjectOK
  <2> QED
    BY <2>2, <2>3
<1>4. ASSUME NEW b \in Blocks PROVE BlockOK(b)'
  <2>1. BlockOK(b)
    BY DEF StoreOK
  <2>2. CASE b \in deleted
    <3>1. owner[b] = Client => life'[Client] = "freed"
      BY <1>1, <2>1, <2>2, Names DEF BlockOK
    <3> QED
      BY <1>2, <2>1, <2>2, <3>1 DEF BlockOK
  <2>3. CASE b \notin deleted
    <3>1. /\ b \in deleted' => owner[b] # None /\ ~Waiting(b)
          /\ b \in deleted' /\ owner[b] = Client => life'[Client] = "freed"
      BY <1>1, <2>3, Names
    <3> QED
      BY <1>2, <2>1, <2>3, <3>1 DEF BlockOK
  <2> QED
    BY <2>2, <2>3
<1>5. DispatcherHasEvents'
  <2>1. \A r \in Resources : life'[r] = "alive" => life[r] = "alive"
    BY <1>1, Names
  <2> QED
    BY <2>1 DEF StoreOK, DispatcherHasEvents
<1>6. \A p \in Objects : life[p] # "none" => life'[p] # "none"
  BY <1>1
<1> QED
  BY <1>1, <1>2, <1>3, <1>4, <1>5, <1>6 DEF StoreOK, Made

\* wl_client_destroy begins.
LEMMA StepDisconnect == SoInv /\ Disconnect => SoInv'
<1> SUFFICES ASSUME SoInv, Disconnect PROVE SoInv'
  OBVIOUS
<1>1. SoTypeOK /\ StoreOK /\ CallsOK /\ NestedOK /\ PhaseOK
  BY DEF SoInv, CallsOK
<1>2. /\ calls = <<>> /\ life[Client] = "alive"
      /\ life' = [life EXCEPT ![Client] = "dying"]
      /\ calls' = <<Calling("destroy_client", Client, None)>>
      /\ UNCHANGED <<userData, dispatcher, listeners, late, owner, deleted, withEvents, handled,
                     notified, handle>>
  BY DEF Disconnect, Idle, blockVars
<1>3. deleted = {} /\ \A r \in AllResources : life[r] \in {"none", "alive"}
  BY <1>1, <1>2 DEF PhaseOK, LiveOK
<1>4. /\ StoreOK' /\ life' \in [Objects -> {"none", "alive", "dying", "freed"}]
      /\ life'[Client] = "dying" /\ (\A p \in Objects \ {Client} : life'[p] = life[p])
      /\ \A p \in Objects : life[p] # "none" => life'[p] # "none"
  <2>1. Client \in Objects /\ life[Client] # "none" /\ "dying" # "freed"
    BY <1>2, Names
  <2>2. \A i \in DOMAIN late' : owner[late'[i]] = Client
    BY <1>1, <1>2 DEF StoreOK
  <2> QED
    BY <1>1, <1>2, <1>3, <2>1, <2>2, LifeStep
<1>5. PICK f \in Frame : /\ f = Calling("destroy_client", Client, None)
                         /\ f.op = "destroy_client" /\ f.object = Client /\ f.block = None
                         /\ f.arg = None
  <2>1. "destroy_client" \in Library \cup Handlers /\ Client \in Objects /\ None \in Blocks \cup {None}
    BY Names DEF Library
  <2> QED
    BY <2>1, CallingFrame
<1>6. calls' = Append(calls, f) /\ Len(calls) = 0 /\ DOMAIN calls = {} /\ Constructed = {}
  BY <1>2, <1>5 DEF Constructed
<1>7. /\ calls' \in Seq(Frame) /\ Len(calls') = 1 /\ DOMAIN calls' = 1..1 /\ calls'[1] = f
      /\ NestedOK' /\ Constructed' = Constructed /\ \A b : Ending(b) => Ending(b)'
  BY <1>1, <1>5, <1>6, Pushed DEF UnderWay
<1>8. SoTypeOK'
  BY <1>1, <1>2, <1>4, <1>7 DEF SoTypeOK
<1>9. CallsOK'
  <2>1. AboutOK(f)'
    BY <1>4, <1>5, Names DEF AboutOK, WithBlock, WithHandle
  <2>2. AboutOK(calls[1])'
    BY <1>7, <2>1 DEF AboutOK
  <2> QED
    BY <1>7, <2>2 DEF CallsOK
<1>10. HandlesOK'
  BY <1>2, <1>7, HandlesKept
<1>11. PhaseOK'
  <2>1. \A r \in AllResources : life'[r] \in {"none", "alive"}
    BY <1>3, <1>4, Names
  <2> QED
    BY <1>4, <1>5, <1>7, <2>1 DEF PhaseOK, LiveOK, DyingOK, FreedOK
<1> QED
  BY <1>4, <1>8, <1>9, <1>10, <1>11 DEF SoInv

\* It destroys a resource.
LEMMA StepDestroyResource ==
    ASSUME SoInv, NEW r \in AllResources, DestroyResource(r)
    PROVE  SoInv'
<1>1. SoTypeOK /\ StoreOK /\ CallsOK /\ NestedOK /\ PhaseOK
  BY DEF SoInv, CallsOK
<1>2. /\ calls # <<>> /\ Top.op = "destroy_client" /\ listeners[Client] = <<>> /\ life[r] = "alive"
      /\ life' = [life EXCEPT ![r] = "dying"]
      /\ calls' = Append(calls, Calling("destroy_resource", r, None))
      /\ UNCHANGED <<userData, dispatcher, listeners, late, owner, deleted, withEvents, handled,
                     notified, handle>>
  BY DEF DestroyResource, On, blockVars
<1>3. /\ life[Client] = "dying" /\ Len(calls) = 1 /\ DOMAIN calls = 1..1 /\ Constructed = {}
      /\ calls[1].op = "destroy_client" /\ \A s \in AllResources : life[s] # "dying"
  BY <1>2, TeardownStack DEF Teardown
<1>4. r \in Objects /\ r # Client
  BY Names
<1>5. /\ StoreOK' /\ life' \in [Objects -> {"none", "alive", "dying", "freed"}]
      /\ life'[r] = "dying" /\ (\A p \in Objects \ {r} : life'[p] = life[p])
      /\ \A p \in Objects : life[p] # "none" => life'[p] # "none"
  <2>1. life[r] # "none" /\ "dying" # "freed"
    BY <1>2
  <2>2. \A i \in DOMAIN late' : owner[late'[i]] = Client
    BY <1>1, <1>2 DEF StoreOK
  <2> QED
    BY <1>1, <1>2, <1>4, <2>1, <2>2, LifeStep
<1>6. PICK f \in Frame : /\ f = Calling("destroy_resource", r, None)
                         /\ f.op = "destroy_resource" /\ f.object = r /\ f.block = None
                         /\ f.arg = None
  <2>1. "destroy_resource" \in Library \cup Handlers /\ None \in Blocks \cup {None}
    BY DEF Library
  <2> QED
    BY <1>4, <2>1, CallingFrame
<1>7. /\ calls' \in Seq(Frame) /\ Len(calls') = 2 /\ DOMAIN calls' = 1..2
      /\ calls'[1] = calls[1] /\ calls'[2] = f
      /\ NestedOK' /\ Constructed' = Constructed /\ \A b : Ending(b) => Ending(b)'
  <2>1. calls' = Append(calls, f) /\ 1 \in DOMAIN calls
    BY <1>2, <1>3, <1>6
  <2> QED
    BY <1>1, <1>3, <1>6, <2>1, Pushed DEF UnderWay
<1>8. SoTypeOK'
  BY <1>1, <1>2, <1>5, <1>7 DEF SoTypeOK
<1>9. CallsOK'
  <2>1. AboutOK(f)'
    BY <1>4, <1>5, <1>6, Names DEF AboutOK, WithBlock, WithHandle
  <2>2. AboutOK(calls[2])'
    BY <1>7, <2>1 DEF AboutOK
  <2>3. \A i \in 1..2 : i = 1 \/ i = 2
    OBVIOUS
  <2>4. 1 \in DOMAIN calls /\ calls[1].op # "on_destroy"
    BY <1>3
  <2>5. \A i \in DOMAIN calls' :
           \/ i \in DOMAIN calls /\ calls'[i] = calls[i] /\ calls[i].op # "on_destroy"
           \/ AboutOK(calls[i])'
    BY <1>7, <2>2, <2>3, <2>4
  <2> QED
    BY <1>1, <1>2, <1>5, <1>7, <2>5, CallsStay
<1>10. HandlesOK'
  BY <1>2, <1>7, HandlesKept
<1>11. PhaseOK'
  <2>1. \A s \in AllResources : life'[s] = "dying" => s = r
    BY <1>3, <1>5, Names
  <2>2. life'[Client] = "dying"
    BY <1>3, <1>4, <1>5, Names
  <2> QED
    BY <1>2, <1>3, <1>5, <1>6, <1>7, <2>1, <2>2 DEF PhaseOK, LiveOK, DyingOK, FreedOK
<1> QED
  BY <1>5, <1>8, <1>9, <1>10, <1>11 DEF SoInv

\* ... and frees it.
LEMMA StepFreeResource == SoInv /\ FreeResource => SoInv'
<1> SUFFICES ASSUME SoInv, FreeResource PROVE SoInv'
  OBVIOUS
<1>1. SoTypeOK /\ StoreOK /\ CallsOK /\ NestedOK /\ PhaseOK
  BY DEF SoInv, CallsOK
<1>2. PICK r : r = Top.object
  OBVIOUS
<1>3. /\ calls # <<>> /\ Top.op = "destroy_resource" /\ listeners[r] = <<>>
      /\ life' = [life EXCEPT ![r] = "freed"] /\ calls' = Below
      /\ UNCHANGED <<userData, dispatcher, listeners, late, owner, deleted, withEvents, handled,
                     notified, handle>>
  BY <1>2 DEF FreeResource, On, blockVars
<1>4. /\ life[Client] = "dying" /\ Len(calls) = 2 /\ DOMAIN calls = 1..2 /\ Top = calls[2]
      /\ calls[1].op = "destroy_client" /\ r \in AllResources /\ life[r] = "dying"
  BY <1>2, <1>3, TeardownStack DEF Teardown
<1>5. r \in Objects /\ r # Client /\ Client \in Objects
  BY <1>4, Names
<1>6. /\ StoreOK' /\ life' \in [Objects -> {"none", "alive", "dying", "freed"}]
      /\ life'[r] = "freed" /\ (\A p \in Objects \ {r} : life'[p] = life[p])
      /\ \A p \in Objects : life[p] # "none" => life'[p] # "none"
  <2>1. life[r] # "none" /\ "dying" # "freed"
    BY <1>4
  <2>2. \A i \in DOMAIN late' : owner[late'[i]] = Client
    BY <1>1, <1>3 DEF StoreOK
  <2> QED
    BY <1>1, <1>3, <1>5, <2>1, <2>2, LifeStep
<1>7. /\ calls' \in Seq(Frame) /\ Len(calls') = 1 /\ DOMAIN calls' = 1..1 /\ calls'[1] = calls[1]
      /\ NestedOK' /\ Constructed' \subseteq Constructed /\ \A b : Ending(b) => Ending(b)'
  <2>1. /\ calls' \in Seq(Frame) /\ Len(calls') = Len(calls) - 1
        /\ DOMAIN calls' = 1..Len(calls) - 1 /\ \A i \in DOMAIN calls' : calls'[i] = calls[i]
        /\ NestedOK' /\ Constructed' \subseteq Constructed /\ \A b : Ending(b) => Ending(b)'
    BY <1>1, <1>3, Popped
  <2> QED
    BY <1>4, <2>1
<1>8. SoTypeOK'
  BY <1>1, <1>3, <1>6, <1>7 DEF SoTypeOK
<1>9. CallsOK'
  <2>1. 1 \in DOMAIN calls /\ calls[1].op # "on_destroy"
    BY <1>4
  <2>2. \A i \in DOMAIN calls' : i \in DOMAIN calls /\ calls'[i] = calls[i] /\ calls[i].op # "on_destroy"
    BY <1>7, <2>1
  <2> QED
    BY <1>1, <1>3, <1>6, <1>7, <2>2, CallsStay
<1>10. HandlesOK'
  BY <1>3, <1>7, HandlesKept
<1>11. DyingOK'
  <2>1. DyingOK /\ calls[2].op = "destroy_resource" /\ calls[2].object = r
    BY <1>1, <1>2, <1>3, <1>4 DEF PhaseOK
  <2>2. \A s \in AllResources : life[s] = "dying" => s = r
    BY <1>4, <2>1 DEF DyingOK
  <2>3. \A s \in AllResources : life'[s] # "dying"
    BY <1>6, <2>2, Names
  <2>4. listeners[Client] = <<>>
    BY <1>4, <2>1 DEF DyingOK
  <2> QED
    BY <1>3, <1>4, <1>7, <2>3, <2>4 DEF DyingOK
<1>12. PhaseOK'
  <2>1. life'[Client] = "dying"
    BY <1>4, <1>5, <1>6
  <2> QED
    BY <1>11, <2>1 DEF PhaseOK, LiveOK, FreedOK
<1> QED
  BY <1>6, <1>8, <1>9, <1>10, <1>12 DEF SoInv

\* client_t::destroy_late_func, when all resources are gone.
LEMMA StepNotifyLate == SoInv /\ NotifyLate => SoInv'
<1> SUFFICES ASSUME SoInv, NotifyLate PROVE SoInv'
  OBVIOUS
<1>1. SoTypeOK /\ StoreOK /\ CallsOK /\ NestedOK /\ PhaseOK
  BY DEF SoInv, CallsOK
<1>2. PICK k : k = Head(late)
  OBVIOUS
<1>3. /\ calls # <<>> /\ Top.op = "destroy_client" /\ late # <<>> /\ late' = Tail(late)
      /\ ResourcesGone /\ Notify("on_destroy_late", k, calls)
      /\ UNCHANGED <<life, userData, dispatcher, listeners, owner, deleted, withEvents,
                     handled, notified, handle>>
  BY <1>2 DEF NotifyLate, Notify, On
<1>4. /\ life[Client] = "dying" /\ Len(calls) = 1 /\ DOMAIN calls = 1..1
      /\ calls[1].op = "destroy_client" /\ \A r \in AllResources : life[r] # "dying"
      /\ Constructed = {}
  BY <1>3, TeardownStack DEF Teardown
<1>5. /\ k \in Blocks /\ owner[k] = Client /\ late' \in Seq(Blocks)
      /\ \A i \in DOMAIN late' : owner[late'[i]] = Client
  <2>1. late \in Seq(Blocks) /\ \A i \in DOMAIN late : owner[late[i]] = Client
    BY <1>1 DEF SoTypeOK, StoreOK
  <2>2. PICK L \in Nat \ {0} : L = Len(late)
    BY <1>3, <2>1, TailFacts
  <2>3. /\ late' \in Seq(Blocks) /\ k = late[1] /\ k \in Blocks /\ DOMAIN late = 1..L
        /\ DOMAIN late' = 1..L - 1 /\ \A i \in 1..L - 1 : late'[i] = late[i + 1]
    BY <1>2, <1>3, <2>1, <2>2, TailFacts
  <2>4. 1 \in 1..L /\ \A i \in 1..L - 1 : i + 1 \in 1..L
    BY <2>2
  <2> QED
    BY <2>1, <2>3, <2>4
<1>6. \A r \in AllResources : life[r] \in {"none", "freed"}
  BY <1>1, <1>3, <1>4, Names DEF ResourcesGone, SoTypeOK
<1>7. StoreOK'
  <2>1. \A b : Waiting(b)' = Waiting(b)
    BY <1>3 DEF Waiting
  <2>2. \A o \in Objects : ObjectOK(o)'
    BY <1>1, <1>3, <2>1 DEF StoreOK, ObjectOK
  <2>3. \A b \in Blocks : BlockOK(b)'
    BY <1>1, <1>3, <2>1 DEF StoreOK, BlockOK
  <2> QED
    BY <1>1, <1>3, <1>5, <2>2, <2>3 DEF StoreOK, Made, DispatcherHasEvents
<1>8. Client \in Objects
  BY Names
<1>9. PICK N : N = Len(calls')
  OBVIOUS
<1>10. /\ calls' \in Seq(Frame) /\ NestedOK' /\ Constructed' = {} /\ N \in {1, 2}
       /\ DOMAIN calls' = 1..N /\ calls'[1] = calls[1]
       /\ N = 2 => /\ calls'[2].op = "on_destroy_late" /\ calls'[2].object = Client
                   /\ calls'[2].block = k /\ calls'[2].arg = None
       /\ \A x : Ending(x) => Ending(x)'
  <2>1. 1 \in DOMAIN calls
    BY <1>4
  <2> QED
    BY <1>3, <1>4, <1>5, <1>8, <1>9, <2>1, Notifying
<1>11. SoTypeOK'
  BY <1>1, <1>3, <1>5, <1>10 DEF SoTypeOK
<1>12. HandlesOK'
  BY <1>3, <1>4, <1>10, HandlesKept
<1>13. CallsOK'
  <2>1. ASSUME N = 2 PROVE AboutOK(calls[2])'
    <3>1. PICK f : f = calls'[2]
      OBVIOUS
    <3>2. f.op = "on_destroy_late" /\ f.object = Client /\ f.block = k /\ f.arg = None
      BY <1>10, <2>1, <3>1
    <3>3. AboutOK(f)'
      BY <1>3, <1>4, <1>5, <3>2, Names DEF AboutOK, WithBlock, WithHandle
    <3> QED
      BY <3>1, <3>3 DEF AboutOK
  <2>2. \A i \in 1..N : i = 1 \/ (N = 2 /\ i = 2)
    BY <1>10
  <2>3. 1 \in DOMAIN calls /\ calls[1].op # "on_destroy"
    BY <1>4
  <2>4. \A i \in DOMAIN calls' :
           \/ i \in DOMAIN calls /\ calls'[i] = calls[i] /\ calls[i].op # "on_destroy"
           \/ AboutOK(calls[i])'
    BY <1>10, <2>1, <2>2, <2>3
  <2> QED
    BY <1>1, <1>3, <1>10, <2>4, CallsStay
<1>14. PhaseOK'
  <2>1. listeners[Client] = <<>>
    BY <1>3 DEF ResourcesGone
  <2>2. life'[Client] = "dying" /\ Len(calls') = N /\ calls'[1].op = "destroy_client"
        /\ listeners'[Client] = <<>>
    BY <1>3, <1>4, <1>9, <1>10, <2>1
  <2>3. \A r \in AllResources : life'[r] \in {"none", "freed"}
    BY <1>3, <1>6
  <2>4. CASE N = 1
    BY <2>2, <2>3, <2>4 DEF PhaseOK, LiveOK, DyingOK, FreedOK
  <2>5. CASE N = 2
    <3>1. calls'[2].op = "on_destroy_late"
      BY <1>10, <2>5
    <3> QED
      BY <2>2, <2>3, <2>5, <3>1 DEF PhaseOK, LiveOK, DyingOK, FreedOK
  <2> QED
    BY <1>10, <2>4, <2>5
<1> QED
  BY <1>7, <1>11, <1>12, <1>13, <1>14 DEF SoInv

\* The client's user data is destroyed, and then it is gone.
LEMMA StepFreeClient == SoInv /\ FreeClient => SoInv'
<1> SUFFICES ASSUME SoInv, FreeClient PROVE SoInv'
  OBVIOUS
<1>1. SoTypeOK /\ StoreOK /\ CallsOK /\ NestedOK /\ PhaseOK
  BY DEF SoInv, CallsOK
<1>2. PICK k : k = userData[Client]
  OBVIOUS
<1>3. /\ calls # <<>> /\ Top.op = "destroy_client" /\ ResourcesGone /\ calls' = Below
      /\ life' = [life EXCEPT ![Client] = "freed"]
      /\ deleted' = deleted \cup {k}
      /\ UNCHANGED <<userData, dispatcher, listeners, late, owner, withEvents, handled,
                     notified, handle>>
  BY <1>2 DEF FreeClient, On
<1>4. /\ life[Client] = "dying" /\ Len(calls) = 1 /\ DOMAIN calls = 1..1
      /\ calls[1].op = "destroy_client" /\ \A r \in AllResources : life[r] # "dying"
  BY <1>3, TeardownStack DEF Teardown
<1>5. Client \in Objects /\ Client # None /\ listeners[Client] = <<>>
  BY <1>3, Names DEF ResourcesGone
<1>6. k \in Blocks /\ owner[k] = Client /\ ~Waiting(k)
  BY <1>1, <1>2, <1>4, <1>5 DEF StoreOK, ObjectOK, Waiting
<1>7. /\ StoreOK' /\ life' \in [Objects -> {"none", "alive", "dying", "freed"}]
      /\ life'[Client] = "freed" /\ \A p \in Objects \ {Client} : life'[p] = life[p]
  <2>1. life[Client] # "none"
    BY <1>4
  <2>2. \A i \in DOMAIN late' : owner[late'[i]] = Client
    BY <1>1, <1>3 DEF StoreOK
  <2>3. \A b \in deleted : b \in Blocks
    BY <1>1 DEF SoTypeOK
  <2>4. \A b \in deleted : owner[b] # Client
    BY <1>1, <1>4, <2>3 DEF StoreOK, BlockOK
  <2>5. PICK v \in {"dying", "freed"}, o \in Objects : v = "freed" /\ o = Client
    BY <1>5
  <2>6. \A b \in Blocks : b \in deleted' => b \in deleted \/
           (owner[b] \in Objects /\ ~Waiting(b) /\ (owner[b] = Client => v = "freed" /\ o = Client))
    BY <1>3, <1>5, <1>6, <2>5
  <2>7. deleted \subseteq deleted' /\ \A b \in deleted : owner[b] = Client => o # Client
    BY <1>3, <2>4
  <2>8. UNCHANGED <<userData, dispatcher, listeners, owner, withEvents, handled, notified>>
    BY <1>3
  <2>9. life' = [life EXCEPT ![o] = v] /\ listeners[o] = <<>> /\ life[o] # "none"
    BY <1>3, <1>5, <2>1, <2>5
  <2> QED
    BY <1>1, <2>2, <2>5, <2>6, <2>7, <2>8, <2>9, LifeStep
<1>8. /\ calls' \in Seq(Frame) /\ calls' = <<>> /\ DOMAIN calls' = {}
      /\ NestedOK' /\ Constructed' \subseteq Constructed /\ \A b : Ending(b) => Ending(b)'
  <2>1. /\ calls' \in Seq(Frame) /\ Len(calls') = Len(calls) - 1
        /\ NestedOK' /\ Constructed' \subseteq Constructed /\ \A b : Ending(b) => Ending(b)'
    BY <1>1, <1>3, Popped
  <2>2. calls' = <<>>
    BY <1>4, <2>1
  <2> QED
    BY <2>1, <2>2
<1>9. SoTypeOK'
  BY <1>1, <1>3, <1>6, <1>7, <1>8 DEF SoTypeOK
<1>10. CallsOK'
  BY <1>8 DEF CallsOK
<1>11. HandlesOK'
  BY <1>3, <1>8, HandlesKept
<1>12. PhaseOK'
  <2>1. \A r \in AllResources : life'[r] \in {"none", "freed"}
    BY <1>1, <1>3, <1>4, <1>7, Names DEF ResourcesGone, SoTypeOK
  <2> QED
    BY <1>7, <1>8, <2>1 DEF PhaseOK, LiveOK, DyingOK, FreedOK
<1> QED
  BY <1>7, <1>9, <1>10, <1>11, <1>12 DEF SoInv

\* A client connects: it has no block yet.
LEMMA StepConnect == SoInv /\ Careful /\ Connect => SoInv'
<1> SUFFICES ASSUME SoInv, Careful, Connect PROVE SoInv'
  OBVIOUS
<1>1. SoTypeOK /\ StoreOK /\ CallsOK /\ NestedOK /\ PhaseOK /\ HandlesOK
  BY DEF SoInv, CallsOK
<1>2. PICK k : k = Fresh
  OBVIOUS
<1>3. /\ life[Client] = "none" /\ k \in Blocks
      /\ life' = [life EXCEPT ![Client] = "alive", ![WlDisplay] = "alive"]
      /\ owner' = [owner EXCEPT ![k] = Client]
      /\ userData' = [userData EXCEPT ![Client] = k, ![WlDisplay] = Theirs]
      /\ listeners' = [listeners EXCEPT ![Client] = <<k>>]
      /\ late' = <<k>>
      /\ UNCHANGED <<dispatcher, deleted, withEvents, handled, notified, handle>>
  BY <1>2 DEF Connect
<1>4. calls' = <<Calling("on_client_created", Client, k)>>
  <2>1. "client_fd" \notin Habits
    BY DEF Careful
  <2>2. calls' = <<>> \o <<Calling("on_client_created", Client, k)>>
    BY <1>2, <2>1 DEF Connect
  <2> QED
    BY <2>2
<1>5. /\ Client \in Objects /\ WlDisplay \in Objects /\ Client # WlDisplay /\ Client # None
      /\ WlDisplay \notin Resources /\ WlDisplay \in AllResources /\ None \notin Objects
  BY Names
<1>6. deleted = {} /\ calls = <<>> /\ \A r \in AllResources : life[r] = "none"
  BY <1>1, <1>3 DEF PhaseOK, LiveOK
<1>7. \A o \in Objects : life[o] = "none"
  BY <1>3, <1>6, Names
<1>8. \A b \in Blocks : owner[b] = None
  BY <1>1, <1>7 DEF StoreOK, ObjectOK, SoTypeOK
<1>9. /\ life'[Client] = "alive" /\ life'[WlDisplay] = "alive"
      /\ \A o \in Objects \ {Client, WlDisplay} : life'[o] = "none"
      /\ life' \in [Objects -> {"none", "alive", "dying", "freed"}]
  BY <1>1, <1>3, <1>5, <1>7 DEF SoTypeOK
<1>10. /\ userData'[Client] = k /\ userData'[WlDisplay] = Theirs
       /\ \A o \in Objects \ {Client, WlDisplay} : userData'[o] = userData[o]
       /\ userData' \in [Objects -> Blocks \cup {None, Theirs}]
  BY <1>1, <1>3, <1>5 DEF SoTypeOK
<1>11. /\ owner'[k] = Client /\ (\A b \in Blocks \ {k} : owner'[b] = None)
       /\ owner' \in [Blocks -> Objects \cup {None}]
  BY <1>1, <1>3, <1>5, <1>8 DEF SoTypeOK
<1>12. /\ listeners'[Client] = <<k>> /\ (\A o \in Objects \ {Client} : listeners'[o] = <<>>)
       /\ listeners' \in [Objects -> Seq(Blocks)] /\ late' \in Seq(Blocks)
  <2>1. \A o \in Objects : listeners[o] = <<>>
    BY <1>1, <1>7 DEF StoreOK, ObjectOK
  <2>2. <<k>> \in Seq(Blocks)
    BY <1>3
  <2> QED
    BY <1>1, <1>3, <1>5, <2>1, <2>2 DEF SoTypeOK
<1>13. Waiting(k)'
  BY <1>11, <1>12 DEF Waiting
<1>14. ASSUME NEW o \in Objects PROVE ObjectOK(o)'
  <2>1. CASE o = Client
    <3>1. /\ \A i \in DOMAIN listeners'[Client] : listeners'[Client][i] = k
          /\ \A i, j \in DOMAIN listeners'[Client] : i = j
      BY <1>12
    <3>2. \A b \in Blocks : owner'[b] = Client => Waiting(b)'
      BY <1>5, <1>11, <1>13
    <3> QED
      BY <1>3, <1>9, <1>10, <1>11, <2>1, <3>1, <3>2 DEF ObjectOK
  <2>2. CASE o # Client
    <3>1. \A b \in Blocks : owner'[b] # o
      BY <1>5, <1>11, <2>2
    <3>2. userData'[o] \notin Blocks
      BY <1>1, <1>5, <1>7, <1>8, <1>10, <2>2, Names DEF StoreOK, ObjectOK
    <3>3. o \in Resources => life'[o] = "none"
      BY <1>5, <1>9, <2>2
    <3> QED
      BY <1>12, <2>2, <3>1, <3>2, <3>3, <1>9, <1>5 DEF ObjectOK
  <2> QED
    BY <2>1, <2>2
<1>15. ASSUME NEW b \in Blocks PROVE BlockOK(b)'
  <2>1. b \notin deleted \cup withEvents \cup handled /\ notified[b] = 0
    BY <1>1, <1>8 DEF StoreOK, BlockOK
  <2>2. CASE b = k
    BY <1>3, <1>5, <1>10, <1>11, <1>13, <2>1, <2>2 DEF BlockOK
  <2>3. CASE b # k
    BY <1>3, <1>5, <1>11, <2>1, <2>3 DEF BlockOK
  <2> QED
    BY <2>2, <2>3
<1>16. StoreOK'
  <2>1. Made'
    BY <1>1, <1>2, <1>3, <1>5, FreshBlock DEF StoreOK
  <2>2. DispatcherHasEvents'
    BY <1>5, <1>9, Names DEF DispatcherHasEvents
  <2>3. \A i \in DOMAIN late' : owner'[late'[i]] = Client
    BY <1>3, <1>11
  <2> QED
    BY <1>14, <1>15, <2>1, <2>2, <2>3 DEF StoreOK
<1>17. PICK f \in Frame : /\ f = Calling("on_client_created", Client, k)
                          /\ f.op = "on_client_created" /\ f.object = Client /\ f.block = k
                          /\ f.arg = None
  <2>1. "on_client_created" \in Library \cup Handlers
    BY DEF Handlers
  <2> QED
    BY <1>3, <1>5, <2>1, CallingFrame
<1>18. calls' = Append(calls, f) /\ Len(calls) = 0 /\ DOMAIN calls = {} /\ Constructed = {}
  BY <1>4, <1>6, <1>17 DEF Constructed
<1>19. /\ calls' \in Seq(Frame) /\ Len(calls') = 1 /\ DOMAIN calls' = 1..1 /\ calls'[1] = f
       /\ NestedOK'
  BY <1>1, <1>17, <1>18, Pushed DEF UnderWay
<1>20. SoTypeOK'
  BY <1>1, <1>3, <1>9, <1>10, <1>11, <1>12, <1>19 DEF SoTypeOK
<1>21. CallsOK'
  <2>1. AboutOK(f)'
    BY <1>3, <1>9, <1>10, <1>11, <1>17, Names DEF AboutOK, WithBlock, WithHandle
  <2>2. AboutOK(calls[1])'
    BY <1>19, <2>1 DEF AboutOK
  <2> QED
    BY <1>19, <2>2 DEF CallsOK
<1>22. HandlesOK'
  <2>1. \A h \in Handles : handle[h] = None
    BY <1>1, <1>8 DEF HandlesOK, HandleOK
  <2> QED
    BY <1>3, <2>1 DEF HandlesOK, HandleOK
<1>23. PhaseOK'
  <2>1. \A r \in AllResources : life'[r] \in {"none", "alive"}
    BY <1>9, Names
  <2>2. deleted' = {} /\ life'[Client] = "alive"
    BY <1>3, <1>6, <1>9
  <2>3. \A i \in DOMAIN calls' : calls'[i].op \notin Teardown
    BY <1>17, <1>19 DEF Teardown
  <2> QED
    BY <2>1, <2>2, <2>3 DEF PhaseOK, LiveOK, DyingOK, FreedOK
<1> QED
  BY <1>16, <1>20, <1>21, <1>22, <1>23 DEF SoInv
-----------------------------------------------------------------------------
(* The invariant holds *)

LEMMA InitInv == Init => SoInv
<1> SUFFICES ASSUME Init PROVE SoInv
  OBVIOUS
<1>1. calls = <<>> /\ DOMAIN calls = {} /\ calls \in Seq(Frame)
  BY DEF Init
<1>2. /\ \A o \in Objects : life[o] = "none" /\ userData[o] = None /\ listeners[o] = <<>>
      /\ \A b \in Blocks : owner[b] = None /\ notified[b] = 0
      /\ \A h \in Handles : handle[h] = None
      /\ late = <<>> /\ deleted = {} /\ withEvents = {} /\ handled = {}
  BY DEF Init
<1>3. SoTypeOK
  <2>1. <<>> \in Seq(Blocks)
    OBVIOUS
  <2> QED
    BY <1>1, <2>1 DEF Init, SoTypeOK
<1>4. StoreOK
  <2>1. Made
    <3>1. 0 \in 0..MaxBlocks /\ \A b \in Blocks : ~(b <= 0)
      BY NameAssumption DEF Blocks
    <3> QED
      BY <1>2, <3>1 DEF Made
  <2>2. \A o \in Objects : ObjectOK(o)
    BY <1>2, Names DEF ObjectOK
  <2>3. \A b \in Blocks : BlockOK(b)
    BY <1>2, Names DEF BlockOK
  <2>4. DispatcherHasEvents
    BY <1>2, Names DEF DispatcherHasEvents
  <2>5. \A i \in DOMAIN late : owner[late[i]] = Client
    BY <1>2
  <2> QED
    BY <2>1, <2>2, <2>3, <2>4, <2>5 DEF StoreOK
<1>5. HandlesOK /\ CallsOK
  BY <1>1, <1>2 DEF HandlesOK, HandleOK, CallsOK, NestedOK
<1>6. PhaseOK
  BY <1>1, <1>2, Names DEF PhaseOK, LiveOK, DyingOK, FreedOK
<1> QED
  BY <1>3, <1>4, <1>5, <1>6 DEF SoInv

\* Nothing happens.
LEMMA StepNone == SoInv /\ UNCHANGED vars => SoInv'
<1> SUFFICES ASSUME SoInv, UNCHANGED vars PROVE SoInv'
  OBVIOUS
<1>1. UNCHANGED <<life, userData, dispatcher, listeners, late, owner, deleted, withEvents,
                  handled, notified, handle, calls>>
  BY DEF vars, objectVars, blockVars
<1>2. SoTypeOK' /\ StoreOK' /\ CallsOK' /\ PhaseOK'
  BY <1>1, StackKept DEF SoInv, SoTypeOK
<1>3. Constructed' = Constructed /\ (\A b : Ending(b)' = Ending(b))
  BY <1>1 DEF Constructed, Ending
<1>4. HandlesOK'
  BY <1>1, <1>3, HandlesKept
<1> QED
  BY <1>2, <1>4 DEF SoInv

LEMMA Inductive == Careful /\ SoInv /\ [Next]_vars => SoInv'
<1> SUFFICES ASSUME Careful, SoInv, [Next]_vars PROVE SoInv'
  OBVIOUS
<1>1. CASE ProgramStep
  <2>1. ASSUME NEW r \in Resources, Offer(r) PROVE SoInv'
    BY <2>1, StepCreate, Names
  <2>2. ASSUME NEW h \in Handles, Drop(h) PROVE SoInv'
    BY <2>2, StepDrop
  <2>3. ASSUME NEW h \in Handles, NEW o \in Objects, Keep(h, o) PROVE SoInv'
    BY <2>3, StepKeep
  <2> QED
    BY <1>1, <2>1, <2>2, <2>3, StepWatch, StepCast DEF ProgramStep
<1>2. CASE ClientStep
  <2>1. ASSUME NEW r \in TheirResources, CreateRegistry(r) PROVE SoInv'
    BY <2>1, StepCreate, Names
  <2>2. ASSUME NEW r \in Resources, Bind(r) PROVE SoInv'
    BY <2>2, StepCreate, Names
  <2>3. ASSUME NEW r \in Resources, Request(r) PROVE SoInv'
    BY <2>3, StepRequest
  <2>4. ASSUME NEW r \in Resources, NEW new \in Resources, RequestNew(r, new) PROVE SoInv'
    BY <2>4, StepCreate, Names
  <2> QED
    BY <1>2, <2>1, <2>2, <2>3, <2>4, StepConnect, StepDisconnect DEF ClientStep
<1>3. CASE LibraryStep
  <2>1. ASSUME NEW r \in AllResources, DestroyResource(r) PROVE SoInv'
    BY <2>1, StepDestroyResource
  <2> QED
    BY <1>3, <2>1, StepFinishInit, StepFinishClass, StepFinishRegistry, StepIgnore,
       StepCallHandler, StepNotifyClient, StepNotifyResource, StepFreeResource, StepNotifyLate,
       StepFreeClient DEF LibraryStep
<1>4. CASE HandlerEnds
  <2>1. ASSUME NEW h \in HandlesOf(Top.object), Drop(h) PROVE SoInv'
    BY <2>1, StepDrop DEF HandlesOf
  <2> QED
    BY <1>4, <2>1, StepHandlerReturns DEF HandlerEnds
<1> QED
  BY <1>1, <1>2, <1>3, <1>4, StepNone DEF Next

LEMMA Invariance == ASSUME Careful PROVE Spec => []SoInv
<1>1. Init => SoInv
  BY InitInv
<1>2. SoInv /\ [Next]_vars => SoInv'
  BY Inductive
<1> QED
  BY <1>1, <1>2, PTL DEF Spec
-----------------------------------------------------------------------------
(* The properties *)

\* Variables keep their types, whatever the program and its clients do.
THEOREM ObjectsTypeCorrect == ASSUME Careful PROVE Spec => []SoTypeOK
<1>1. SoInv => SoTypeOK
  BY DEF SoInv
<1> QED
  BY <1>1, Invariance, PTL

\* All handles of an object, and the handlers that are shown it, work with the
\* one block that its user data names, as soon as its constructor has returned.
THEOREM OneBlockCorrect == ASSUME Careful PROVE Spec => []OneBlock
<1>1. ASSUME SoInv PROVE OneBlock
  <2>1. SoTypeOK /\ HandlesOK /\ CallsOK /\ UnderConstruction = Constructed
    BY <1>1, ConstructedMeans DEF SoInv
  <2>2. ASSUME NEW o \in Objects, NEW b \in Referred(o) PROVE b = userData[o]
    <3>1. CASE \E h \in HandlesOf(o) : b = handle[h]
      <4>1. PICK h \in Handles : b = handle[h] /\ handle[h] \in Blocks /\ owner[handle[h]] = o
        BY <3>1 DEF HandlesOf
      <4>2. HandleOK(h) /\ handle[h] # None
        BY <2>1, <4>1, Names DEF HandlesOK
      <4> QED
        BY <4>1, <4>2 DEF HandleOK
    <3>2. CASE \E i \in DOMAIN calls : /\ calls[i].object = o /\ calls[i].op \in WithHandle
                                        /\ b = calls[i].block
      BY <2>1, <3>2 DEF CallsOK, AboutOK
    <3> QED
      BY <2>2, <3>1, <3>2 DEF Referred
  <2> QED
    BY <2>2 DEF OneBlock
<1>2. SoInv => OneBlock
  BY <1>1
<1> QED
  BY <1>2, Invariance, PTL

\* A generated dispatcher never meets a block without the events it casts to.
THEOREM DispatcherHasEventsCorrect == ASSUME Careful PROVE Spec => []DispatcherHasEvents
<1>1. SoInv => DispatcherHasEvents
  BY DEF SoInv, StoreOK
<1> QED
  BY <1>1, Invariance, PTL

\* No handle, no call in progress and no listener refers to a deleted block, and a
\* freed object has no handles.
THEOREM NothingDeletedInUseCorrect == ASSUME Careful PROVE Spec => []NothingDeletedInUse
<1>1. ASSUME SoInv PROVE NothingDeletedInUse
  <2>1. SoTypeOK /\ StoreOK /\ HandlesOK /\ CallsOK /\ PhaseOK
    BY <1>1 DEF SoInv
  <2>2. ASSUME NEW i \in DOMAIN calls, calls[i].block # None PROVE calls[i].block \notin deleted
    <3>1. PICK f : f = calls[i]
      OBVIOUS
    <3>2. AboutOK(f)
      BY <2>1, <2>2, <3>1 DEF CallsOK
    <3>3. CASE f.op \notin Teardown
      BY <1>1, <2>2, <3>1, <3>3, LiveCalls
    <3>4. CASE f.op = "on_destroy"
      BY <3>1, <3>2, <3>4 DEF AboutOK
    <3>5. CASE f.op = "on_destroy_late"
      <4>1. owner[f.block] = Client /\ f.block \in Blocks
        BY <3>2, <3>5 DEF AboutOK, WithBlock
      <4>2. calls # <<>>
        BY <2>1, <2>2, Elements
      <4>3. life[Client] # "freed"
        BY <2>1, <4>2 DEF PhaseOK, FreedOK
      <4> QED
        BY <2>1, <3>1, <4>1, <4>3 DEF StoreOK, BlockOK
    <3>6. CASE f.op \in {"destroy_client", "destroy_resource"}
      BY <2>2, <3>1, <3>2, <3>6 DEF AboutOK, WithBlock, WithHandle
    <3> QED
      BY <3>3, <3>4, <3>5, <3>6 DEF Teardown
  <2>3. ASSUME NEW b \in Blocks, Ending(b)
        PROVE  b \notin deleted /\ life[owner[b]] = "dying"
    <3>1. PICK i \in DOMAIN calls : calls[i].op = "on_destroy" /\ calls[i].block = b
      BY <2>3 DEF Ending
    <3>2. AboutOK(calls[i])
      BY <2>1, <3>1 DEF CallsOK
    <3>3. owner[b] = calls[i].object /\ b \notin deleted
      BY <3>1, <3>2 DEF AboutOK, WithBlock
    <3>4. calls # <<>>
      BY <2>1, <3>1, Elements
    <3>5. Top.op \in Teardown
      BY <1>1, <3>1, <3>4, LiveTop DEF Teardown
    <3>6. PICK L \in 1..3 : L = Len(calls)
      BY <1>1, <3>4, <3>5, TeardownStack
    <3>7. /\ life[Client] = "dying" /\ i \in 1..L /\ Top = calls[L]
          /\ Top.op = "on_destroy" => \/ L = 2 /\ Top.object = Client
                                      \/ L = 3 /\ calls[2].op = "destroy_resource"
          /\ \A j \in 1..L - 1 : calls[j].op \in {"destroy_client", "destroy_resource"}
      BY <1>1, <3>1, <3>4, <3>5, <3>6, TeardownStack
    <3>8. i = L
      <4>1. i = L \/ i \in 1..L - 1
        BY <3>6, <3>7
      <4> QED
        BY <3>1, <3>7, <4>1
    <3>9. L = 3 => life[calls[3].object] = "dying"
      BY <2>1, <3>6, <3>7 DEF PhaseOK, DyingOK
    <3> QED
      BY <3>1, <3>3, <3>7, <3>8, <3>9
  <2>4. ASSUME NEW h \in Handles, handle[h] \in Blocks
        PROVE  handle[h] \notin deleted /\ life[owner[handle[h]]] # "freed"
    <3>1. HandleOK(h) /\ handle[h] # None
      BY <2>1, <2>4, Names DEF HandlesOK
    <3>2. owner[handle[h]] \in Objects
      BY <2>1, <2>4, <3>1 DEF HandleOK, SoTypeOK
    <3>3. CASE Waiting(handle[h])
      <4>1. listeners[owner[handle[h]]] # <<>>
        BY <3>3 DEF Waiting
      <4> QED
        BY <2>1, <2>4, <3>2, <3>3, <4>1 DEF StoreOK, ObjectOK, BlockOK
    <3>4. CASE Ending(handle[h])
      BY <2>3, <2>4, <3>4
    <3> QED
      BY <3>1, <3>3, <3>4 DEF HandleOK
  <2>5. ASSUME NEW o \in Objects, NEW i \in DOMAIN listeners[o]
        PROVE  listeners[o][i] \notin deleted
    <3>1. owner[listeners[o][i]] = o /\ listeners[o][i] \in Blocks
      BY <2>1, <2>5 DEF StoreOK, ObjectOK, SoTypeOK
    <3>2. Waiting(listeners[o][i])
      BY <2>5, <3>1 DEF Waiting
    <3> QED
      BY <2>1, <3>1, <3>2 DEF StoreOK, BlockOK
  <2>6. ASSUME NEW o \in Objects, NEW b \in Referred(o) \cup CallsOn(o) PROVE b \notin deleted
    <3>1. CASE \E h \in HandlesOf(o) : b = handle[h]
      BY <2>4, <3>1 DEF HandlesOf
    <3>2. CASE \E i \in DOMAIN calls : b = calls[i].block /\ calls[i].block # None
      BY <2>2, <3>2
    <3>3. ASSUME NEW i \in DOMAIN calls, calls[i].op \in WithHandle PROVE calls[i].block # None
      BY <2>1, <3>3, Names DEF CallsOK, AboutOK, WithBlock
    <3> QED
      BY <2>6, <3>1, <3>2, <3>3 DEF Referred, CallsOn
  <2>7. \A o \in Objects : life[o] = "freed" => HandlesOf(o) = {}
    BY <2>4 DEF HandlesOf
  <2> QED
    BY <2>5, <2>6, <2>7 DEF NothingDeletedInUse
<1>2. SoInv => NothingDeletedInUse
  BY <1>1
<1> QED
  BY <1>2, Invariance, PTL

\* Each on_destroy handler is called at most once, and has been when the object
\* is freed.
THEOREM NotifiedOnceCorrect == ASSUME Careful PROVE Spec => []NotifiedOnce
<1>1. ASSUME SoInv PROVE NotifiedOnce
  <2>1. SoTypeOK /\ StoreOK
    BY <1>1 DEF SoInv
  <2>2. ASSUME NEW b \in handled
        PROVE  notified[b] <= 1 /\ (life[owner[b]] = "freed" => notified[b] = 1)
    <3>1. b \in Blocks /\ owner[b] # None /\ owner[b] \in Objects
      BY <2>1, <2>2 DEF SoTypeOK, StoreOK, BlockOK
    <3>2. notified[b] = IF Waiting(b) THEN 0 ELSE 1
      BY <2>1, <3>1 DEF StoreOK, BlockOK
    <3>3. life[owner[b]] = "freed" => ~Waiting(b)
      BY <2>1, <3>1 DEF StoreOK, ObjectOK, Waiting
    <3> QED
      BY <3>2, <3>3
  <2> QED
    BY <2>2 DEF NotifiedOnce
<1>2. SoInv => NotifiedOnce
  BY <1>1
<1> QED
  BY <1>2, Invariance, PTL

\* on_destroy of the client comes before any of its resources is destroyed,
\* on_destroy_late after all are gone, and its data is there until then.
THEOREM ClientOutlivesResourcesCorrect == ASSUME Careful PROVE Spec => []ClientOutlivesResources
<1>1. ASSUME SoInv PROVE ClientOutlivesResources
  <2>1. SoTypeOK /\ StoreOK /\ CallsOK /\ PhaseOK /\ Client \in Objects /\ Client \notin AllResources
    BY <1>1, Names DEF SoInv
  <2>2. ASSUME calls # <<>>, Top.op \in {"on_destroy", "on_destroy_late"}
        PROVE  /\ Top.op = "on_destroy" /\ Top.object = Client
                     => \A r \in AllResources : life[r] \in {"none", "alive"}
               /\ Top.op = "on_destroy_late" => \A r \in AllResources : life[r] \in {"none", "freed"}
               /\ userData[Client] \notin deleted
    <3>1. PICK L \in 1..3 : L = Len(calls)
      BY <1>1, <2>2, TeardownStack DEF Teardown
    <3>2. /\ life[Client] = "dying" /\ DOMAIN calls = 1..L /\ Top = calls[L]
          /\ Top.op = "on_destroy_late" => L = 2
          /\ Top.op = "on_destroy" => \/ L = 2 /\ Top.object = Client
                                      \/ L = 3 /\ calls[2].op = "destroy_resource"
      BY <1>1, <2>2, <3>1, TeardownStack DEF Teardown
    <3>3. DyingOK
      BY <2>1 DEF PhaseOK
    <3>4. ASSUME L = 3 PROVE Top.object # Client
      <4>1. Top.object = calls[2].object /\ calls[2].op = "destroy_resource"
        BY <3>1, <3>2, <3>3, <3>4 DEF DyingOK
      <4>2. AboutOK(calls[2])
        BY <2>1, <3>2, <3>4 DEF CallsOK
      <4> QED
        BY <2>1, <4>1, <4>2 DEF AboutOK
    <3>5. userData[Client] \in Blocks /\ owner[userData[Client]] = Client
      BY <2>1, <3>2 DEF StoreOK, ObjectOK
    <3>6. userData[Client] \notin deleted
      BY <2>1, <3>2, <3>5 DEF StoreOK, BlockOK
    <3>7. Top.op = "on_destroy_late" => \A r \in AllResources : life[r] \in {"none", "freed"}
      BY <3>1, <3>2, <3>3 DEF DyingOK
    <3>8. Top.op = "on_destroy" /\ Top.object = Client
             => \A r \in AllResources : life[r] \in {"none", "alive"}
      BY <3>1, <3>2, <3>3, <3>4 DEF DyingOK
    <3> QED
      BY <3>6, <3>7, <3>8
  <2> QED
    BY <2>2 DEF ClientOutlivesResources, On
<1>2. SoInv => ClientOutlivesResources
  BY <1>1
<1> QED
  BY <1>2, Invariance, PTL
=============================================================================
