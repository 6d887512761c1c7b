---------------------------- MODULE ProxyProofs ----------------------------
(***************************************************************************)
(* Proofs about Proxy, for any number of handles, objects, wrappers and    *)
(* queues: the reference counts are right, no handle dangles, an object is *)
(* destroyed once.  The inductive invariant is IInv (Proxy.tla).           *)
(***************************************************************************)
EXTENDS Proxy, FiniteSetTheorems, TLAPS

-----------------------------------------------------------------------------
(* References and counters *)

\* A block has finitely many references.
LEMMA RefsFinite ==
    ASSUME NEW p
    PROVE  IsFiniteSet(Refs(p)) /\ Cardinality(Refs(p)) \in Nat
<1>1. IsFiniteSet(Slots)
  BY FiniteAssumption, FS_Union DEF Slots
<1>2. Refs(p) \subseteq Slots
  BY DEF Refs
<1> QED
  BY <1>1, <1>2, FS_Subset, FS_CardinalityType

\* A slot with data that is not destroying its object is counted.
LEMMA Counting ==
    ASSUME TypeOK, NoDangling, \A q \in allocated : CountOK(q),
           NEW s \in Slots, HasData(s), Idle(s)
    PROVE  /\ proxy[s] \in Proxies /\ proxy[s] \in live \cap allocated
           /\ s \in Refs(proxy[s])
           /\ counter[proxy[s]] \in Nat /\ counter[proxy[s]] >= 1
<1> DEFINE p == proxy[s]
<1>1. p \in Proxies
  BY DEF TypeOK, HasData
<1>2. p \in live \cap allocated
  BY DEF NoDangling, Idle
<1>3. s \in Refs(p)
  BY DEF Refs, HasData
<1>4. Cardinality(Refs(p)) \in Nat /\ Cardinality(Refs(p)) # 0
  BY <1>3, RefsFinite, FS_EmptySet
<1>5. counter[p] \in Nat
  BY <1>1 DEF TypeOK
<1>6. counter[p] >= Cardinality(Refs(p))
  BY <1>2, <1>4, <1>5 DEF CountOK
<1> QED
  BY <1>1, <1>2, <1>3, <1>4, <1>5, <1>6

\* Nothing refers to an address that is not in use.
LEMMA Fresh ==
    ASSUME IInv, NEW p \in Proxies, p \notin allocated
    PROVE  /\ Refs(p) = {}
           /\ \A s \in Slots : HasData(s) => proxy[s] # p
<1>1. ASSUME NEW s \in Slots, HasData(s) PROVE proxy[s] # p
  <2>1. CASE Idle(s)
    BY <1>1, <2>1 DEF IInv, NoDangling, Idle
  <2>2. CASE ~Idle(s)
    BY <1>1, <2>2 DEF IInv, Releasing
  <2> QED
    BY <2>1, <2>2
<1>2. Refs(p) = {}
  BY <1>1, AddressAssumption DEF Refs, HasData
<1> QED
  BY <1>1, <1>2

\* How one counter follows the references in a step: nothing happens to them;
LEMMA CountSame ==
    ASSUME NEW p, CountOK(p), Refs(p)' = Refs(p), counter'[p] = counter[p]
    PROVE  CountOK(p)'
BY DEF CountOK

\* one is added;
LEMMA CountAdd ==
    ASSUME TypeOK, NEW p \in Proxies, CountOK(p), NEW s, s \notin Refs(p),
           Refs(p)' = Refs(p) \cup {s}, counter'[p] = counter[p] + 1
    PROVE  CountOK(p)'
<1>1. Cardinality(Refs(p)') = Cardinality(Refs(p)) + 1
  BY RefsFinite, FS_AddElement
<1>2. counter[p] \in Nat /\ Cardinality(Refs(p)) \in Nat
  BY RefsFinite DEF TypeOK
<1> QED
  BY <1>1, <1>2 DEF CountOK

\* one is given up;
LEMMA CountRemove ==
    ASSUME TypeOK, NEW p \in Proxies, CountOK(p), NEW s \in Refs(p),
           Refs(p)' = Refs(p) \ {s}, counter'[p] = counter[p] - 1
    PROVE  CountOK(p)'
<1>1. Cardinality(Refs(p)') = Cardinality(Refs(p)) - 1
  BY RefsFinite, FS_RemoveElement
<1>2. counter[p] \in Nat /\ Cardinality(Refs(p)) \in Nat
  BY RefsFinite DEF TypeOK
<1> QED
  BY <1>1, <1>2 DEF CountOK

\* one passes to another slot;
LEMMA CountPass ==
    ASSUME NEW p, CountOK(p), NEW g \in Refs(p), NEW h, h \notin Refs(p),
           Refs(p)' = (Refs(p) \ {g}) \cup {h}, counter'[p] = counter[p]
    PROVE  CountOK(p)'
<1>1. Cardinality(Refs(p) \ {g}) = Cardinality(Refs(p)) - 1 /\ IsFiniteSet(Refs(p) \ {g})
  BY RefsFinite, FS_RemoveElement
<1>2. Cardinality((Refs(p) \ {g}) \cup {h}) = Cardinality(Refs(p) \ {g}) + 1
  BY <1>1, FS_AddElement
<1>3. Cardinality(Refs(p)') = Cardinality(Refs(p))
  BY <1>1, <1>2, RefsFinite
<1> QED
  BY <1>3 DEF CountOK

\* the block is new;
LEMMA CountNew ==
    ASSUME NEW p, NEW s, Refs(p)' = {s}, counter'[p] = 1
    PROVE  CountOK(p)'
<1>1. Cardinality(Refs(p)') = 1
  BY FS_Singleton
<1> QED
  BY <1>1 DEF CountOK

\* a careless client overwrites one.
LEMMA CountLost ==
    ASSUME TypeOK, NEW p \in Proxies, CountOK(p), "copy_over" \in Careless,
           NEW s \in Refs(p), Refs(p)' = Refs(p) \ {s}, counter'[p] = counter[p]
    PROVE  CountOK(p)'
<1>1. Cardinality(Refs(p)') = Cardinality(Refs(p)) - 1
  BY RefsFinite, FS_RemoveElement
<1>2. counter[p] \in Nat /\ Cardinality(Refs(p)) \in Nat
  BY RefsFinite DEF TypeOK
<1> QED
  BY <1>1, <1>2 DEF CountOK
-----------------------------------------------------------------------------
(* The parts of the invariant that are about references *)

RefInv == /\ NoDangling /\ Releasing /\ DestroyedOnce /\ MembersOwned
          /\ \A p \in allocated : CountOK(p)

\* Connect and Create: an address comes into use, for one empty handle.
LEMMA NewHolder ==
    ASSUME IInv, NEW h \in Handles, NEW p \in Proxies, p \notin allocated, Empty(h),
           NEW t \in WrapperTypes \ {"foreign"},
           proxy' = [proxy EXCEPT ![h] = p], type' = [type EXCEPT ![h] = t],
           UNCHANGED stage,
           live' = live \cup {p}, allocated' = allocated \cup {p},
           counter' = [counter EXCEPT ![p] = 1]
    PROVE  RefInv'
<1>1. h \in Slots /\ h \notin Wrappers /\ p # None /\ Idle(h) /\ ~HasData(h)
  BY AddressAssumption DEF Slots, Empty, HasData
<1>2. Refs(p) = {} /\ \A s \in Slots : HasData(s) => proxy[s] # p
  BY Fresh
<1>3. /\ proxy'[h] = p /\ type'[h] = t /\ counter'[p] = 1
      /\ \A s \in Slots \ {h} : proxy'[s] = proxy[s] /\ type'[s] = type[s]
      /\ \A q \in Proxies \ {p} : counter'[q] = counter[q]
  BY <1>1 DEF IInv, TypeOK
<1>4. /\ HasData(h)'
      /\ \A s \in Slots \ {h} : HasData(s)' <=> HasData(s)
      /\ \A s \in Slots : Idle(s)' <=> Idle(s)
  BY <1>1, <1>3 DEF HasData, Idle
<1>5. NoDangling'
  BY <1>3, <1>4 DEF IInv, NoDangling
<1>6. Releasing'
  <2> SUFFICES ASSUME NEW s \in Slots, ~Idle(s)'
               PROVE  HasData(s)' /\ proxy'[s] \in allocated' /\ counter'[proxy'[s]] = 0
    BY DEF Releasing
  <2>1. s # h /\ ~Idle(s)
    BY <1>1, <1>4
  <2>2. HasData(s) /\ proxy[s] \in allocated /\ counter[proxy[s]] = 0
    BY <2>1 DEF IInv, Releasing
  <2>3. proxy[s] \in Proxies \ {p}
    BY <1>2, <2>2 DEF IInv, TypeOK
  <2> QED
    BY <1>3, <1>4, <2>1, <2>2, <2>3
<1>7. DestroyedOnce'
  BY <1>1, <1>3, <1>4 DEF IInv, DestroyedOnce
<1>8. MembersOwned'
  BY <1>1, <1>3 DEF IInv, MembersOwned, Slots
<1>9. ASSUME NEW q \in allocated' PROVE CountOK(q)'
  <2>1. CASE q = p
    <3>1. Refs(p)' = {h}
      BY <1>1, <1>2, <1>3, <1>4 DEF Refs, HasData
    <3> QED
      BY <1>3, <2>1, <3>1, CountNew
  <2>2. CASE q # p
    <3>1. q \in allocated /\ q \in Proxies /\ CountOK(q)
      BY <2>2 DEF IInv, TypeOK
    <3>2. q # None
      BY <3>1, AddressAssumption
    <3>3. Refs(q)' = Refs(q)
      BY <1>1, <1>3, <1>4, <2>2, <3>2 DEF Refs, HasData
    <3> QED
      BY <1>3, <2>2, <3>1, <3>3, CountSame
  <2> QED
    BY <2>1, <2>2
<1> QED
  BY <1>5, <1>6, <1>7, <1>8, <1>9 DEF RefInv

\* Release, Destruct and Unwrap: a slot gives up its reference.
LEMMA Decrementing ==
    ASSUME IInv, NEW s \in Slots, Idle(s), Decrement(s),
           UNCHANGED <<live, allocated>>,
           type' \in [Slots -> WrapperTypes],
           \A t \in Slots \ {s} : type'[t] = type[t],
           ~Idle(s)' => type'[s] = type[s]
    PROVE  /\ RefInv'
           /\ proxy' \in [Slots -> Proxies \cup {None}]
           /\ stage' \in [Slots -> Stages]
           /\ counter' \in [Proxies -> Nat]
<1>1. CASE ~HasData(s)
  <2>1. proxy' = [proxy EXCEPT ![s] = None] /\ UNCHANGED <<counter, stage>>
    BY <1>1 DEF Decrement, DecrementTo
  <2>2. /\ \A t \in Slots : HasData(t)' <=> HasData(t)
        /\ \A t \in Slots : Idle(t)' <=> Idle(t)
        /\ \A t \in Slots : HasData(t) => proxy'[t] = proxy[t] /\ type'[t] = type[t]
        /\ \A t \in Slots \ {s} : proxy'[t] = proxy[t] /\ type'[t] = type[t]
        /\ proxy'[s] = None
    BY <1>1, <2>1 DEF HasData, Idle, IInv, TypeOK
  <2>3. \A q \in Proxies : Refs(q)' = Refs(q)
    BY <2>2, AddressAssumption DEF Refs, HasData
  <2>4. NoDangling'
    BY <2>1, <2>2 DEF IInv, NoDangling
  <2>5. Releasing'
    BY <2>1, <2>2 DEF IInv, Releasing
  <2>6. DestroyedOnce'
    BY <2>1, <2>2 DEF IInv, DestroyedOnce, Releasing
  <2>7. MembersOwned'
    BY <2>2 DEF IInv, MembersOwned, Slots
  <2>8. \A q \in allocated' : CountOK(q)'
    BY <2>1, <2>3, CountSame DEF IInv, TypeOK
  <2> QED
    BY <2>1, <2>4, <2>5, <2>6, <2>7, <2>8 DEF IInv, TypeOK, RefInv
<1>2. CASE HasData(s)
  <2>0. PICK p \in Proxies : p = proxy[s]
    BY <1>2, Counting DEF IInv
  <2>1. /\ p \in Proxies /\ p \in live \cap allocated /\ s \in Refs(p)
        /\ counter[p] \in Nat /\ counter[p] >= 1 /\ p # None
    BY <1>2, <2>0, Counting, AddressAssumption DEF IInv
  <2>2. /\ counter' = [counter EXCEPT ![p] = @ - 1]
        /\ counter'[p] = counter[p] - 1
        /\ \A q \in Proxies \ {p} : counter'[q] = counter[q]
        /\ counter' \in [Proxies -> Nat]
    BY <1>2, <2>0, <2>1 DEF Decrement, DecrementTo, IInv, TypeOK
  <2>3. \A t \in Slots : ~Idle(t) => proxy[t] # p
    BY <2>1 DEF IInv, Releasing
  <2>4. CASE counter[p] = 1
    <3>1. stage' = [stage EXCEPT ![s] = "last"] /\ UNCHANGED proxy
      BY <1>2, <2>0, <2>4 DEF Decrement, DecrementTo
    <3>2. /\ stage'[s] = "last" /\ ~Idle(s)'
          /\ \A t \in Slots \ {s} : stage'[t] = stage[t] /\ (Idle(t)' <=> Idle(t))
          /\ stage' \in [Slots -> Stages]
      BY <3>1 DEF Idle, IInv, TypeOK, Stages
    <3>3. \A t \in Slots : type'[t] = type[t] /\ (HasData(t)' <=> HasData(t))
      BY <3>1, <3>2 DEF HasData
    <3>4. NoDangling'
      BY <1>2, <2>0, <2>1, <3>1, <3>2, <3>3 DEF IInv, NoDangling
    <3>5. Releasing'
      <4> SUFFICES ASSUME NEW t \in Slots, ~Idle(t)'
                   PROVE  HasData(t)' /\ proxy'[t] \in allocated' /\ counter'[proxy'[t]] = 0
        BY DEF Releasing
      <4>1. CASE t = s
        BY <1>2, <2>0, <2>1, <2>2, <2>4, <3>1, <3>3, <4>1
      <4>2. CASE t # s
        <5>1. ~Idle(t) /\ HasData(t) /\ proxy[t] \in allocated /\ counter[proxy[t]] = 0
          BY <3>2, <4>2 DEF IInv, Releasing
        <5>2. proxy[t] \in Proxies \ {p}
          BY <2>3, <5>1 DEF IInv, TypeOK
        <5> QED
          BY <2>2, <3>1, <3>3, <5>1, <5>2
      <4> QED
        BY <4>1, <4>2
    <3>6. DestroyedOnce'
      BY <2>0, <2>3, <3>1, <3>2 DEF IInv, DestroyedOnce
    <3>7. MembersOwned'
      BY <3>1 DEF IInv, MembersOwned
    <3>8. ASSUME NEW q \in allocated' PROVE CountOK(q)'
      <4>1. q \in Proxies /\ CountOK(q)
        BY DEF IInv, TypeOK
      <4>2. CASE q = p
        <5>1. Refs(p)' = Refs(p) \ {s}
          BY <2>0, <3>1, <3>2, <3>3 DEF Refs
        <5> QED
          BY <2>1, <2>2, <4>1, <4>2, <5>1, CountRemove DEF IInv
      <4>3. CASE q # p
        <5>1. Refs(q)' = Refs(q)
          BY <2>0, <3>1, <3>2, <3>3, <4>3 DEF Refs
        <5> QED
          BY <2>2, <4>1, <4>3, <5>1, CountSame
      <4> QED
        BY <4>2, <4>3
    <3> QED
      BY <2>2, <3>1, <3>2, <3>4, <3>5, <3>6, <3>7, <3>8 DEF IInv, TypeOK, RefInv
  <2>5. CASE counter[p] # 1
    <3>1. proxy' = [proxy EXCEPT ![s] = None] /\ UNCHANGED stage
      BY <1>2, <2>0, <2>5 DEF Decrement, DecrementTo
    <3>2. /\ proxy'[s] = None /\ ~HasData(s)'
          /\ \A t \in Slots : Idle(t)' <=> Idle(t)
          /\ \A t \in Slots \ {s} : /\ proxy'[t] = proxy[t] /\ type'[t] = type[t]
                                    /\ HasData(t)' <=> HasData(t)
      BY <3>1 DEF HasData, Idle, IInv, TypeOK
    <3>3. NoDangling'
      BY <3>1, <3>2 DEF IInv, NoDangling
    <3>4. Releasing'
      <4> SUFFICES ASSUME NEW t \in Slots, ~Idle(t)'
                   PROVE  HasData(t)' /\ proxy'[t] \in allocated' /\ counter'[proxy'[t]] = 0
        BY DEF Releasing
      <4>1. t # s /\ ~Idle(t) /\ HasData(t) /\ proxy[t] \in allocated /\ counter[proxy[t]] = 0
        BY <3>2 DEF IInv, Releasing
      <4>2. proxy[t] \in Proxies \ {p}
        BY <2>3, <4>1 DEF IInv, TypeOK
      <4> QED
        BY <2>2, <3>2, <4>1, <4>2
    <3>5. DestroyedOnce'
      <4> SUFFICES ASSUME NEW t \in Slots, NEW u \in Slots, ~Idle(t)', ~Idle(u)',
                          proxy'[t] = proxy'[u]
                   PROVE  t = u
        BY DEF DestroyedOnce
      <4>1. t # s /\ u # s /\ ~Idle(t) /\ ~Idle(u)
        BY <3>2
      <4> QED
        BY <3>2, <4>1 DEF IInv, DestroyedOnce
    <3>6. MembersOwned'
      BY <3>2 DEF IInv, MembersOwned, Slots
    <3>7. ASSUME NEW q \in allocated' PROVE CountOK(q)'
      <4>1. q \in Proxies /\ CountOK(q) /\ q # None
        BY AddressAssumption DEF IInv, TypeOK
      <4>2. CASE q = p
        <5>1. Refs(p)' = Refs(p) \ {s}
          BY <2>0, <2>1, <3>2 DEF Refs, HasData
        <5> QED
          BY <2>1, <2>2, <4>1, <4>2, <5>1, CountRemove DEF IInv
      <4>3. CASE q # p
        <5>1. Refs(q)' = Refs(q)
          BY <2>0, <3>2, <4>1, <4>3 DEF Refs
        <5> QED
          BY <2>2, <4>1, <4>3, <5>1, CountSame
      <4> QED
        BY <4>2, <4>3
    <3> QED
      BY <2>2, <3>1, <3>3, <3>4, <3>5, <3>6, <3>7 DEF IInv, TypeOK, RefInv
  <2> QED
    BY <2>4, <2>5
<1> QED
  BY <1>1, <1>2

\* proxy_create_wrapper(): an address comes into use for h, and its block's
\* member takes a further reference to what g holds.
LEMMA Wrapping ==
    ASSUME IInv, NEW g \in Handles, NEW h \in Handles, NEW w \in Wrappers,
           CreateWrapper(g, h, w)
    PROVE  RefInv'
<1>0. PICK p \in Proxies : p = proxy[g]
  BY DEF CreateWrapper, Wrap, HasData, IInv, TypeOK, Slots
<1>1. /\ g \in Slots /\ h \in Slots /\ w \in Slots /\ h # w /\ g # h /\ g # w
      /\ w \in Proxies /\ w # None /\ w \notin allocated /\ p # None
      /\ Idle(g) /\ Idle(h) /\ HasData(g) /\ proxy[h] = None
  BY <1>0, AddressAssumption
     DEF Slots, Proxies, CreateWrapper, Wrap, Empty, Full, HasData, Unused
<1>2. /\ p \in live \cap allocated /\ counter[p] \in Nat /\ counter[p] >= 1 /\ p # w
  BY <1>0, <1>1, Counting DEF IInv
<1>3. Refs(w) = {} /\ \A s \in Slots : HasData(s) => proxy[s] # w
  BY <1>1, Fresh
<1>4. proxy[w] = None /\ Idle(w)
  BY <1>1 DEF IInv, MembersOwned, Releasing, HasData
<1>5. /\ proxy' = [proxy EXCEPT ![h] = w, ![w] = p]
      /\ type' = [type EXCEPT ![h] = "proxy_wrapper", ![w] = type[g]]
      /\ counter' = [counter EXCEPT ![w] = 1, ![p] = @ + 1]
      /\ live' = live \cup {w} /\ allocated' = allocated \cup {w} /\ stage' = stage
  BY <1>0 DEF CreateWrapper, Wrap, NewData
<1>6. /\ proxy'[h] = w /\ proxy'[w] = p
      /\ type'[h] = "proxy_wrapper" /\ type'[w] = type[g]
      /\ \A s \in Slots \ {h, w} : proxy'[s] = proxy[s] /\ type'[s] = type[s]
      /\ counter'[w] = 1 /\ counter'[p] = counter[p] + 1
      /\ \A q \in Proxies \ {w, p} : counter'[q] = counter[q]
      /\ \A s \in Slots : Idle(s)' <=> Idle(s)
  BY <1>1, <1>2, <1>5 DEF IInv, TypeOK, Idle
<1>7. /\ HasData(h)' /\ HasData(w)'
      /\ \A s \in Slots \ {h, w} : HasData(s)' <=> HasData(s)
  BY <1>1, <1>6 DEF HasData
<1>8. NoDangling'
  <2> SUFFICES ASSUME NEW s \in Slots, HasData(s)', stage'[s] # "closed"
               PROVE  proxy'[s] \in live' \cap allocated'
    BY DEF NoDangling
  <2>1. stage'[s] = stage[s] /\ live \subseteq live' /\ allocated \subseteq allocated'
    BY <1>5
  <2>2. CASE s = h
    BY <1>5, <1>6, <2>2
  <2>3. CASE s = w
    BY <1>2, <1>6, <2>1, <2>3
  <2>4. CASE s # h /\ s # w
    <3>1. HasData(s) /\ proxy'[s] = proxy[s] /\ stage[s] # "closed"
      BY <1>6, <1>7, <2>1, <2>4
    <3> QED
      BY <2>1, <3>1 DEF IInv, NoDangling
  <2> QED
    BY <2>2, <2>3, <2>4
<1>9. Releasing'
  <2> SUFFICES ASSUME NEW s \in Slots, ~Idle(s)'
               PROVE  HasData(s)' /\ proxy'[s] \in allocated' /\ counter'[proxy'[s]] = 0
    BY DEF Releasing
  <2>1. s # h /\ s # w /\ ~Idle(s)
    BY <1>1, <1>4, <1>6
  <2>2. HasData(s) /\ proxy[s] \in allocated /\ counter[proxy[s]] = 0
    BY <2>1 DEF IInv, Releasing
  <2>3. proxy[s] \in Proxies \ {w, p}
    BY <1>1, <1>2, <2>2 DEF IInv, TypeOK
  <2>4. proxy'[s] = proxy[s] /\ HasData(s)' /\ counter'[proxy[s]] = counter[proxy[s]]
    BY <1>6, <1>7, <2>1, <2>2, <2>3
  <2>5. allocated \subseteq allocated'
    BY <1>5
  <2> QED
    BY <2>2, <2>4, <2>5
<1>10. DestroyedOnce'
  <2> SUFFICES ASSUME NEW t \in Slots, NEW u \in Slots, ~Idle(t)', ~Idle(u)',
                      proxy'[t] = proxy'[u]
               PROVE  t = u
    BY DEF DestroyedOnce
  <2>1. t \in Slots \ {h, w} /\ u \in Slots \ {h, w} /\ ~Idle(t) /\ ~Idle(u)
    BY <1>1, <1>4, <1>6
  <2> QED
    BY <1>6, <2>1 DEF IInv, DestroyedOnce
<1>11. MembersOwned'
  <2> SUFFICES ASSUME NEW v \in Wrappers, v \notin allocated' PROVE proxy'[v] = None
    BY DEF MembersOwned
  <2>1. v \in Slots \ {h, w} /\ v \notin allocated
    BY <1>5, AddressAssumption DEF Slots
  <2> QED
    BY <1>6, <2>1 DEF IInv, MembersOwned
<1>12. ASSUME NEW q \in allocated' PROVE CountOK(q)'
  <2>1. CASE q = w
    <3>1. Refs(w)' = {h}
      BY <1>1, <1>2, <1>3, <1>6, <1>7 DEF Refs, HasData
    <3> QED
      BY <1>6, <2>1, <3>1, CountNew
  <2>2. CASE q = p
    <3>1. Refs(p)' = Refs(p) \cup {w} /\ w \notin Refs(p)
      BY <1>1, <1>2, <1>4, <1>6, <1>7 DEF Refs, HasData
    <3>2. CountOK(p)
      BY <1>2 DEF IInv
    <3> QED
      BY <1>6, <2>2, <3>1, <3>2, CountAdd DEF IInv
  <2>3. CASE q # w /\ q # p
    <3>1. q \in Proxies /\ CountOK(q) /\ q # None
      BY <1>5, <2>3, AddressAssumption DEF IInv, TypeOK
    <3>2. Refs(q)' = Refs(q)
      BY <1>1, <1>4, <1>6, <1>7, <2>3, <3>1 DEF Refs, HasData
    <3> QED
      BY <1>6, <2>3, <3>1, <3>2, CountSame
  <2> QED
    BY <2>1, <2>2, <2>3
<1> QED
  BY <1>8, <1>9, <1>10, <1>11, <1>12 DEF RefInv

\* operator=(const proxy_t&): a further reference; a careless client loses the
\* one h held.
LEMMA Copying ==
    ASSUME IInv, NEW g \in Handles, NEW h \in Handles, Copy(g, h)
    PROVE  RefInv' /\ counter' \in [Proxies -> Nat]
<1>1. /\ g \in Slots /\ h \in Slots /\ g # h /\ Idle(g) /\ Idle(h) /\ h \notin Wrappers
      /\ allocated' = allocated /\ live' = live /\ stage' = stage
      /\ proxy[h] = None \/ "copy_over" \in Careless
  BY AddressAssumption DEF Slots, Copy, dataVars, wlVars
<1>2. /\ proxy'[h] = proxy[g] /\ type'[h] = type[g]
      /\ \A s \in Slots \ {h} : proxy'[s] = proxy[s] /\ type'[s] = type[s]
      /\ \A s \in Slots : Idle(s)' <=> Idle(s)
      /\ HasData(h)' <=> HasData(g)
      /\ \A s \in Slots \ {h} : HasData(s)' <=> HasData(s)
  BY <1>1 DEF Copy, IInv, TypeOK, Idle, HasData
<1>3. HasData(g) => /\ proxy[g] \in Proxies /\ proxy[g] \in live \cap allocated
                    /\ g \in Refs(proxy[g])
                    /\ counter[proxy[g]] \in Nat /\ counter[proxy[g]] >= 1
  BY <1>1, Counting DEF IInv
<1>4. /\ counter' \in [Proxies -> Nat]
      /\ \A q \in Proxies : HasData(g) /\ q = proxy[g] => counter'[q] = counter[q] + 1
      /\ \A q \in Proxies : ~HasData(g) \/ q # proxy[g] => counter'[q] = counter[q]
  BY <1>3 DEF Copy, IInv, TypeOK
<1>5. NoDangling'
  BY <1>1, <1>2, <1>3 DEF IInv, NoDangling
<1>6. Releasing'
  <2> SUFFICES ASSUME NEW s \in Slots, ~Idle(s)'
               PROVE  HasData(s)' /\ proxy'[s] \in allocated' /\ counter'[proxy'[s]] = 0
    BY DEF Releasing
  <2>1. s # h /\ ~Idle(s)
    BY <1>1, <1>2
  <2>2. HasData(s) /\ proxy[s] \in allocated /\ counter[proxy[s]] = 0
    BY <2>1 DEF IInv, Releasing
  <2>3. proxy[s] \in Proxies /\ (HasData(g) => proxy[s] # proxy[g])
    BY <1>3, <2>2 DEF IInv, TypeOK
  <2> QED
    BY <1>1, <1>2, <1>4, <2>1, <2>2, <2>3
<1>7. DestroyedOnce'
  <2> SUFFICES ASSUME NEW t \in Slots, NEW u \in Slots, ~Idle(t)', ~Idle(u)',
                      proxy'[t] = proxy'[u]
               PROVE  t = u
    BY DEF DestroyedOnce
  <2>1. t \in Slots \ {h} /\ u \in Slots \ {h} /\ ~Idle(t) /\ ~Idle(u)
    BY <1>1, <1>2
  <2> QED
    BY <1>2, <2>1 DEF IInv, DestroyedOnce
<1>8. MembersOwned'
  BY <1>1, <1>2 DEF IInv, MembersOwned, Slots
<1>9. ASSUME NEW q \in allocated' PROVE CountOK(q)'
  <2>1. q \in Proxies /\ CountOK(q) /\ q # None
    BY <1>1, AddressAssumption DEF IInv, TypeOK
  <2>2. CASE HasData(g) /\ q = proxy[g] /\ h \notin Refs(q)
    <3>1. Refs(q)' = Refs(q) \cup {h}
      BY <1>1, <1>2, <2>2 DEF Refs, HasData
    <3> QED
      BY <1>4, <2>1, <2>2, <3>1, CountAdd DEF IInv
  <2>3. CASE HasData(g) /\ q = proxy[g] /\ h \in Refs(q)
    <3>1. Refs(q)' = Refs(q) /\ "copy_over" \in Careless
      BY <1>1, <1>2, <2>1, <2>3 DEF Refs, HasData
    <3>2. Cardinality(Refs(q)) \in Nat /\ counter[q] \in Nat
      BY <2>1, RefsFinite DEF IInv, TypeOK
    <3> QED
      BY <1>4, <2>1, <2>3, <3>1, <3>2 DEF CountOK
  <2>4. CASE (~HasData(g) \/ q # proxy[g]) /\ h \notin Refs(q)
    <3>1. Refs(q)' = Refs(q)
      BY <1>1, <1>2, <2>1, <2>4 DEF Refs, HasData
    <3> QED
      BY <1>4, <2>1, <2>4, <3>1, CountSame
  <2>5. CASE (~HasData(g) \/ q # proxy[g]) /\ h \in Refs(q)
    <3>1. Refs(q)' = Refs(q) \ {h} /\ "copy_over" \in Careless
      BY <1>1, <1>2, <2>1, <2>5 DEF Refs, HasData
    <3> QED
      BY <1>4, <2>1, <2>5, <3>1, CountLost DEF IInv
  <2> QED
    BY <2>2, <2>3, <2>4, <2>5
<1> QED
  BY <1>4, <1>5, <1>6, <1>7, <1>8, <1>9 DEF RefInv

\* operator=(proxy_t&&): two handles are swapped.
LEMMA Moving ==
    ASSUME IInv, NEW g \in Handles, NEW h \in Handles, Move(g, h)
    PROVE  RefInv'
<1>1. /\ g \in Slots /\ h \in Slots /\ g # h /\ Idle(g) /\ Idle(h)
      /\ g \notin Wrappers /\ h \notin Wrappers
      /\ allocated' = allocated /\ live' = live /\ stage' = stage /\ counter' = counter
  BY AddressAssumption DEF Slots, Move, dataVars, wlVars
<1>2. /\ proxy'[h] = proxy[g] /\ type'[h] = type[g]
      /\ proxy'[g] = proxy[h] /\ type'[g] = type[h]
      /\ \A s \in Slots \ {g, h} : proxy'[s] = proxy[s] /\ type'[s] = type[s]
      /\ \A s \in Slots : Idle(s)' <=> Idle(s)
      /\ HasData(h)' <=> HasData(g)
      /\ HasData(g)' <=> HasData(h)
      /\ \A s \in Slots \ {g, h} : HasData(s)' <=> HasData(s)
  BY <1>1 DEF Move, IInv, TypeOK, Idle, HasData
<1>3. NoDangling'
  BY <1>1, <1>2 DEF IInv, NoDangling, Idle
<1>4. Releasing'
  BY <1>1, <1>2 DEF IInv, Releasing
<1>5. DestroyedOnce'
  <2> SUFFICES ASSUME NEW t \in Slots, NEW u \in Slots, ~Idle(t)', ~Idle(u)',
                      proxy'[t] = proxy'[u]
               PROVE  t = u
    BY DEF DestroyedOnce
  <2>1. t \in Slots \ {g, h} /\ u \in Slots \ {g, h} /\ ~Idle(t) /\ ~Idle(u)
    BY <1>1, <1>2
  <2> QED
    BY <1>2, <2>1 DEF IInv, DestroyedOnce
<1>6. MembersOwned'
  BY <1>1, <1>2 DEF IInv, MembersOwned, Slots
<1>7. ASSUME NEW q \in allocated' PROVE CountOK(q)'
  <2>1. q \in Proxies /\ CountOK(q)
    BY <1>1 DEF IInv, TypeOK
  <2>2. CASE g \in Refs(q) /\ h \notin Refs(q)
    <3>1. Refs(q)' = (Refs(q) \ {g}) \cup {h}
      BY <1>1, <1>2, <2>2 DEF Refs
    <3> QED
      BY <1>1, <2>1, <2>2, <3>1, CountPass
  <2>3. CASE g \notin Refs(q) /\ h \in Refs(q)
    <3>1. Refs(q)' = (Refs(q) \ {h}) \cup {g}
      BY <1>1, <1>2, <2>3 DEF Refs
    <3> QED
      BY <1>1, <2>1, <2>3, <3>1, CountPass
  <2>4. CASE g \in Refs(q) <=> h \in Refs(q)
    <3>1. Refs(q)' = Refs(q)
      BY <1>1, <1>2, <2>4 DEF Refs
    <3> QED
      BY <1>1, <2>1, <3>1, CountSame
  <2> QED
    BY <2>2, <2>3, <2>4
<1> QED
  BY <1>3, <1>4, <1>5, <1>6, <1>7 DEF RefInv

\* A slot that saw the counter reach 0 is the only one to name its object.
LEMMA Alone ==
    ASSUME IInv, NEW s \in Slots, ~Idle(s), NEW t \in Slots, HasData(t),
           proxy[t] = proxy[s]
    PROVE  t = s
<1>1. counter[proxy[s]] = 0
  BY DEF IInv, Releasing
<1>2. ~Idle(t)
  BY <1>1, Counting DEF IInv
<1> QED
  BY <1>2 DEF IInv, DestroyedOnce

\* The last slot destroys the wl_proxy.
LEMMA Closing ==
    ASSUME IInv, NEW s \in Slots, Close(s)
    PROVE  RefInv'
<1>1. /\ stage[s] = "last" /\ ~Idle(s) /\ proxy' = proxy /\ type' = type
      /\ allocated' = allocated /\ counter' = counter
      /\ live' = live \ {proxy[s]} /\ stage' = [stage EXCEPT ![s] = "closed"]
  BY DEF Close, dataVars, Idle
<1>2. /\ stage'[s] = "closed" /\ \A t \in Slots \ {s} : stage'[t] = stage[t]
      /\ \A t \in Slots : Idle(t)' <=> Idle(t)
      /\ \A t \in Slots : HasData(t)' <=> HasData(t)
  BY <1>1 DEF IInv, TypeOK, Idle, HasData
<1>3. NoDangling'
  <2> SUFFICES ASSUME NEW t \in Slots, HasData(t), stage'[t] # "closed"
               PROVE  proxy[t] \in live' /\ proxy[t] \in allocated
    BY <1>1, <1>2 DEF NoDangling
  <2>1. t # s /\ stage[t] # "closed"
    BY <1>2
  <2> QED
    BY <1>1, <2>1, Alone DEF IInv, NoDangling
<1>4. Releasing' /\ DestroyedOnce' /\ MembersOwned'
  BY <1>1, <1>2 DEF IInv, Releasing, DestroyedOnce, MembersOwned
<1>5. ASSUME NEW q \in allocated' PROVE CountOK(q)'
  <2>1. Refs(q)' = Refs(q)
    BY <1>1, <1>2 DEF Refs
  <2> QED
    BY <1>1, <2>1, CountSame DEF IInv
<1> QED
  BY <1>3, <1>4, <1>5 DEF RefInv

\* ... and frees the block.
LEMMA Freeing ==
    ASSUME IInv, NEW s \in Slots, Free(s)
    PROVE  RefInv' /\ type' \in [Slots -> WrapperTypes]
<1>1. /\ stage[s] = "closed" /\ ~Idle(s) /\ live' = live /\ counter' = counter
      /\ allocated' = allocated \ {proxy[s]}
      /\ proxy[s] \in Wrappers => Empty(proxy[s])
      /\ proxy' = [proxy EXCEPT ![s] = None] /\ stage' = [stage EXCEPT ![s] = "idle"]
  BY DEF Free, wlVars, Idle
<1>2. /\ type' \in [Slots -> WrapperTypes]
      /\ \A t \in Slots \ {s} : type'[t] = type[t]
  BY DEF Free, IInv, TypeOK, WrapperTypes
<1>3. /\ proxy'[s] = None /\ ~HasData(s)' /\ Idle(s)'
      /\ \A t \in Slots \ {s} : /\ proxy'[t] = proxy[t] /\ stage'[t] = stage[t]
                                /\ HasData(t)' <=> HasData(t)
                                /\ Idle(t)' <=> Idle(t)
  BY <1>1, <1>2 DEF IInv, TypeOK, Idle, HasData
<1>4. \A t \in Slots \ {s} : HasData(t) => proxy[t] # proxy[s]
  BY <1>1, Alone
<1>5. NoDangling'
  BY <1>1, <1>3, <1>4 DEF IInv, NoDangling
<1>6. Releasing'
  <2> SUFFICES ASSUME NEW t \in Slots, ~Idle(t)'
               PROVE  HasData(t)' /\ proxy'[t] \in allocated' /\ counter'[proxy'[t]] = 0
    BY DEF Releasing
  <2>1. t # s /\ ~Idle(t)
    BY <1>3
  <2> QED
    BY <1>1, <1>3, <1>4, <2>1 DEF IInv, Releasing
<1>7. DestroyedOnce'
  <2> SUFFICES ASSUME NEW t \in Slots, NEW u \in Slots, ~Idle(t)', ~Idle(u)',
                      proxy'[t] = proxy'[u]
               PROVE  t = u
    BY DEF DestroyedOnce
  <2>1. t \in Slots \ {s} /\ u \in Slots \ {s} /\ ~Idle(t) /\ ~Idle(u)
    BY <1>3
  <2> QED
    BY <1>3, <2>1 DEF IInv, DestroyedOnce
<1>8. MembersOwned'
  <2> SUFFICES ASSUME NEW w \in Wrappers, w \notin allocated' PROVE proxy'[w] = None
    BY DEF MembersOwned
  <2>1. w \in Slots /\ (w \notin allocated \/ w = proxy[s])
    BY <1>1 DEF Slots
  <2>2. w = s \/ proxy'[w] = proxy[w]
    BY <1>3, <2>1
  <2> QED
    BY <1>1, <1>3, <2>1, <2>2 DEF IInv, MembersOwned, Empty
<1>9. ASSUME NEW q \in allocated' PROVE CountOK(q)'
  <2>1. q \in allocated /\ q # None
    BY <1>1, AddressAssumption DEF IInv, TypeOK
  <2>2. Refs(q)' = Refs(q)
    BY <1>1, <1>2, <1>3, <2>1 DEF Refs, HasData
  <2> QED
    BY <1>1, <2>1, <2>2, CountSame DEF IInv
<1> QED
  BY <1>2, <1>5, <1>6, <1>7, <1>8, <1>9 DEF RefInv
-----------------------------------------------------------------------------
(* Every step preserves the invariant *)

\* A step that touches neither handles nor counters, and frees no wl_proxy that
\* has a block: event queues, and the other library's connection.
LEMMA Unaffected ==
    ASSUME IInv, UNCHANGED <<slotVars, allocated, counter>>,
           live \cap allocated \subseteq live'
    PROVE  RefInv'
<1>1. /\ proxy' = proxy /\ type' = type /\ stage' = stage
      /\ allocated' = allocated /\ counter' = counter
  BY DEF slotVars
<1>2. NoDangling'
  BY <1>1 DEF IInv, NoDangling, HasData
<1>3. Releasing' /\ DestroyedOnce' /\ MembersOwned'
  BY <1>1 DEF IInv, Releasing, DestroyedOnce, MembersOwned, Idle, HasData
<1>4. ASSUME NEW q \in allocated' PROVE CountOK(q)'
  <2>1. Refs(q)' = Refs(q)
    BY <1>1 DEF Refs, Idle
  <2> QED
    BY <1>1, <2>1, CountSame DEF IInv
<1> QED
  BY <1>2, <1>3, <1>4 DEF RefInv

\* A handle for the connection of another library counts nothing.
LEMMA WrappingForeign ==
    ASSUME IInv, NEW h \in Handles, WrapForeign(h)
    PROVE  RefInv'
<1>1. /\ h \in Slots /\ h \notin Wrappers /\ Idle(h) /\ ~HasData(h)
      /\ allocated' = allocated /\ live' = live /\ stage' = stage /\ counter' = counter
  BY AddressAssumption DEF Slots, WrapForeign, Empty, HasData, dataVars, wlVars
<1>2. /\ ~HasData(h)'
      /\ \A s \in Slots \ {h} : /\ proxy'[s] = proxy[s] /\ type'[s] = type[s]
                                /\ HasData(s)' <=> HasData(s)
      /\ \A s \in Slots : Idle(s)' <=> Idle(s)
  BY <1>1 DEF WrapForeign, IInv, TypeOK, HasData, Idle
<1>3. NoDangling'
  BY <1>1, <1>2 DEF IInv, NoDangling
<1>4. Releasing'
  BY <1>1, <1>2 DEF IInv, Releasing
<1>5. DestroyedOnce'
  BY <1>1, <1>2 DEF IInv, DestroyedOnce
<1>6. MembersOwned'
  BY <1>1, <1>2 DEF IInv, MembersOwned, Slots
<1>7. ASSUME NEW q \in allocated' PROVE CountOK(q)'
  <2>1. q \in allocated /\ q # None
    BY <1>1, AddressAssumption DEF IInv, TypeOK
  <2>2. Refs(q)' = Refs(q)
    BY <1>1, <1>2, <2>1 DEF Refs, HasData
  <2> QED
    BY <1>1, <2>1, <2>2, CountSame DEF IInv
<1> QED
  BY <1>3, <1>4, <1>5, <1>6, <1>7 DEF RefInv

\* Giving up an owner of a queue destroys no queue the client still holds.
LEMMA Dropping ==
    ASSUME TypeOK, NEW q, NEW p, Drop(q, p, held)
    PROVE  queues' \in SUBSET Queues /\ held \subseteq queues'
BY DEF Drop, TypeOK

\* The invariant holds initially.
LEMMA InitInv == Init => IInv
<1> SUFFICES ASSUME Init PROVE IInv
  OBVIOUS
<1>1. TypeOK
  BY AddressAssumption DEF Init, TypeOK, Slots, Proxies, WrapperTypes, Stages
<1>2. \A s \in Slots : proxy[s] = None /\ Idle(s)
  BY DEF Init, Idle
<1> QED
  BY <1>1, <1>2 DEF Init, IInv, NoDangling, Releasing, DestroyedOnce, MembersOwned,
                    ForeignOwned, HasData, Slots

LEMMA StepConnect ==
    ASSUME IInv, NEW h \in Handles, Connect(h)
    PROVE  IInv'
<1>1. Display \in Proxies /\ Display \notin allocated /\ Empty(h) /\ h \in Slots
  BY DEF Connect, Unused, Proxies, Slots
<1>2. RefInv'
  <2>1. "display" \in WrapperTypes \ {"foreign"}
    BY DEF WrapperTypes
  <2> QED
    BY <1>1, <2>1, NewHolder DEF Connect, NewData
<1>3. TypeOK'
  BY <1>1 DEF Connect, NewData, IInv, TypeOK, WrapperTypes, queueVars
<1>4. ForeignOwned'
  BY DEF Connect, Unused, IInv, ForeignOwned
<1> QED
  BY <1>2, <1>3, <1>4 DEF IInv, RefInv

LEMMA StepCreate ==
    ASSUME IInv, NEW g \in Handles, NEW h \in Handles, NEW o \in Objects, Create(g, h, o)
    PROVE  IInv'
<1>1. o \in Proxies /\ o \notin allocated /\ o # Display /\ Empty(h) /\ h \in Slots /\ g \in Slots
  BY AddressAssumption DEF Create, Unused, Proxies, Slots
<1>2. RefInv'
  <2>1. "standard" \in WrapperTypes \ {"foreign"}
    BY DEF WrapperTypes
  <2> QED
    BY <1>1, <2>1, NewHolder DEF Create, NewData
<1>3. TypeOK'
  <2>1. proxy[g] \in Proxies
    BY <1>1 DEF Create, Usable, Full, IInv, TypeOK
  <2> QED
    BY <1>1, <2>1 DEF Create, NewData, IInv, TypeOK, WrapperTypes, queueVars
<1>4. ForeignOwned'
  BY <1>1 DEF Create, NewData, IInv, ForeignOwned
<1> QED
  BY <1>2, <1>3, <1>4 DEF IInv, RefInv

LEMMA StepCreateWrapper ==
    ASSUME IInv, NEW g \in Handles, NEW h \in Handles, NEW w \in Wrappers,
           CreateWrapper(g, h, w)
    PROVE  IInv'
<1>1. /\ w \in Proxies /\ w \in Slots /\ w # Display /\ h \in Slots /\ g \in Slots
      /\ proxy[g] \in Proxies
  BY AddressAssumption
     DEF CreateWrapper, Wrap, Full, IInv, TypeOK, Proxies, Slots
<1>2. RefInv'
  BY Wrapping
<1>3. TypeOK'
  BY <1>1 DEF CreateWrapper, Wrap, NewData, IInv, TypeOK, WrapperTypes, queueVars
<1>4. ForeignOwned'
  BY <1>1 DEF CreateWrapper, Wrap, NewData, IInv, ForeignOwned
<1> QED
  BY <1>2, <1>3, <1>4 DEF IInv, RefInv

LEMMA StepDecrement ==
    ASSUME IInv, NEW s \in Slots,
           Unwrap(s) \/ Release(s) \/ Destruct(s)
    PROVE  IInv'
<1>1. /\ Idle(s) /\ Decrement(s)
      /\ UNCHANGED <<allocated, queue, has_destroy_opcode, wlVars, queueVars>>
  BY DEF Unwrap, Release, Destruct, Full
<1>2. type' \in [Slots -> WrapperTypes] /\ ending' \in SUBSET Slots
  BY DEF Unwrap, Release, Destruct, IInv, TypeOK, WrapperTypes
<1>3. \A t \in Slots \ {s} : type'[t] = type[t]
  BY DEF Unwrap, Release, Destruct, IInv, TypeOK
<1>4. ~Idle(s)' => type'[s] = type[s]
  BY DEF Unwrap, Release, Destruct, Idle
<1>5. UNCHANGED <<live, allocated>>
  BY <1>1 DEF wlVars
<1>6. /\ RefInv' /\ proxy' \in [Slots -> Proxies \cup {None}]
      /\ stage' \in [Slots -> Stages] /\ counter' \in [Proxies -> Nat]
  BY <1>1, <1>2, <1>3, <1>4, <1>5, Decrementing
<1>7. TypeOK' /\ ForeignOwned'
  BY <1>1, <1>2, <1>6 DEF IInv, TypeOK, ForeignOwned, wlVars, queueVars
<1> QED
  BY <1>6, <1>7 DEF IInv, RefInv

LEMMA StepCopyMove ==
    ASSUME IInv, NEW g \in Handles, NEW h \in Handles, Copy(g, h) \/ Move(g, h)
    PROVE  IInv'
<1>1. RefInv' /\ counter' \in [Proxies -> Nat]
  BY Copying, Moving DEF Move, dataVars, IInv, TypeOK
<1>2. g \in Slots /\ h \in Slots
  BY DEF Slots
<1>3. /\ proxy' \in [Slots -> Proxies \cup {None}] /\ type' \in [Slots -> WrapperTypes]
      /\ UNCHANGED <<stage, ending, allocated, queue, has_destroy_opcode, wlVars, queueVars>>
  BY <1>2 DEF Copy, Move, IInv, TypeOK, dataVars
<1>4. TypeOK' /\ ForeignOwned'
  BY <1>1, <1>3 DEF IInv, TypeOK, ForeignOwned, wlVars, queueVars
<1> QED
  BY <1>1, <1>4 DEF IInv, RefInv

LEMMA StepContinue ==
    ASSUME IInv, NEW s \in Slots, Continue(s)
    PROVE  IInv'
<1>1. CASE Close(s)
  <2>1. RefInv'
    BY <1>1, Closing
  <2>2. TypeOK'
    BY <1>1 DEF Close, IInv, TypeOK, Stages, dataVars, queueVars
  <2>3. proxy[s] \in allocated
    BY <1>1 DEF Close, IInv, Releasing, Idle
  <2>4. ForeignOwned'
    BY <1>1, <2>3 DEF Close, IInv, ForeignOwned, dataVars
  <2> QED
    BY <2>1, <2>2, <2>4 DEF IInv, RefInv
<1>2. CASE Free(s)
  <2>1. RefInv' /\ type' \in [Slots -> WrapperTypes]
    BY <1>2, Freeing
  <2>2. queues' \in SUBSET Queues /\ held \subseteq queues'
    BY <1>2, Dropping DEF Free, IInv
  <2>3. TypeOK'
    BY <1>2, <2>1, <2>2 DEF Free, IInv, TypeOK, Stages, wlVars
  <2>4. ForeignOwned'
    BY <1>2 DEF Free, IInv, ForeignOwned, wlVars
  <2> QED
    BY <2>1, <2>3, <2>4 DEF IInv, RefInv
<1> QED
  BY <1>1, <1>2 DEF Continue

LEMMA StepForeign ==
    ASSUME IInv,
           ForeignConnect \/ ForeignDisconnect \/ \E h \in Handles : WrapForeign(h)
    PROVE  IInv'
<1>0. Display \in Proxies
  BY DEF Proxies
<1>1. CASE ForeignConnect
  <2>1. RefInv'
    BY <1>1, Unaffected DEF ForeignConnect, dataVars
  <2> QED
    BY <1>0, <1>1, <2>1
       DEF ForeignConnect, IInv, RefInv, TypeOK, ForeignOwned, Unused, slotVars, dataVars, queueVars
<1>2. CASE ForeignDisconnect
  <2>1. Display \notin allocated
    BY <1>2 DEF ForeignDisconnect, IInv, ForeignOwned
  <2>2. RefInv'
    BY <1>2, <2>1, Unaffected DEF ForeignDisconnect, dataVars
  <2> QED
    BY <1>2, <2>2
       DEF ForeignDisconnect, IInv, RefInv, TypeOK, ForeignOwned, slotVars, dataVars, queueVars
<1>3. ASSUME NEW h \in Handles, WrapForeign(h) PROVE IInv'
  <2>1. RefInv'
    BY <1>3, WrappingForeign
  <2>2. TypeOK'
    BY <1>0, <1>3 DEF WrapForeign, IInv, TypeOK, WrapperTypes, dataVars, wlVars, queueVars
  <2>3. ForeignOwned'
    BY <1>3 DEF WrapForeign, IInv, ForeignOwned, dataVars, wlVars
  <2> QED
    BY <2>1, <2>2, <2>3 DEF IInv, RefInv
<1> QED
  BY <1>1, <1>2, <1>3

LEMMA StepQueues ==
    ASSUME IInv,
           \/ \E g \in Handles, q \in Queues : CreateQueue(g, q)
           \/ \E g \in Handles, q \in Queues \cup {None} : SetQueue(g, q)
           \/ \E q \in Queues : DropQueue(q)
    PROVE  IInv'
<1>1. ASSUME NEW g \in Handles, NEW q \in Queues, CreateQueue(g, q) PROVE IInv'
  <2>1. RefInv'
    BY <1>1, Unaffected DEF CreateQueue, dataVars, wlVars
  <2> QED
    BY <1>1, <2>1
       DEF CreateQueue, IInv, RefInv, TypeOK, ForeignOwned, slotVars, dataVars, wlVars
<1>2. ASSUME NEW g \in Handles, NEW q \in Queues \cup {None}, SetQueue(g, q) PROVE IInv'
  <2>1. RefInv'
    BY <1>2, Unaffected DEF SetQueue
  <2>2. queues' \in SUBSET Queues /\ held \subseteq queues'
    BY <1>2, Dropping DEF SetQueue, IInv
  <2> QED
    BY <1>2, <2>1, <2>2
       DEF SetQueue, IInv, RefInv, TypeOK, ForeignOwned, slotVars
<1>3. ASSUME NEW q \in Queues, DropQueue(q) PROVE IInv'
  <2>1. RefInv'
    BY <1>3, Unaffected DEF DropQueue, dataVars, wlVars
  <2>2. queues' \in SUBSET Queues /\ held' \subseteq queues'
    BY <1>3 DEF DropQueue, Drop, IInv, TypeOK
  <2> QED
    BY <1>3, <2>1, <2>2
       DEF DropQueue, IInv, RefInv, TypeOK, ForeignOwned, slotVars, dataVars, wlVars
<1> QED
  BY <1>1, <1>2, <1>3

\* Every step of Proxy preserves the invariant.
LEMMA Inductive == IInv /\ [Next]_vars => IInv'
<1> SUFFICES ASSUME IInv, [Next]_vars PROVE IInv'
  OBVIOUS
<1>1. CASE UNCHANGED vars
  <2>1. RefInv'
    BY <1>1, Unaffected DEF vars, dataVars, wlVars
  <2> QED
    BY <1>1, <2>1
       DEF vars, slotVars, dataVars, wlVars, queueVars, IInv, RefInv, TypeOK, ForeignOwned
<1>2. CASE Client(Handles)
  <2>1. Handles \subseteq Slots
    BY DEF Slots
  <2> QED
    BY <1>2, <2>1, StepConnect, StepForeign, StepDecrement, StepCopyMove, StepCreate,
       StepCreateWrapper, StepQueues DEF Client
<1>3. CASE \E q \in Queues : DropQueue(q)
  BY <1>3, StepQueues
<1>4. CASE \E s \in Slots : Continue(s)
  BY <1>4, StepContinue
<1>5. CASE \E w \in Wrappers : Unwrap(w)
  BY <1>5, StepDecrement DEF Slots
<1>6. CASE ForeignConnect \/ ForeignDisconnect
  BY <1>6, StepForeign
<1> QED
  BY <1>1, <1>2, <1>3, <1>4, <1>5, <1>6 DEF Next

\* The invariant always holds.
LEMMA Invariance == Spec => []IInv
BY InitInv, Inductive, PTL DEF Spec
-----------------------------------------------------------------------------
(* What it is for *)

\* Every variable of the client and of libwayland keeps its type; in
\* particular no counter is decremented below 0 (it is unsigned, so it would
\* wrap), and no event_queue_t names a queue that is gone.
THEOREM TypeCorrect == Spec => []TypeOK
<1>1. IInv => TypeOK
  BY DEF IInv
<1> QED
  BY <1>1, Invariance, PTL

\* Whatever threads do with their handles, the counter of a block is the number
\* of proxy_t that own a reference (a client that copies over objects excepted,
\* for which it is no less).
THEOREM CountedCorrect ==
    ASSUME "copy_over" \notin Careless
    PROVE  Spec => []Counted
<1>1. IInv => Counted
  BY DEF IInv, Counted, CountOK
<1> QED
  BY <1>1, Invariance, PTL

\* No handle and no wrapped_proxy outlives the wl_proxy or the block it points
\* to, whatever the other threads release (careless clients included: what they
\* lose are references, so objects leak, but none is destroyed early).
THEOREM NoDanglingCorrect == Spec => []NoDangling
<1>1. IInv => NoDangling
  BY DEF IInv
<1> QED
  BY <1>1, Invariance, PTL

\* No two threads destroy the same object.
THEOREM DestroyedOnceCorrect == Spec => []DestroyedOnce
<1>1. IInv => DestroyedOnce
  BY DEF IInv
<1> QED
  BY <1>1, Invariance, PTL

\* A connection of another library stays connected, and without a block, until
\* that library disconnects.
THEOREM ForeignUntouchedCorrect == Spec => ForeignUntouched
<1>1. ASSUME IInv', Next, foreign, ~ForeignDisconnect
      PROVE  Display \in live' /\ Display \notin allocated'
  <2>1. foreign' = foreign \/ foreign' = TRUE
    <3>1. CASE Client(Handles)
      <4>1. ASSUME NEW h, Connect(h) \/ WrapForeign(h) \/ Release(h) \/ Destruct(h)
            PROVE  foreign' = foreign
        BY <4>1 DEF Connect, WrapForeign, Release, Destruct, wlVars
      <4>2. ASSUME NEW h, NEW g, Copy(g, h) \/ Move(g, h)
            PROVE  foreign' = foreign
        BY <4>2 DEF Copy, Move, wlVars
      <4>3. ASSUME NEW h, NEW g, NEW p, Create(g, h, p) \/ CreateWrapper(g, h, p)
            PROVE  foreign' = foreign
        BY <4>3 DEF Create, CreateWrapper, Wrap
      <4>4. ASSUME NEW h, NEW q, CreateQueue(h, q) \/ SetQueue(h, q)
            PROVE  foreign' = foreign
        BY <4>4 DEF CreateQueue, SetQueue, wlVars
      <4> QED
        BY <3>1, <4>1, <4>2, <4>3, <4>4 DEF Client
    <3>2. CASE \E s \in Slots : Continue(s)
      BY <3>2 DEF Continue, Close, Free, wlVars
    <3>3. CASE \/ \E q \in Queues : DropQueue(q)
               \/ \E w \in Wrappers : Unwrap(w)
               \/ ForeignConnect
      BY <3>3 DEF DropQueue, Unwrap, ForeignConnect, wlVars
    <3> QED
      BY <1>1, <3>1, <3>2, <3>3 DEF Next
  <2> QED
    BY <1>1, <2>1 DEF IInv, ForeignOwned
<1>2. IInv' /\ [Next]_vars =>
        [foreign /\ ~ForeignDisconnect => Display \in live' /\ Display \notin allocated']_vars
  BY <1>1
<1> QED
  BY <1>2, Invariance, PTL DEF Spec, ForeignUntouched
-----------------------------------------------------------------------------
(* Queues and destroy requests: a second invariant on top of IInv           *)

\* The wrapper type tells the kind of object.
Kinds(p) == IF p = Display THEN {"display", "foreign"}
            ELSE IF p \in Objects THEN {"standard"} ELSE {"proxy_wrapper"}
Typed == \A s \in Slots : proxy[s] # None => type[s] \in Kinds(proxy[s])

\* A block keeps the queue libwayland puts its wl_proxy's events in, and the
\* queue exists; the display of another library has the default queue.
Queued == /\ \A p \in allocated : /\ p \in live => wlQueue[p] = queue[p]
                                  /\ queue[p] # None => queue[p] \in queues
          /\ foreign => wlQueue[Display] = None

\* What the compositor keeps has a wl_proxy, whose block, if there is one, knows
\* of the destroy request (R: but for those).
FlaggedBut(R) == /\ resource \subseteq live \cap Destroyable
                 /\ resource \cap allocated \subseteq has_destroy_opcode \cup R
Flagged == FlaggedBut({})

QueueInv == IInv /\ Typed /\ Queued
KeepInv  == QueueInv /\ Flagged

\* What a decrement does to the slots: only s, which was idle, changes.
LEMMA Released ==
    ASSUME TypeOK, NEW s \in Slots, Idle(s), Decrement(s)
    PROVE  /\ \A t \in Slots \ {s} : proxy'[t] = proxy[t] /\ stage'[t] = stage[t]
           /\ \/ proxy'[s] = None /\ stage'[s] = "idle"
              \/ proxy'[s] = proxy[s] /\ stage'[s] = "last" /\ HasData(s)
<1>1. /\ \/ proxy' = [proxy EXCEPT ![s] = None] /\ stage' = stage
         \/ proxy' = proxy /\ stage' = [stage EXCEPT ![s] = "last"] /\ HasData(s)
  BY DEF Decrement, DecrementTo
<1> QED
  BY <1>1 DEF TypeOK, Idle

\* Release, Destruct and Unwrap touch one slot, and nothing but slots and counters.
LEMMA ReleasedStep ==
    ASSUME TypeOK, NEW s \in Slots, Unwrap(s) \/ Release(s) \/ Destruct(s)
    PROVE  /\ Idle(s)
           /\ \A t \in Slots \ {s} : /\ proxy'[t] = proxy[t] /\ stage'[t] = stage[t]
                                     /\ type'[t] = type[t]
           /\ \/ proxy'[s] = None /\ stage'[s] = "idle"
              \/ proxy'[s] = proxy[s] /\ stage'[s] = "last" /\ HasData(s) /\ type'[s] = type[s]
           /\ UNCHANGED <<allocated, queue, has_destroy_opcode, wlVars, queueVars>>
<1>1. /\ Idle(s) /\ Decrement(s)
      /\ UNCHANGED <<allocated, queue, has_destroy_opcode, wlVars, queueVars>>
  BY DEF Unwrap, Release, Destruct, Full
<1>2. /\ \A t \in Slots \ {s} : type'[t] = type[t]
      /\ stage'[s] # "idle" => type'[s] = type[s]
  BY DEF Unwrap, Release, Destruct, TypeOK
<1>3. "last" # "idle"
  OBVIOUS
<1> QED
  BY <1>1, <1>2, <1>3, Released

\* What an operation of the client does to the slots; Wrappers' slots among them.
LEMMA SlotsOf ==
    ASSUME IInv, NEW g \in Handles, NEW h \in Handles, NEW p
    PROVE  /\ Create(g, h, p) /\ p \in Objects =>
                 /\ proxy'[h] = p /\ type'[h] = "standard"
                 /\ \A s \in Slots \ {h} : proxy'[s] = proxy[s] /\ type'[s] = type[s]
           /\ CreateWrapper(g, h, p) /\ p \in Wrappers =>
                 /\ proxy'[h] = p /\ type'[h] = "proxy_wrapper"
                 /\ proxy'[p] = proxy[g] /\ type'[p] = type[g]
                 /\ \A s \in Slots \ {h, p} : proxy'[s] = proxy[s] /\ type'[s] = type[s]
           /\ Copy(g, h) =>
                 /\ proxy'[h] = proxy[g] /\ type'[h] = type[g]
                 /\ \A s \in Slots \ {h} : proxy'[s] = proxy[s] /\ type'[s] = type[s]
           /\ Move(g, h) =>
                 /\ proxy'[h] = proxy[g] /\ type'[h] = type[g]
                 /\ proxy'[g] = proxy[h] /\ type'[g] = type[h]
                 /\ \A s \in Slots \ {g, h} : proxy'[s] = proxy[s] /\ type'[s] = type[s]
           /\ Connect(h) =>
                 /\ proxy'[h] = Display /\ type'[h] = "display"
                 /\ \A s \in Slots \ {h} : proxy'[s] = proxy[s] /\ type'[s] = type[s]
           /\ WrapForeign(h) =>
                 /\ proxy'[h] = Display /\ type'[h] = "foreign"
                 /\ \A s \in Slots \ {h} : proxy'[s] = proxy[s] /\ type'[s] = type[s]
<1>1. g \in Slots /\ h \in Slots /\ (p \in Wrappers => p \in Slots /\ p # h)
  BY AddressAssumption DEF Slots
<1>2. /\ proxy \in [Slots -> Proxies \cup {None}]
      /\ type \in [Slots -> WrapperTypes]
  BY DEF IInv, TypeOK
<1>3. Create(g, h, p) => proxy' = [proxy EXCEPT ![h] = p] /\ type' = [type EXCEPT ![h] = "standard"]
  BY DEF Create
<1>4. CreateWrapper(g, h, p) => /\ proxy' = [proxy EXCEPT ![h] = p, ![p] = proxy[g]]
                                /\ type' = [type EXCEPT ![h] = "proxy_wrapper", ![p] = type[g]]
  BY DEF CreateWrapper, Wrap
<1>5. Copy(g, h) => proxy' = [proxy EXCEPT ![h] = proxy[g]] /\ type' = [type EXCEPT ![h] = type[g]]
  BY DEF Copy
<1>6. Move(g, h) => /\ proxy' = [proxy EXCEPT ![g] = proxy[h], ![h] = proxy[g]]
                    /\ type' = [type EXCEPT ![g] = type[h], ![h] = type[g]] /\ g # h
  BY DEF Move
<1>7. Connect(h) => proxy' = [proxy EXCEPT ![h] = Display] /\ type' = [type EXCEPT ![h] = "display"]
  BY DEF Connect
<1>8. WrapForeign(h) => proxy' = [proxy EXCEPT ![h] = Display] /\ type' = [type EXCEPT ![h] = "foreign"]
  BY DEF WrapForeign
<1> QED
  BY <1>1, <1>2, <1>3, <1>4, <1>5, <1>6, <1>7, <1>8

\* The slots stay as they are in the steps of queues and of the other library.
LEMMA SlotsStay ==
    ASSUME \/ \E g \in Handles, q \in Queues : CreateQueue(g, q)
           \/ \E g \in Handles, q \in Queues \cup {None} : SetQueue(g, q)
           \/ \E q \in Queues : DropQueue(q)
           \/ ForeignConnect \/ ForeignDisconnect \/ UNCHANGED vars
    PROVE  proxy' = proxy /\ type' = type /\ stage' = stage
BY DEF CreateQueue, SetQueue, DropQueue, ForeignConnect, ForeignDisconnect, vars, slotVars

\* Going on with a release empties one slot at most.
LEMMA SlotsContinued ==
    ASSUME IInv, NEW s \in Slots, Continue(s)
    PROVE  /\ ~Idle(s)
           /\ \A t \in Slots \ {s} : /\ proxy'[t] = proxy[t] /\ type'[t] = type[t]
                                     /\ stage'[t] = stage[t]
           /\ \/ /\ Close(s) /\ proxy'[s] = proxy[s] /\ type'[s] = type[s]
                 /\ stage'[s] = "closed"
              \/ Free(s) /\ proxy'[s] = None /\ stage'[s] = "idle"
<1>1. /\ stage \in [Slots -> Stages] /\ proxy \in [Slots -> Proxies \cup {None}]
      /\ type \in [Slots -> WrapperTypes]
  BY DEF IInv, TypeOK
<1>2. CASE Close(s)
  BY <1>1, <1>2 DEF Close, Idle
<1>3. CASE Free(s)
  BY <1>1, <1>3 DEF Free, Idle
<1> QED
  BY <1>2, <1>3 DEF Continue

\* Handles and members have the type of what they point to.
LEMMA TypedStep ==
    ASSUME IInv, Typed, [Next]_vars
    PROVE  Typed'
<1>0. /\ \A o \in Objects : Kinds(o) = {"standard"} /\ o # None
      /\ \A w \in Wrappers : Kinds(w) = {"proxy_wrapper"} /\ w # None
      /\ Kinds(Display) = {"display", "foreign"}
      /\ Handles \subseteq Slots /\ Wrappers \subseteq Slots
  BY AddressAssumption DEF Kinds, Slots, Proxies
<1>1. ASSUME \A s \in Slots : proxy'[s] # None => type'[s] \in Kinds(proxy'[s])
      PROVE  Typed'
  BY <1>1 DEF Typed, Kinds
<1>2. CASE Client(Handles)
  <2>1. ASSUME NEW h \in Handles, Connect(h) \/ WrapForeign(h) PROVE Typed'
    BY <1>0, <1>1, <2>1, SlotsOf DEF Typed
  <2>2. ASSUME NEW h \in Handles, Release(h) \/ Destruct(h) PROVE Typed'
    <3>1. h \in Slots /\ TypeOK
      BY <1>0 DEF IInv
    <3> QED
      BY <1>1, <2>2, <3>1, ReleasedStep DEF Typed
  <2>3. ASSUME NEW g \in Handles, NEW h \in Handles, Copy(g, h) \/ Move(g, h) PROVE Typed'
    BY <1>0, <1>1, <2>3, SlotsOf DEF Typed
  <2>4. ASSUME NEW g \in Handles, NEW h \in Handles, NEW o \in Objects, Create(g, h, o)
        PROVE  Typed'
    BY <1>0, <1>1, <2>4, SlotsOf DEF Typed
  <2>5. ASSUME NEW g \in Handles, NEW h \in Handles, NEW w \in Wrappers, CreateWrapper(g, h, w)
        PROVE  Typed'
    BY <1>0, <1>1, <2>5, SlotsOf DEF Typed
  <2>6. ASSUME NEW h \in Handles,
               \/ \E q \in Queues : CreateQueue(h, q)
               \/ \E q \in Queues \cup {None} : SetQueue(h, q)
        PROVE  Typed'
    BY <1>1, <2>6, SlotsStay DEF Typed
  <2> QED
    BY <1>2, <2>1, <2>2, <2>3, <2>4, <2>5, <2>6 DEF Client
<1>3. CASE \E s \in Slots : Continue(s)
  BY <1>1, <1>3, SlotsContinued DEF Typed
<1>4. CASE \E w \in Wrappers : Unwrap(w)
  BY <1>0, <1>1, <1>4, ReleasedStep DEF Typed, IInv
<1>5. CASE (\E q \in Queues : DropQueue(q)) \/ ForeignConnect \/ ForeignDisconnect \/ UNCHANGED vars
  BY <1>1, <1>5, SlotsStay DEF Typed
<1> QED
  BY <1>2, <1>3, <1>4, <1>5 DEF Next

\* A handle that can be used is on a queue that exists; its block knows which.
LEMMA ParentQueue ==
    ASSUME QueueInv, NEW g \in Handles, Usable(g) \/ (Full(g) /\ HasData(g))
    PROVE  LET q == IF HasData(g) THEN queue[proxy[g]] ELSE None IN
           wlQueue[proxy[g]] = q /\ (q # None => q \in queues)
<1>1. g \in Slots /\ Idle(g) /\ proxy[g] # None
  BY DEF Slots, Usable, Full
<1>2. CASE HasData(g)
  <2>1. proxy[g] \in live \cap allocated
    BY <1>1, <1>2 DEF QueueInv, IInv, NoDangling, Idle
  <2> QED
    BY <1>2, <2>1 DEF QueueInv, Queued
<1>3. CASE ~HasData(g)
  <2>1. type[g] = "foreign" /\ foreign
    BY <1>1, <1>3 DEF HasData, Usable
  <2>2. proxy[g] = Display
    BY <1>1, <2>1 DEF QueueInv, Typed, Kinds
  <2> QED
    BY <1>3, <2>1, <2>2 DEF QueueInv, Queued
<1> QED
  BY <1>2, <1>3

\* A new block gets the queue of its wl_proxy.
LEMMA QueuedNew ==
    ASSUME QueueInv, NEW p \in Proxies, NEW q \in Queues \cup {None}, NEW d,
           NewData(p, q, d), wlQueue' = [wlQueue EXCEPT ![p] = q],
           live' = live \cup {p}, q # None => q \in queues,
           queues' = queues, foreign' = foreign, foreign => p # Display
    PROVE  Queued'
<1>1. /\ queue'[p] = q /\ wlQueue'[p] = q
      /\ \A r \in Proxies \ {p} : queue'[r] = queue[r] /\ wlQueue'[r] = wlQueue[r]
      /\ allocated' = allocated \cup {p} /\ allocated \subseteq Proxies
  BY DEF NewData, QueueInv, IInv, TypeOK
<1>2. foreign' => wlQueue'[Display] = None
  BY <1>1 DEF QueueInv, Queued, Proxies
<1>3. ASSUME NEW r \in allocated'
      PROVE  /\ r \in live' => wlQueue'[r] = queue'[r]
             /\ queue'[r] # None => queue'[r] \in queues'
  BY <1>1 DEF QueueInv, Queued
<1> QED
  BY <1>2, <1>3 DEF Queued

\* Giving up one owner of a queue leaves the queue to the others.
LEMMA QueuedDrop ==
    ASSUME QueueInv, NEW p, NEW q, Drop(q, p, held),
           NEW r \in allocated \ {p}, queue[r] # None
    PROVE  queue[r] \in queues'
BY DEF Drop, QueueInv, Queued

\* Steps that change neither the queues nor what is on them.
LEMMA QueuedStay ==
    ASSUME Queued, UNCHANGED <<queue, wlQueue>>, queues \subseteq queues',
           allocated' \subseteq allocated, live' \cap allocated \subseteq live,
           foreign' => foreign
    PROVE  Queued'
BY DEF Queued

LEMMA QueuedStep ==
    ASSUME QueueInv, [Next]_vars
    PROVE  Queued'
<1>1. ASSUME NEW h \in Handles, Connect(h) PROVE Queued'
  <2>1. /\ NewData(Display, None, FALSE) /\ wlQueue' = [wlQueue EXCEPT ![Display] = None]
        /\ live' = live \cup {Display} /\ queues' = queues /\ foreign' = foreign
        /\ Display \in Proxies /\ Display \notin live
    BY <1>1 DEF Connect, queueVars, Proxies, Unused
  <2>2. ~foreign
    BY <2>1 DEF QueueInv, IInv, ForeignOwned
  <2> QED
    BY <2>1, <2>2, QueuedNew
<1>2. ASSUME NEW g \in Handles, NEW h \in Handles, NEW o \in Objects, Create(g, h, o)
      PROVE  Queued'
  <2>0. PICK q : q = IF HasData(g) THEN queue[proxy[g]] ELSE None
    OBVIOUS
  <2>1. Usable(g)
    BY <1>2 DEF Create
  <2>2. wlQueue[proxy[g]] = q /\ (q # None => q \in queues)
    BY <2>0, <2>1, ParentQueue
  <2>3. q \in Queues \cup {None}
    BY <2>2 DEF QueueInv, IInv, TypeOK
  <2>4. NewData(o, q, o \in Destroyable)
    BY <1>2, <2>0 DEF Create
  <2>5. /\ wlQueue' = [wlQueue EXCEPT ![o] = q]
        /\ live' = live \cup {o} /\ queues' = queues /\ foreign' = foreign
        /\ o \in Proxies /\ o # Display
    BY <1>2, <2>2, AddressAssumption DEF Create, queueVars, Proxies
  <2> QED
    BY <2>2, <2>3, <2>4, <2>5, QueuedNew
<1>3. ASSUME NEW g \in Handles, NEW h \in Handles, NEW w \in Wrappers, CreateWrapper(g, h, w)
      PROVE  Queued'
  <2>0. PICK q : q = queue[proxy[g]]
    OBVIOUS
  <2>1. Full(g) /\ HasData(g)
    BY <1>3 DEF CreateWrapper, Wrap
  <2>2. wlQueue[proxy[g]] = q /\ (q # None => q \in queues)
    BY <2>0, <2>1, ParentQueue
  <2>3. q \in Queues \cup {None}
    BY <2>2 DEF QueueInv, IInv, TypeOK
  <2>4. NewData(w, q, FALSE)
    BY <1>3, <2>0 DEF CreateWrapper, Wrap
  <2>5. /\ wlQueue' = [wlQueue EXCEPT ![w] = q]
        /\ live' = live \cup {w} /\ queues' = queues /\ foreign' = foreign
        /\ w \in Proxies /\ w # Display
    BY <1>3, <2>2, AddressAssumption DEF CreateWrapper, Wrap, queueVars, Proxies
  <2> QED
    BY <2>2, <2>3, <2>4, <2>5, QueuedNew
<1>4. ASSUME NEW g \in Handles, NEW q \in Queues \cup {None}, SetQueue(g, q) PROVE Queued'
  <2>0. PICK p : p = proxy[g]
    OBVIOUS
  <2>1. Full(g) /\ HasData(g) /\ g \in Slots
    BY <1>4 DEF SetQueue, Slots
  <2>2. p \in live \cap allocated /\ p \in Proxies
    BY <2>0, <2>1 DEF Full, QueueInv, IInv, NoDangling, Idle, TypeOK
  <2>3. /\ wlQueue' = [wlQueue EXCEPT ![p] = q] /\ queue' = [queue EXCEPT ![p] = q]
        /\ Drop(queue[p], p, held) /\ q \in held \cup {None}
        /\ allocated' = allocated /\ live' = live /\ foreign' = foreign
    BY <1>4, <2>0 DEF SetQueue
  <2>4. /\ queue'[p] = q /\ wlQueue'[p] = q
        /\ \A r \in Proxies \ {p} : queue'[r] = queue[r] /\ wlQueue'[r] = wlQueue[r]
        /\ allocated \subseteq Proxies
    BY <2>2, <2>3 DEF QueueInv, IInv, TypeOK
  <2>5. held \subseteq queues'
    BY <2>3, Dropping DEF QueueInv, IInv
  <2>6. ASSUME NEW r \in allocated'
        PROVE  /\ r \in live' => wlQueue'[r] = queue'[r]
               /\ queue'[r] # None => queue'[r] \in queues'
    <3>1. CASE r = p
      BY <2>3, <2>4, <2>5, <3>1
    <3>2. CASE r # p
      BY <2>3, <2>4, <3>2, QueuedDrop DEF QueueInv, Queued
    <3> QED
      BY <3>1, <3>2
  <2>7. foreign' => wlQueue'[Display] = None
    <3>1. foreign => Display # p /\ Display \in Proxies
      BY <2>2 DEF QueueInv, IInv, ForeignOwned, Proxies
    <3> QED
      BY <2>3, <2>4, <3>1 DEF QueueInv, Queued
  <2> QED
    BY <2>6, <2>7 DEF Queued
<1>5. ASSUME NEW q \in Queues, DropQueue(q) PROVE Queued'
  <2>1. Drop(q, None, {}) /\ UNCHANGED <<slotVars, dataVars, wlVars>>
    BY <1>5 DEF DropQueue
  <2>2. None \notin allocated
    BY AddressAssumption DEF QueueInv, IInv, TypeOK
  <2>3. \A r \in allocated : queue[r] # None => queue[r] \in queues'
    BY <2>1, <2>2 DEF Drop, QueueInv, Queued
  <2> QED
    BY <2>1, <2>3 DEF dataVars, wlVars, QueueInv, Queued
<1>6. ASSUME NEW s \in Slots, Free(s) PROVE Queued'
  <2>0. PICK p : p = proxy[s]
    OBVIOUS
  <2>1. /\ Drop(queue[p], p, held) /\ allocated' = allocated \ {p}
        /\ UNCHANGED <<queue, wlVars>>
    BY <1>6, <2>0 DEF Free
  <2>2. \A r \in allocated \ {p} : queue[r] # None => queue[r] \in queues'
    BY <2>1, QueuedDrop
  <2> QED
    BY <2>1, <2>2 DEF wlVars, QueueInv, Queued
<1>7. ASSUME NEW s \in Slots, Close(s) PROVE Queued'
  BY <1>7, QueuedStay DEF Close, dataVars, queueVars, QueueInv
<1>8. ASSUME NEW h \in Handles,
             \/ WrapForeign(h) \/ Release(h) \/ Destruct(h)
             \/ \E g \in Handles : Copy(g, h) \/ Move(g, h)
             \/ \E q \in Queues : CreateQueue(h, q)
      PROVE  Queued'
  <2>1. /\ UNCHANGED <<queue, wlQueue, allocated, live, foreign>>
        /\ queues \subseteq queues'
    <3>1. ASSUME WrapForeign(h) \/ Release(h) \/ Destruct(h)
          PROVE  UNCHANGED <<queue, wlQueue, allocated, live, foreign, queues>>
      BY <3>1 DEF WrapForeign, Release, Destruct, dataVars, wlVars, queueVars
    <3>2. ASSUME NEW g, Copy(g, h) \/ Move(g, h)
          PROVE  UNCHANGED <<queue, wlQueue, allocated, live, foreign, queues>>
      BY <3>2 DEF Copy, Move, dataVars, wlVars, queueVars
    <3>3. ASSUME NEW q, CreateQueue(h, q)
          PROVE  UNCHANGED <<queue, wlQueue, allocated, live, foreign>> /\ queues \subseteq queues'
      BY <3>3 DEF CreateQueue, dataVars, wlVars
    <3> QED
      BY <1>8, <3>1, <3>2, <3>3
  <2> QED
    BY <2>1, QueuedStay DEF QueueInv
<1>9. ASSUME NEW w \in Wrappers, Unwrap(w) PROVE Queued'
  BY <1>9, QueuedStay DEF Unwrap, wlVars, queueVars, QueueInv
<1>10. CASE ForeignConnect
  <2>1. /\ Display \notin live \cup allocated /\ Display \in Proxies
        /\ live' = live \cup {Display}
        /\ wlQueue' = [wlQueue EXCEPT ![Display] = None]
        /\ UNCHANGED <<allocated, queue, queues>>
    BY <1>10 DEF ForeignConnect, Unused, dataVars, queueVars, Proxies
  <2>2. /\ \A r \in allocated : wlQueue'[r] = wlQueue[r] /\ r # Display
        /\ wlQueue'[Display] = None
    BY <2>1 DEF QueueInv, IInv, TypeOK
  <2> QED
    BY <2>1, <2>2 DEF QueueInv, Queued
<1>11. CASE ForeignDisconnect
  BY <1>11, QueuedStay DEF ForeignDisconnect, dataVars, queueVars, QueueInv
<1>12. CASE UNCHANGED vars
  BY <1>12, QueuedStay DEF vars, dataVars, wlVars, queueVars, QueueInv
<1>13. CASE Client(Handles)
  BY <1>13, <1>1, <1>2, <1>3, <1>4, <1>8 DEF Client
<1> QED
  BY <1>5, <1>6, <1>7, <1>9, <1>10, <1>11, <1>12, <1>13 DEF Next, Continue

\* Steps that forget no destroy request and destroy no wl_proxy.
LEMMA FlaggedStay ==
    ASSUME NEW R, FlaggedBut(R), UNCHANGED <<resource, has_destroy_opcode>>,
           live \cap Objects \subseteq live', allocated' \subseteq allocated
    PROVE  FlaggedBut(R)'
BY AddressAssumption DEF FlaggedBut

LEMMA FlaggedStep ==
    ASSUME IInv, Typed, NEW R, FlaggedBut(R), [Next]_vars,
           \A s \in Slots : Close(s) => proxy[s] \notin R
    PROVE  FlaggedBut(R)'
<1>0. Display \notin Objects /\ Destroyable \subseteq Objects
  BY AddressAssumption
<1>1. ASSUME NEW h \in Handles, Connect(h) PROVE FlaggedBut(R)'
  BY <1>0, <1>1 DEF Connect, NewData, FlaggedBut
<1>2. ASSUME NEW g \in Handles, NEW h \in Handles, NEW o \in Objects, Create(g, h, o)
      PROVE  FlaggedBut(R)'
  <2>1. o \notin resource
    BY <1>2 DEF Create, Unused, FlaggedBut
  <2>2. /\ live' = live \cup {o} /\ allocated' = allocated \cup {o}
        /\ has_destroy_opcode' = IF o \in Destroyable THEN has_destroy_opcode \cup {o}
                                 ELSE has_destroy_opcode \ {o}
        /\ resource' = IF o \in Destroyable THEN resource \cup {o} ELSE resource
    BY <1>2 DEF Create, NewData
  <2> QED
    BY <2>1, <2>2 DEF FlaggedBut
<1>3. ASSUME NEW g \in Handles, NEW h \in Handles, NEW w \in Wrappers, CreateWrapper(g, h, w)
      PROVE  FlaggedBut(R)'
  <2>1. w \notin resource
    BY <1>0, AddressAssumption DEF FlaggedBut
  <2>2. /\ live' = live \cup {w} /\ allocated' = allocated \cup {w}
        /\ has_destroy_opcode' = has_destroy_opcode \ {w} /\ resource' = resource
    BY <1>3 DEF CreateWrapper, Wrap, NewData
  <2> QED
    BY <2>1, <2>2 DEF FlaggedBut
<1>4. ASSUME NEW s \in Slots, Close(s) PROVE FlaggedBut(R)'
  <2>1. /\ live' = live \ {proxy[s]}
        /\ resource' = IF type[s] = "standard" /\ proxy[s] \in has_destroy_opcode
                       THEN resource \ {proxy[s]} ELSE resource
        /\ UNCHANGED <<allocated, has_destroy_opcode>>
    BY <1>4 DEF Close, dataVars
  <2>2. HasData(s) /\ proxy[s] \in allocated
    BY <1>4 DEF Close, Idle, IInv, Releasing
  <2>3. proxy[s] \in resource /\ proxy[s] \notin R => type[s] = "standard" /\ proxy[s] \in has_destroy_opcode
    BY <1>0, <2>2 DEF FlaggedBut, Typed, Kinds, HasData
  <2> QED
    BY <1>4, <2>1, <2>3 DEF FlaggedBut
<1>5. ASSUME NEW s \in Slots, Free(s) PROVE FlaggedBut(R)'
  BY <1>5, FlaggedStay DEF Free, wlVars
<1>6. ASSUME NEW h \in Handles,
             \/ WrapForeign(h) \/ Release(h) \/ Destruct(h)
             \/ \E g \in Handles : Copy(g, h) \/ Move(g, h)
             \/ \E q \in Queues : CreateQueue(h, q)
             \/ \E q \in Queues \cup {None} : SetQueue(h, q)
      PROVE  FlaggedBut(R)'
  <2>1. UNCHANGED <<resource, has_destroy_opcode, live, allocated>>
    <3>1. ASSUME WrapForeign(h) \/ Release(h) \/ Destruct(h)
          PROVE  UNCHANGED <<resource, has_destroy_opcode, live, allocated>>
      BY <3>1 DEF WrapForeign, Release, Destruct, dataVars, wlVars
    <3>2. ASSUME NEW g, Copy(g, h) \/ Move(g, h)
          PROVE  UNCHANGED <<resource, has_destroy_opcode, live, allocated>>
      BY <3>2 DEF Copy, Move, dataVars, wlVars
    <3>3. ASSUME NEW q, CreateQueue(h, q) \/ SetQueue(h, q)
          PROVE  UNCHANGED <<resource, has_destroy_opcode, live, allocated>>
      BY <3>3 DEF CreateQueue, SetQueue, dataVars, wlVars
    <3> QED
      BY <1>6, <3>1, <3>2, <3>3
  <2> QED
    BY <2>1, FlaggedStay
<1>7. CASE (\E q \in Queues : DropQueue(q)) \/ (\E w \in Wrappers : Unwrap(w)) \/ UNCHANGED vars
  <2>1. UNCHANGED <<resource, has_destroy_opcode, live, allocated>>
    BY <1>7 DEF DropQueue, Unwrap, vars, dataVars, wlVars
  <2> QED
    BY <2>1, FlaggedStay
<1>8. CASE ForeignConnect \/ ForeignDisconnect
  <2>1. /\ UNCHANGED <<resource, has_destroy_opcode, allocated>>
        /\ live' = live \cup {Display} \/ live' = live \ {Display}
    BY <1>8 DEF ForeignConnect, ForeignDisconnect, dataVars
  <2> QED
    BY <1>0, <2>1, FlaggedStay
<1>9. CASE Client(Handles)
  BY <1>9, <1>1, <1>2, <1>3, <1>6 DEF Client
<1> QED
  BY <1>4, <1>5, <1>7, <1>8, <1>9 DEF Next, Continue

LEMMA KeepInitial == Init => KeepInv
<1> SUFFICES ASSUME Init PROVE KeepInv
  OBVIOUS
<1>1. Typed /\ Queued /\ Flagged
  BY DEF Init, Typed, Queued, Flagged, FlaggedBut
<1> QED
  BY <1>1, InitInv DEF KeepInv, QueueInv

LEMMA KeepInductive == KeepInv /\ [Next]_vars => KeepInv'
<1> SUFFICES ASSUME KeepInv, [Next]_vars PROVE KeepInv'
  OBVIOUS
<1>1. IInv' /\ Typed' /\ Queued'
  BY Inductive, TypedStep, QueuedStep DEF KeepInv, QueueInv
<1>2. FlaggedBut({})'
  BY FlaggedStep DEF KeepInv, QueueInv, Flagged
<1> QED
  BY <1>1, <1>2 DEF KeepInv, QueueInv, Flagged

LEMMA KeepInvariance == Spec => []KeepInv
BY KeepInitial, KeepInductive, PTL DEF Spec

\* The queue libwayland puts a wl_proxy's events in exists as long as the
\* wl_proxy and its block do, whoever drops event_queue_t's and whatever is
\* moved from queue to queue.
THEOREM QueueRetainedCorrect == Spec => []QueueRetained
<1>1. KeepInv => QueueRetained
  BY DEF KeepInv, QueueInv, Queued, QueueRetained
<1> QED
  BY <1>1, KeepInvariance, PTL

\* The wl_proxy of an object with a destroy request never goes without that
\* request.
THEOREM NoCompositorLeakCorrect == Spec => []NoCompositorLeak
<1>1. KeepInv => NoCompositorLeak
  BY DEF KeepInv, Flagged, FlaggedBut, NoCompositorLeak
<1> QED
  BY <1>1, KeepInvariance, PTL
-----------------------------------------------------------------------------
(* The order of destruction: a third invariant                              *)

\* A live wrapper's member holds what the wrapper was made from.
Holding == \A w \in Wrappers \cap live : HasData(w) /\ Idle(w) /\ w \in allocated

\* The wl_proxy of a slot that goes on to free the block is gone.
Gone == \A s \in Slots : stage[s] = "closed" => proxy[s] \notin live

\* Chains of wrappers end at something else than a wrapper.
Grounded == \A S \in SUBSET (Wrappers \cap live) : S # {} => \E w \in S : proxy[w] \notin S

\* The client ends its connection when everything else is gone, ...
Ended == ~Open => allocated \cap Objects = {} /\ queues = {}

\* ... and so does the connection itself.
Last == Display \notin live => live \cap allocated = {} /\ queues = {}

WrapInv == IInv /\ Holding /\ Gone /\ Grounded
LastInv == QueueInv /\ WrapInv /\ Ended /\ Last

\* The client does not overwrite its display_t, nor leave a queue to its block.
Orderly == Careless \cap {"copy_over", "late_queue"} = {}

\* A chain of wrappers ends at an object or at the display: without these
\* nothing is left.
LEMMA NothingElse ==
    ASSUME LastInv, allocated \cap Objects = {},
           Display \notin allocated \/ Refs(Display) = {}
    PROVE  live \cap allocated \subseteq {Display}
<1>1. ASSUME NEW w \in Wrappers \cap live PROVE FALSE
  <2>1. PICK v \in Wrappers \cap live : proxy[v] \notin Wrappers \cap live
    BY <1>1 DEF LastInv, WrapInv, Grounded
  <2>2. HasData(v) /\ Idle(v) /\ v \in Slots
    BY DEF LastInv, WrapInv, Holding, Slots
  <2>3. proxy[v] \in live \cap allocated
    BY <2>2 DEF LastInv, QueueInv, IInv, NoDangling, Idle
  <2>4. proxy[v] = Display
    BY <2>1, <2>3 DEF LastInv, QueueInv, IInv, TypeOK, Proxies
  <2>5. v \in Refs(Display)
    BY <2>2, <2>4 DEF Refs, HasData
  <2> QED
    BY <2>3, <2>4, <2>5
<1> QED
  BY <1>1 DEF LastInv, QueueInv, IInv, TypeOK, Proxies

\* A program that can use its connection has one.
LEMMA OpenConnected ==
    ASSUME QueueInv, Open
    PROVE  Display \in live
<1>1. CASE foreign
  BY <1>1 DEF QueueInv, IInv, ForeignOwned
<1>2. ASSUME NEW h \in Handles, DisplayHandle(h) PROVE Display \in live
  <2>1. h \in Slots /\ Idle(h) /\ proxy[h] # None /\ type[h] = "display"
    BY <1>2 DEF DisplayHandle, Full, Slots
  <2>2. HasData(h) /\ proxy[h] = Display
    BY <2>1 DEF HasData, QueueInv, Typed, Kinds
  <2> QED
    BY <2>1, <2>2 DEF QueueInv, IInv, NoDangling, Idle
<1> QED
  BY <1>1, <1>2 DEF Open

\* What the steps do to handles of the connection: one stays while another goes.
LEMMA OpenStays ==
    ASSUME Open, foreign => foreign',
           \A h \in Handles : DisplayHandle(h) => \E g \in Handles :
               proxy'[g] # None /\ stage'[g] = "idle" /\ type'[g] = "display"
    PROVE  Open'
BY DEF Open, DisplayHandle, Full, Idle

\* If a step makes the connection unusable, everything else is gone.
LEMMA EndedStep ==
    ASSUME Orderly, LastInv, [Next]_vars
    PROVE  Ended'
<1>0. Handles \subseteq Slots /\ Handles \cap Wrappers = {} /\ IInv
      /\ (\A h \in Handles : DisplayHandle(h) =>
             proxy[h] # None /\ stage[h] = "idle" /\ type[h] = "display")
  BY AddressAssumption DEF LastInv, QueueInv, Slots, DisplayHandle, Full, Idle
<1>2. ASSUME Open => Open', allocated' \cap Objects \subseteq allocated, queues' \subseteq queues
      PROVE  Ended'
  BY <1>2 DEF LastInv, Ended
<1>3. ASSUME Open, Open => Open' PROVE Ended'
  BY <1>3 DEF Ended
<1>4. ASSUME EverythingElseGone, allocated' = allocated, queues' = queues PROVE Ended'
  BY <1>4 DEF EverythingElseGone, Orderly, Ended
<1>5. ASSUME NEW h \in Handles, Connect(h) \/ WrapForeign(h) PROVE Ended'
  <2>1. CASE Connect(h)
    <3>1. Display # None /\ proxy'[h] = Display /\ type'[h] = "display"
      BY <1>0, <2>1, SlotsOf, AddressAssumption DEF Proxies
    <3>2. stage'[h] = "idle"
      BY <2>1 DEF Connect, Empty, Idle
    <3> QED
      BY <3>1, <3>2 DEF Ended, Open, DisplayHandle, Full, Idle
  <2>2. CASE WrapForeign(h)
    BY <2>2 DEF WrapForeign, wlVars, Ended, Open
  <2> QED
    BY <1>5, <2>1, <2>2
<1>6. ASSUME NEW h \in Handles, Release(h) \/ Destruct(h) PROVE Ended'
  <2>1. /\ \A t \in Slots \ {h} : /\ proxy'[t] = proxy[t] /\ stage'[t] = stage[t]
                                  /\ type'[t] = type[t]
        /\ allocated' = allocated /\ queues' = queues /\ foreign' = foreign
    BY <1>0, <1>6, ReleasedStep DEF IInv, wlVars, queueVars
  <2>2. CASE LastOpen(h)
    <3>1. EverythingElseGone
      BY <1>6, <2>2 DEF Release, Destruct
    <3> QED
      BY <1>4, <2>1, <3>1
  <2>3. CASE ~LastOpen(h)
    <3>1. ASSUME NEW g \in Handles, DisplayHandle(g)
          PROVE  \E f \in Handles : f # h /\ DisplayHandle(f)
      BY <2>3, <3>1 DEF LastOpen
    <3>2. Open => Open'
      BY <1>0, <2>1, <3>1, OpenStays
    <3> QED
      BY <1>2, <2>1, <3>2
  <2> QED
    BY <2>2, <2>3
<1>7. ASSUME NEW g \in Handles, NEW h \in Handles, Copy(g, h) \/ Move(g, h) PROVE Ended'
  <2>1. /\ stage' = stage /\ allocated' = allocated /\ queues' = queues /\ foreign' = foreign
        /\ Idle(g) /\ Idle(h)
    BY <1>7 DEF Copy, Move, dataVars, wlVars, queueVars
  <2>2. CASE Copy(g, h)
    <3>1. ~DisplayHandle(h)
      BY <2>2 DEF Copy, Orderly, DisplayHandle, Full
    <3>2. \A s \in Slots \ {h} : proxy'[s] = proxy[s] /\ type'[s] = type[s]
      BY <1>0, <2>2, SlotsOf
    <3>3. Open => Open'
      BY <1>0, <2>1, <3>1, <3>2, OpenStays
    <3> QED
      BY <1>2, <2>1, <3>3
  <2>3. CASE Move(g, h)
    <3>1. /\ proxy'[h] = proxy[g] /\ type'[h] = type[g]
          /\ proxy'[g] = proxy[h] /\ type'[g] = type[h]
          /\ \A s \in Slots \ {g, h} : proxy'[s] = proxy[s] /\ type'[s] = type[s]
      BY <1>0, <2>3, SlotsOf
    <3>2. Open => Open'
      BY <1>0, <2>1, <3>1, OpenStays DEF Idle
    <3> QED
      BY <1>2, <2>1, <3>2
  <2> QED
    BY <1>7, <2>2, <2>3
<1>8. ASSUME NEW g \in Handles, NEW h \in Handles, NEW o \in Objects, Create(g, h, o)
      PROVE  Ended'
  <2>1. /\ Open /\ stage' = stage /\ foreign' = foreign /\ ~DisplayHandle(h)
    BY <1>8 DEF Create, Empty, DisplayHandle, Full
  <2>2. \A s \in Slots \ {h} : proxy'[s] = proxy[s] /\ type'[s] = type[s]
    BY <1>0, <1>8, SlotsOf
  <2>3. Open => Open'
    BY <1>0, <2>1, <2>2, OpenStays
  <2> QED
    BY <1>3, <2>1, <2>3
<1>9. ASSUME NEW g \in Handles, NEW h \in Handles, NEW w \in Wrappers, CreateWrapper(g, h, w)
      PROVE  Ended'
  <2>1. /\ stage' = stage /\ foreign' = foreign /\ ~DisplayHandle(h)
        /\ allocated' = allocated \cup {w} /\ queues' = queues
    BY <1>9 DEF CreateWrapper, Wrap, NewData, queueVars, Empty, DisplayHandle, Full
  <2>2. \A s \in Slots \ {h, w} : proxy'[s] = proxy[s] /\ type'[s] = type[s]
    BY <1>0, <1>9, SlotsOf
  <2>3. Open => Open'
    BY <1>0, <2>1, <2>2, OpenStays
  <2>4. w \notin Objects
    BY AddressAssumption
  <2> QED
    BY <1>2, <2>1, <2>3, <2>4
<1>10. ASSUME NEW h \in Handles, NEW q \in Queues, CreateQueue(h, q) PROVE Ended'
  <2>1. Open
    BY <1>10 DEF CreateQueue, Usable, Open, DisplayHandle
  <2>2. Open => Open'
    BY <1>10 DEF CreateQueue, slotVars, wlVars, Open, DisplayHandle, Full, Idle
  <2> QED
    BY <1>3, <2>1, <2>2
<1>11. CASE \/ \E g \in Handles, q \in Queues \cup {None} : SetQueue(g, q)
            \/ \E q \in Queues : DropQueue(q)
            \/ UNCHANGED vars
  <2>1. /\ proxy' = proxy /\ type' = type /\ stage' = stage /\ foreign' = foreign
        /\ allocated' = allocated /\ queues' \subseteq queues
    BY <1>11 DEF SetQueue, DropQueue, vars, slotVars, dataVars, wlVars, queueVars, Drop
  <2>2. Open => Open'
    BY <1>0, <2>1, OpenStays
  <2> QED
    BY <1>2, <2>1, <2>2
<1>12. ASSUME NEW s \in Slots, Continue(s) PROVE Ended'
  <2>1. ~Idle(s) /\ \A t \in Slots \ {s} : /\ proxy'[t] = proxy[t] /\ type'[t] = type[t]
                                           /\ stage'[t] = stage[t]
    BY <1>0, <1>12, SlotsContinued
  <2>2. ~DisplayHandle(s) /\ foreign' = foreign
        /\ allocated' \subseteq allocated /\ queues' \subseteq queues
    BY <1>12, <2>1
       DEF DisplayHandle, Full, Continue, Close, Free, dataVars, wlVars, queueVars, Drop
  <2>3. Open => Open'
    BY <1>0, <2>1, <2>2, OpenStays
  <2> QED
    BY <1>2, <2>2, <2>3
<1>13. ASSUME NEW w \in Wrappers, Unwrap(w) PROVE Ended'
  <2>1. /\ \A t \in Slots \ {w} : /\ proxy'[t] = proxy[t] /\ stage'[t] = stage[t]
                                  /\ type'[t] = type[t]
        /\ allocated' = allocated /\ queues' = queues /\ foreign' = foreign
    BY <1>0, <1>13, ReleasedStep DEF IInv, wlVars, queueVars, Slots
  <2>2. Open => Open'
    BY <1>0, <2>1, OpenStays
  <2> QED
    BY <1>2, <2>1, <2>2
<1>14. CASE ForeignConnect \/ ForeignDisconnect
  BY <1>4, <1>14 DEF ForeignConnect, ForeignDisconnect, dataVars, queueVars, Ended, Open
<1>15. CASE Client(Handles)
  BY <1>15, <1>5, <1>6, <1>7, <1>8, <1>9, <1>10, <1>11 DEF Client
<1> QED
  BY <1>11, <1>12, <1>13, <1>14, <1>15 DEF Next

\* What every step leaves of wrappers and of releases in progress: the steps in
\* which none begins to exist, or ends.
LEMMA WrappersStay ==
    ASSUME WrapInv, Wrappers \cap live' \subseteq live, live' \cap allocated \subseteq live,
           \A w \in Wrappers \cap live' : /\ proxy'[w] = proxy[w] /\ type'[w] = type[w]
                                          /\ stage'[w] = stage[w] /\ w \in allocated',
           \A s \in Slots : stage'[s] = "closed" => stage[s] = "closed" /\ proxy'[s] = proxy[s]
    PROVE  Holding' /\ Gone' /\ Grounded'
<1>1. Holding'
  BY DEF WrapInv, Holding, HasData, Idle
<1>2. ASSUME NEW s \in Slots, stage'[s] = "closed" PROVE proxy'[s] \notin live'
  <2>1. stage[s] = "closed" /\ proxy'[s] = proxy[s] /\ proxy[s] \notin live
    BY <1>2 DEF WrapInv, Gone
  <2>2. proxy[s] \in allocated
    BY <2>1 DEF WrapInv, IInv, Releasing, Idle
  <2> QED
    BY <2>1, <2>2
<1>3. ASSUME NEW S \in SUBSET (Wrappers \cap live'), S # {} PROVE \E w \in S : proxy'[w] \notin S
  BY <1>3 DEF WrapInv, Grounded
<1> QED
  BY <1>1, <1>2, <1>3 DEF Gone, Grounded

\* A new object, which is no wrapper.
LEMMA WrappersBesideNew ==
    ASSUME WrapInv, NEW p \in Proxies \ Wrappers, p \notin allocated,
           live' = live \cup {p}, allocated' = allocated \cup {p}, stage' = stage,
           NEW h \in Handles, Idle(h),
           \A s \in Slots \ {h} : proxy'[s] = proxy[s] /\ type'[s] = type[s]
    PROVE  Holding' /\ Gone' /\ Grounded'
<1>1. Wrappers \cap live' = Wrappers \cap live /\ Wrappers \subseteq Slots \ {h}
  BY AddressAssumption DEF Slots
<1>2. Holding'
  BY <1>1 DEF WrapInv, Holding, HasData, Idle
<1>3. ASSUME NEW s \in Slots, stage'[s] = "closed" PROVE proxy'[s] \notin live'
  <2>1. s # h /\ proxy'[s] = proxy[s] /\ proxy[s] \notin live /\ proxy[s] \in allocated
    BY <1>3 DEF WrapInv, Gone, IInv, Releasing, Idle
  <2> QED
    BY <2>1
<1>4. ASSUME NEW S \in SUBSET (Wrappers \cap live'), S # {} PROVE \E w \in S : proxy'[w] \notin S
  BY <1>1, <1>4 DEF WrapInv, Grounded
<1> QED
  BY <1>2, <1>3, <1>4 DEF Gone, Grounded

\* A new wrapper holds an older object than itself.
LEMMA WrapperAdded ==
    ASSUME WrapInv, NEW g \in Handles, NEW h \in Handles, NEW w \in Wrappers,
           CreateWrapper(g, h, w)
    PROVE  Holding' /\ Gone' /\ Grounded' /\ proxy[g] \in live \cap allocated
<1>0. IInv
  BY DEF WrapInv
<1>1. /\ g \in Slots /\ h \in Slots /\ w \in Slots /\ h \notin Wrappers /\ w \in Proxies /\ w # None
      /\ Full(g) /\ HasData(g) /\ Empty(h) /\ w \notin live \cup allocated
      /\ live' = live \cup {w} /\ allocated' = allocated \cup {w} /\ stage' = stage
  BY AddressAssumption DEF Slots, CreateWrapper, Wrap, Unused, NewData, Proxies
<1>2. proxy[g] \in live \cap allocated
  BY <1>0, <1>1 DEF IInv, NoDangling, Full, Idle
<1>3. \A s \in Slots : HasData(s) => proxy[s] # w
  BY <1>0, <1>1, Fresh
<1>4. /\ proxy'[h] = w /\ proxy'[w] = proxy[g] /\ type'[w] = type[g]
      /\ \A s \in Slots \ {h, w} : proxy'[s] = proxy[s] /\ type'[s] = type[s]
  BY <1>0, SlotsOf
<1>5. Idle(w)
  BY <1>0, <1>1 DEF IInv, MembersOwned, Releasing, HasData
<1>6. \A v \in Wrappers \cap live : v # w /\ v \in Slots \ {h, w}
  BY <1>1 DEF Slots
<1>7. Holding'
  <2> SUFFICES ASSUME NEW v \in Wrappers, v \in live' PROVE HasData(v)' /\ Idle(v)' /\ v \in allocated'
    BY DEF Holding
  <2>1. CASE v = w
    BY <1>1, <1>4, <1>5, <2>1 DEF HasData, Idle
  <2>2. CASE v # w
    BY <1>1, <1>4, <1>6, <2>2 DEF WrapInv, Holding, HasData, Idle
  <2> QED
    BY <2>1, <2>2
<1>8. ASSUME NEW s \in Slots, stage'[s] = "closed" PROVE proxy'[s] \notin live'
  <2>1. s # h /\ s # w
    BY <1>1, <1>5, <1>8 DEF Empty, Idle
  <2>2. proxy'[s] = proxy[s] /\ proxy[s] \notin live /\ proxy[s] \in allocated
    BY <1>0, <1>1, <1>4, <1>8, <2>1 DEF WrapInv, Gone, IInv, Releasing, Idle
  <2> QED
    BY <1>1, <2>2
<1>9. ASSUME NEW S \in SUBSET (Wrappers \cap live'), S # {} PROVE \E v \in S : proxy'[v] \notin S
  <2>1. CASE S \subseteq {w}
    BY <1>1, <1>2, <1>4, <1>9, <2>1
  <2>2. CASE ~(S \subseteq {w})
    <3>1. S \ {w} # {} /\ S \ {w} \in SUBSET (Wrappers \cap live)
      BY <1>1, <2>2
    <3>2. PICK v \in S \ {w} : proxy[v] \notin S \ {w}
      BY <3>1 DEF WrapInv, Grounded
    <3>3. proxy[v] # w
      BY <1>3, <1>6, <3>1 DEF WrapInv, Holding
    <3>4. proxy'[v] = proxy[v]
      BY <1>4, <1>6, <3>1
    <3> QED
      BY <3>2, <3>3, <3>4
  <2> QED
    BY <2>1, <2>2
<1> QED
  BY <1>2, <1>7, <1>8, <1>9 DEF Gone, Grounded

\* How wrappers and releases go on; orderly clients are not needed for this.
LEMMA WrappersStep ==
    ASSUME WrapInv, [Next]_vars
    PROVE  Holding' /\ Gone' /\ Grounded'
<1>0. /\ Handles \subseteq Slots /\ Wrappers \subseteq Slots /\ Handles \cap Wrappers = {}
      /\ IInv /\ TypeOK /\ Display \notin Wrappers /\ Objects \cap Wrappers = {}
      /\ (\A w \in Wrappers \cap live : w \in allocated)
      /\ (\A h \in Handles : Empty(h) => Idle(h))
  BY AddressAssumption DEF WrapInv, IInv, Slots, Holding, Empty
<1>1. ASSUME NEW h \in Handles, Connect(h) PROVE Holding' /\ Gone' /\ Grounded'
  <2>1. /\ Display \in Proxies \ Wrappers /\ Display \notin allocated /\ Idle(h)
        /\ live' = live \cup {Display} /\ allocated' = allocated \cup {Display} /\ stage' = stage
    BY <1>0, <1>1 DEF Connect, Unused, NewData, Proxies
  <2>2. \A s \in Slots \ {h} : proxy'[s] = proxy[s] /\ type'[s] = type[s]
    BY <1>0, <1>1, SlotsOf
  <2> QED
    BY <2>1, <2>2, WrappersBesideNew
<1>2. ASSUME NEW g \in Handles, NEW h \in Handles, NEW o \in Objects, Create(g, h, o)
      PROVE  Holding' /\ Gone' /\ Grounded'
  <2>1. /\ o \in Proxies \ Wrappers /\ o \notin allocated /\ Idle(h)
        /\ live' = live \cup {o} /\ allocated' = allocated \cup {o} /\ stage' = stage
    BY <1>0, <1>2 DEF Create, Unused, NewData, Proxies
  <2>2. \A s \in Slots \ {h} : proxy'[s] = proxy[s] /\ type'[s] = type[s]
    BY <1>0, <1>2, SlotsOf
  <2> QED
    BY <2>1, <2>2, WrappersBesideNew
<1>3. ASSUME NEW h \in Handles, Release(h) \/ Destruct(h) PROVE Holding' /\ Gone' /\ Grounded'
  <2>1. /\ \A t \in Slots \ {h} : /\ proxy'[t] = proxy[t] /\ stage'[t] = stage[t]
                                  /\ type'[t] = type[t]
        /\ stage'[h] # "closed" /\ allocated' = allocated /\ live' = live
    BY <1>0, <1>3, ReleasedStep DEF wlVars
  <2>2. \A s \in Slots : stage'[s] = "closed" => stage[s] = "closed" /\ proxy'[s] = proxy[s]
    BY <2>1
  <2>3. \A w \in Wrappers \cap live' : /\ proxy'[w] = proxy[w] /\ type'[w] = type[w]
                                       /\ stage'[w] = stage[w] /\ w \in allocated'
    BY <1>0, <2>1
  <2> QED
    BY <2>1, <2>2, <2>3, WrappersStay
<1>4. ASSUME NEW h \in Handles, NEW g \in Handles, WrapForeign(h) \/ Copy(g, h) \/ Move(g, h)
      PROVE  Holding' /\ Gone' /\ Grounded'
  <2>1. /\ allocated' = allocated /\ live' = live /\ stage' = stage /\ stage[h] = "idle"
        /\ (Move(g, h) => stage[g] = "idle")
    BY <1>4 DEF WrapForeign, Copy, Move, dataVars, wlVars, Idle, Empty
  <2>2. /\ \A s \in Slots \ {g, h} : proxy'[s] = proxy[s] /\ type'[s] = type[s]
        /\ stage[g] # "idle" => proxy'[g] = proxy[g]
    BY <1>0, <1>4, <2>1, SlotsOf
  <2>3. \A s \in Slots : stage'[s] = "closed" => stage[s] = "closed" /\ proxy'[s] = proxy[s]
    BY <2>1, <2>2
  <2>4. \A w \in Wrappers \cap live' : /\ proxy'[w] = proxy[w] /\ type'[w] = type[w]
                                       /\ stage'[w] = stage[w] /\ w \in allocated'
    BY <1>0, <2>1, <2>2
  <2> QED
    BY <2>1, <2>3, <2>4, WrappersStay
<1>5. CASE \/ \E g \in Handles, q \in Queues : CreateQueue(g, q)
           \/ \E g \in Handles, q \in Queues \cup {None} : SetQueue(g, q)
           \/ \E q \in Queues : DropQueue(q)
           \/ ForeignConnect \/ ForeignDisconnect \/ UNCHANGED vars
  <2>1. proxy' = proxy /\ type' = type /\ stage' = stage
    BY <1>5, SlotsStay
  <2>2. /\ allocated' = allocated /\ live' \subseteq live \cup {Display}
        /\ live' \cap allocated \subseteq live
    BY <1>5 DEF CreateQueue, SetQueue, DropQueue, ForeignConnect, ForeignDisconnect, Unused,
                vars, dataVars, wlVars
  <2> QED
    BY <1>0, <2>1, <2>2, WrappersStay
<1>6. ASSUME NEW s \in Slots, Continue(s) PROVE Holding' /\ Gone' /\ Grounded'
  <2>1. /\ ~Idle(s)
        /\ \A t \in Slots \ {s} : /\ proxy'[t] = proxy[t] /\ type'[t] = type[t]
                                  /\ stage'[t] = stage[t]
    BY <1>0, <1>6, SlotsContinued
  <2>2. \A w \in Wrappers \cap live : w # s
    BY <2>1 DEF WrapInv, Holding
  <2>3. CASE Close(s)
    <3>1. /\ live' = live \ {proxy[s]} /\ allocated' = allocated /\ proxy'[s] = proxy[s]
      BY <2>3 DEF Close, dataVars
    <3>2. Holding'
      BY <1>0, <2>1, <2>2, <3>1 DEF WrapInv, Holding, HasData, Idle
    <3>3. ASSUME NEW t \in Slots, stage'[t] = "closed" PROVE proxy'[t] \notin live'
      BY <2>1, <3>1, <3>3 DEF WrapInv, Gone
    <3>4. ASSUME NEW S \in SUBSET (Wrappers \cap live'), S # {} PROVE \E w \in S : proxy'[w] \notin S
      BY <1>0, <2>1, <2>2, <3>1, <3>4 DEF WrapInv, Grounded
    <3> QED
      BY <3>2, <3>3, <3>4 DEF Gone, Grounded
  <2>4. CASE Free(s)
    <3>1. /\ live' = live /\ allocated' = allocated \ {proxy[s]} /\ stage[s] = "closed"
          /\ proxy[s] \notin live /\ stage'[s] = "idle"
      BY <1>0, <2>4 DEF Free, wlVars, WrapInv, Gone, TypeOK
    <3>2. \A w \in Wrappers \cap live' : /\ proxy'[w] = proxy[w] /\ type'[w] = type[w]
                                         /\ stage'[w] = stage[w] /\ w \in allocated'
      BY <1>0, <2>1, <2>2, <3>1
    <3>3. \A t \in Slots : stage'[t] = "closed" => stage[t] = "closed" /\ proxy'[t] = proxy[t]
      BY <2>1, <3>1
    <3> QED
      BY <3>1, <3>2, <3>3, WrappersStay
  <2> QED
    BY <1>6, <2>3, <2>4 DEF Continue
<1>7. ASSUME NEW w \in Wrappers, Unwrap(w) PROVE Holding' /\ Gone' /\ Grounded'
  <2>1. /\ \A t \in Slots \ {w} : /\ proxy'[t] = proxy[t] /\ stage'[t] = stage[t]
                                  /\ type'[t] = type[t]
        /\ stage'[w] # "closed" /\ allocated' = allocated /\ live' = live
    BY <1>0, <1>7, ReleasedStep DEF wlVars
  <2>2. w \notin live
    BY <1>7 DEF Unwrap, WrapInv, Gone
  <2>3. \A s \in Slots : stage'[s] = "closed" => stage[s] = "closed" /\ proxy'[s] = proxy[s]
    BY <2>1
  <2>4. \A v \in Wrappers \cap live' : /\ proxy'[v] = proxy[v] /\ type'[v] = type[v]
                                       /\ stage'[v] = stage[v] /\ v \in allocated'
    BY <1>0, <2>1, <2>2
  <2> QED
    BY <2>1, <2>3, <2>4, WrappersStay
<1>8. CASE Client(Handles)
  BY <1>8, <1>1, <1>2, <1>3, <1>4, <1>5, WrapperAdded DEF Client
<1> QED
  BY <1>5, <1>6, <1>7, <1>8 DEF Next

\* The connection is closed when nothing is left that needs it, and nothing that
\* does is made afterwards.
LEMMA LastStep ==
    ASSUME Orderly, LastInv, [Next]_vars
    PROVE  Last'
<1>0. /\ QueueInv /\ IInv /\ TypeOK
      /\ \A h \in Handles : h \in Slots
      /\ (Open => Display \in live)
  BY OpenConnected DEF LastInv, QueueInv, IInv, Slots
<1>1. ASSUME Display \in live' PROVE Last'
  BY <1>1 DEF Last
<1>2. ASSUME live' \cap allocated' \subseteq live \cap allocated, queues' \subseteq queues,
             Display \in live => Display \in live'
      PROVE  Last'
  BY <1>2 DEF LastInv, Last
<1>3. ASSUME live \cap allocated \subseteq {Display}, queues = {}, Display \notin live',
             live' \subseteq live, allocated' \subseteq allocated, queues' \subseteq queues
      PROVE  Last'
  BY <1>3 DEF Last
<1>4. ASSUME NEW h \in Handles, Connect(h) PROVE Last'
  BY <1>1, <1>4 DEF Connect
<1>5. ASSUME NEW g \in Handles, NEW h \in Handles, NEW o \in Objects, Create(g, h, o)
      PROVE  Last'
  BY <1>0, <1>1, <1>5 DEF Create
<1>6. ASSUME NEW g \in Handles, NEW h \in Handles, NEW w \in Wrappers, CreateWrapper(g, h, w)
      PROVE  Last'
  <2>1. proxy[g] \in live \cap allocated
    BY <1>6, WrapperAdded DEF LastInv
  <2>2. Display \in live
    BY <2>1 DEF LastInv, Last
  <2> QED
    BY <1>1, <1>6, <2>2 DEF CreateWrapper, Wrap
<1>7. ASSUME NEW h \in Handles, NEW q \in Queues, CreateQueue(h, q) PROVE Last'
  <2>1. Open
    BY <1>7 DEF CreateQueue, Usable, Open, DisplayHandle
  <2> QED
    BY <1>0, <1>1, <1>7, <2>1 DEF CreateQueue, wlVars
<1>8. ASSUME NEW h \in Handles,
             \/ WrapForeign(h) \/ Release(h) \/ Destruct(h)
             \/ \E g \in Handles : Copy(g, h) \/ Move(g, h)
             \/ \E q \in Queues \cup {None} : SetQueue(h, q)
      PROVE  Last'
  <2>1. live' = live /\ allocated' = allocated /\ queues' \subseteq queues
    <3>1. ASSUME WrapForeign(h) \/ Release(h) \/ Destruct(h)
          PROVE  live' = live /\ allocated' = allocated /\ queues' = queues
      BY <3>1 DEF WrapForeign, Release, Destruct, dataVars, wlVars, queueVars
    <3>2. ASSUME NEW g, Copy(g, h) \/ Move(g, h)
          PROVE  live' = live /\ allocated' = allocated /\ queues' = queues
      BY <3>2 DEF Copy, Move, dataVars, wlVars, queueVars
    <3>3. ASSUME NEW q, SetQueue(h, q)
          PROVE  live' = live /\ allocated' = allocated /\ queues' \subseteq queues
      BY <3>3 DEF SetQueue, Drop
    <3> QED
      BY <1>8, <3>1, <3>2, <3>3
  <2> QED
    BY <1>2, <2>1
<1>9. CASE (\E q \in Queues : DropQueue(q)) \/ (\E w \in Wrappers : Unwrap(w)) \/ UNCHANGED vars
  <2>1. live' = live /\ allocated' = allocated /\ queues' \subseteq queues
    BY <1>9 DEF DropQueue, Drop, Unwrap, vars, dataVars, wlVars, queueVars
  <2> QED
    BY <1>2, <2>1
<1>10. ASSUME NEW s \in Slots, Free(s) PROVE Last'
  <2>1. live' = live /\ allocated' \subseteq allocated /\ queues' \subseteq queues
    BY <1>10 DEF Free, Drop, wlVars
  <2> QED
    BY <1>2, <2>1
<1>11. ASSUME NEW s \in Slots, Close(s) PROVE Last'
  <2>1. live' = live \ {proxy[s]} /\ allocated' = allocated /\ queues' = queues
    BY <1>11 DEF Close, dataVars, queueVars
  <2>2. CASE proxy[s] # Display
    BY <1>2, <2>1, <2>2
  <2>3. CASE proxy[s] = Display
    <3>1. ~Idle(s) /\ Display \in allocated /\ counter[Display] = 0
      BY <1>0, <1>11, <2>3 DEF Close, Idle, IInv, Releasing
    <3>2. Refs(Display) = {}
      <4>1. CountOK(Display) /\ IsFiniteSet(Refs(Display)) /\ Cardinality(Refs(Display)) \in Nat
        BY <1>0, <3>1, RefsFinite DEF IInv
      <4>2. Cardinality(Refs(Display)) = 0
        BY <3>1, <4>1 DEF CountOK
      <4> QED
        BY <4>1, <4>2, FS_EmptySet
    <3>3. ~Open
      <4>1. ~foreign
        BY <1>0, <3>1 DEF IInv, ForeignOwned
      <4>2. ASSUME NEW h \in Handles, DisplayHandle(h) PROVE FALSE
        <5>1. h \in Slots /\ Idle(h) /\ proxy[h] # None /\ type[h] = "display"
          BY <1>0, <4>2 DEF DisplayHandle, Full
        <5>2. proxy[h] = Display
          BY <1>0, <5>1 DEF QueueInv, Typed, Kinds
        <5> QED
          BY <3>2, <5>1, <5>2 DEF Refs
      <4> QED
        BY <4>1, <4>2 DEF Open
    <3>4. allocated \cap Objects = {} /\ queues = {}
      BY <3>3 DEF LastInv, Ended
    <3>5. live \cap allocated \subseteq {Display}
      BY <3>2, <3>4, NothingElse
    <3> QED
      BY <1>3, <2>1, <2>3, <3>4, <3>5
  <2> QED
    BY <2>2, <2>3
<1>12. CASE ForeignConnect
  BY <1>1, <1>12 DEF ForeignConnect
<1>13. CASE ForeignDisconnect
  <2>1. /\ allocated \cap Objects = {} /\ queues = {} /\ Display \notin allocated
        /\ live' = live \ {Display} /\ allocated' = allocated /\ queues' = queues
    BY <1>0, <1>13
       DEF ForeignDisconnect, EverythingElseGone, Orderly, IInv, ForeignOwned, dataVars, queueVars
  <2>2. live \cap allocated \subseteq {Display}
    BY <2>1, NothingElse
  <2> QED
    BY <1>3, <2>1, <2>2
<1>14. CASE Client(Handles)
  BY <1>14, <1>4, <1>5, <1>6, <1>7, <1>8 DEF Client
<1> QED
  BY <1>9, <1>10, <1>11, <1>12, <1>13, <1>14 DEF Next, Continue

LEMMA LastInitial == Init => LastInv
<1> SUFFICES ASSUME Init PROVE LastInv
  OBVIOUS
<1>1. Holding /\ Gone /\ Grounded /\ Ended /\ Last
  BY DEF Init, Holding, Gone, Grounded, Ended, Last
<1> QED
  BY <1>1, KeepInitial DEF LastInv, WrapInv, KeepInv, QueueInv

LEMMA LastInductive == Orderly /\ LastInv /\ [Next]_vars => LastInv'
<1> SUFFICES ASSUME Orderly, LastInv, [Next]_vars PROVE LastInv'
  OBVIOUS
<1>1. QueueInv'
  BY Inductive, TypedStep, QueuedStep DEF LastInv, QueueInv
<1>2. Holding' /\ Gone' /\ Grounded' /\ Ended' /\ Last'
  BY WrappersStep, EndedStep, LastStep DEF LastInv
<1> QED
  BY <1>1, <1>2 DEF LastInv, WrapInv, QueueInv

\* For a client that releases its display_t last and overwrites no handle, what a
\* wrapper was made from outlives the wrapper, and the connection outlives every
\* wl_proxy and every event queue, whatever chains of wrappers it makes.
THEOREM DependantsFirstCorrect == ASSUME Orderly PROVE Spec => []DependantsFirst
<1>1. ASSUME LastInv PROVE DependantsFirst
  <2>1. ASSUME NEW w \in live \cap Wrappers PROVE proxy[w] \in live
    <3>1. HasData(w) /\ Idle(w) /\ w \in Slots
      BY <1>1 DEF LastInv, WrapInv, Holding, Slots
    <3> QED
      BY <1>1, <3>1 DEF LastInv, QueueInv, IInv, NoDangling, Idle
  <2> QED
    BY <1>1, <2>1 DEF LastInv, Last, DependantsFirst
<1>2. LastInv => DependantsFirst
  BY <1>1
<1>3. Spec => []LastInv
  <2>1. LastInv /\ [Next]_vars => LastInv'
    BY LastInductive
  <2> QED
    BY <2>1, LastInitial, PTL DEF Spec
<1> QED
  BY <1>2, <1>3, PTL

\* A block without references is being destroyed.
Owned == \A p \in allocated : counter[p] = 0 => \E s \in Slots : ~Idle(s) /\ proxy[s] = p

LEMMA OwnedStep ==
    ASSUME IInv, Owned, [Next]_vars
    PROVE  Owned'
<1>0. /\ Handles \subseteq Slots /\ Wrappers \subseteq Slots
      /\ TypeOK /\ counter \in [Proxies -> Nat] /\ allocated \subseteq Proxies
  BY DEF Slots, IInv, TypeOK
<1>1. ASSUME \A s \in Slots : ~Idle(s) => proxy'[s] = proxy[s] /\ stage'[s] = stage[s],
             \A p \in allocated' : counter'[p] = 0 => p \in allocated /\ counter[p] = 0
      PROVE  Owned'
  BY <1>1 DEF Owned, Idle
<1>2. ASSUME NEW h \in Handles, Connect(h) PROVE Owned'
  <2>1. /\ Display \in Proxies /\ counter' = [counter EXCEPT ![Display] = 1] /\ Idle(h)
        /\ allocated' = allocated \cup {Display} /\ stage' = stage
    BY <1>2 DEF Connect, NewData, Empty, Proxies
  <2>2. \A s \in Slots \ {h} : proxy'[s] = proxy[s]
    BY <1>2, SlotsOf
  <2>3. \A p \in allocated' : counter'[p] = 0 => p \in allocated /\ counter[p] = 0
    BY <1>0, <2>1
  <2> QED
    BY <1>0, <1>1, <2>1, <2>2, <2>3
<1>3. ASSUME NEW g \in Handles, NEW h \in Handles, NEW o \in Objects, Create(g, h, o) PROVE Owned'
  <2>1. /\ o \in Proxies /\ counter' = [counter EXCEPT ![o] = 1] /\ Idle(h)
        /\ allocated' = allocated \cup {o} /\ stage' = stage
    BY <1>3 DEF Create, NewData, Empty, Proxies
  <2>2. \A s \in Slots \ {h} : proxy'[s] = proxy[s]
    BY <1>3, SlotsOf
  <2>3. \A p \in allocated' : counter'[p] = 0 => p \in allocated /\ counter[p] = 0
    BY <1>0, <2>1
  <2> QED
    BY <1>0, <1>1, <2>1, <2>2, <2>3
<1>4. ASSUME NEW g \in Handles, NEW h \in Handles, NEW w \in Wrappers, CreateWrapper(g, h, w)
      PROVE  Owned'
  <2>1. PICK p \in Proxies : p = proxy[g]
    BY <1>0, <1>4 DEF CreateWrapper, Wrap, Full, TypeOK
  <2>2. /\ w \in Proxies /\ counter' = [counter EXCEPT ![w] = 1, ![p] = @ + 1] /\ Idle(h)
        /\ allocated' = allocated \cup {w} /\ stage' = stage /\ w \notin allocated
    BY <1>4, <2>1 DEF CreateWrapper, Wrap, NewData, Empty, Proxies, Unused
  <2>3. p # w
    <3>1. g \in Slots /\ Idle(g) /\ HasData(g)
      BY <1>0, <1>4 DEF CreateWrapper, Wrap, Full
    <3> QED
      BY <2>1, <2>2, <3>1, Counting DEF IInv
  <2>4. Idle(w)
    BY <1>0, <2>2 DEF IInv, MembersOwned, Releasing, HasData
  <2>5. \A s \in Slots \ {h, w} : proxy'[s] = proxy[s]
    BY <1>4, SlotsOf
  <2>6. /\ counter'[p] = counter[p] + 1 /\ counter'[w] = 1
        /\ \A r \in Proxies \ {p, w} : counter'[r] = counter[r]
    BY <1>0, <2>2, <2>3
  <2>7. \A r \in allocated' : counter'[r] = 0 => r \in allocated /\ counter[r] = 0
    BY <1>0, <2>2, <2>6
  <2> QED
    BY <1>0, <1>1, <2>2, <2>4, <2>5, <2>7
<1>5. ASSUME NEW g \in Handles, NEW h \in Handles, Copy(g, h) PROVE Owned'
  <2>0. PICK p : p = proxy[g]
    OBVIOUS
  <2>1. /\ counter' = IF HasData(g) THEN [counter EXCEPT ![p] = @ + 1] ELSE counter
        /\ Idle(h) /\ allocated' = allocated /\ stage' = stage
        /\ HasData(g) => p \in Proxies
    BY <1>0, <1>5, <2>0 DEF Copy, HasData, TypeOK
  <2>2. \A s \in Slots \ {h} : proxy'[s] = proxy[s]
    BY <1>5, SlotsOf
  <2>3. \A r \in allocated' : counter'[r] = 0 => r \in allocated /\ counter[r] = 0
    BY <1>0, <2>1
  <2> QED
    BY <1>0, <1>1, <2>1, <2>2, <2>3
<1>6. ASSUME NEW g \in Handles, NEW h \in Handles, Move(g, h) \/ WrapForeign(h) PROVE Owned'
  <2>1. /\ stage' = stage /\ allocated' = allocated /\ counter' = counter
        /\ Idle(h) /\ (Move(g, h) => Idle(g))
    BY <1>6 DEF Move, WrapForeign, Empty, dataVars
  <2>2. \A s \in Slots : ~Idle(s) => proxy'[s] = proxy[s]
    <3>1. CASE Move(g, h)
      <4>1. \A s \in Slots \ {g, h} : proxy'[s] = proxy[s]
        BY <3>1, SlotsOf
      <4> QED
        BY <2>1, <3>1, <4>1
    <3>2. CASE WrapForeign(h)
      <4>1. \A s \in Slots \ {h} : proxy'[s] = proxy[s]
        BY <3>2, SlotsOf
      <4> QED
        BY <2>1, <3>2, <4>1
    <3> QED
      BY <1>6, <3>1, <3>2
  <2> QED
    BY <1>0, <1>1, <2>1, <2>2
<1>7. ASSUME NEW s \in Slots, Unwrap(s) \/ Release(s) \/ Destruct(s) PROVE Owned'
  <2>1. /\ Idle(s) /\ allocated' = allocated
        /\ \A t \in Slots \ {s} : proxy'[t] = proxy[t] /\ stage'[t] = stage[t]
    BY <1>0, <1>7, ReleasedStep
  <2>2. Decrement(s)
    BY <1>7 DEF Unwrap, Release, Destruct
  <2>3. CASE HasData(s)
    <3>0. PICK p \in Proxies : p = proxy[s]
      BY <1>0, <2>3 DEF HasData, TypeOK
    <3>1. counter[p] >= 1 /\ counter[p] \in Nat
      BY <2>1, <2>3, <3>0, Counting DEF IInv
    <3>2. /\ counter'[p] = counter[p] - 1
          /\ \A r \in Proxies \ {p} : counter'[r] = counter[r]
          /\ counter[p] = 1 => proxy'[s] = p /\ stage'[s] = "last"
      BY <1>0, <2>2, <2>3, <3>0 DEF Decrement, DecrementTo, TypeOK
    <3>3. ASSUME NEW r \in allocated', counter'[r] = 0
          PROVE  \E t \in Slots : stage'[t] # "idle" /\ proxy'[t] = r
      <4>1. CASE r = p
        BY <3>1, <3>2, <3>3, <4>1
      <4>2. CASE r # p
        <5>1. r \in allocated /\ counter[r] = 0
          BY <1>0, <2>1, <3>2, <3>3, <4>2
        <5>2. PICK t \in Slots : ~Idle(t) /\ proxy[t] = r
          BY <5>1 DEF Owned
        <5> QED
          BY <2>1, <5>2 DEF Idle
      <4> QED
        BY <4>1, <4>2
    <3> QED
      BY <3>3 DEF Owned, Idle
  <2>4. CASE ~HasData(s)
    <3>1. counter' = counter
      BY <2>2, <2>4 DEF Decrement, DecrementTo
    <3> QED
      BY <1>0, <1>1, <2>1, <3>1
  <2> QED
    BY <2>3, <2>4
<1>8. ASSUME NEW s \in Slots, Continue(s) PROVE Owned'
  <2>1. /\ counter' = counter
        /\ \A t \in Slots \ {s} : proxy'[t] = proxy[t] /\ stage'[t] = stage[t]
        /\ \/ proxy'[s] = proxy[s] /\ stage'[s] = "closed" /\ allocated' = allocated
           \/ allocated' = allocated \ {proxy[s]}
    BY <1>8, SlotsContinued DEF Continue, Close, Free, dataVars
  <2>2. ASSUME NEW r \in allocated', counter'[r] = 0
        PROVE  \E t \in Slots : stage'[t] # "idle" /\ proxy'[t] = r
    <3>1. PICK t \in Slots : ~Idle(t) /\ proxy[t] = r
      BY <2>1, <2>2 DEF Owned
    <3> QED
      BY <2>1, <2>2, <3>1 DEF Idle
  <2> QED
    BY <2>2 DEF Owned, Idle
<1>9. CASE \/ \E g \in Handles, q \in Queues : CreateQueue(g, q)
           \/ \E g \in Handles, q \in Queues \cup {None} : SetQueue(g, q)
           \/ \E q \in Queues : DropQueue(q)
           \/ ForeignConnect \/ ForeignDisconnect \/ UNCHANGED vars
  <2>1. proxy' = proxy /\ stage' = stage
    BY <1>9, SlotsStay
  <2>2. allocated' = allocated /\ counter' = counter
    BY <1>9 DEF CreateQueue, SetQueue, DropQueue, ForeignConnect, ForeignDisconnect, vars, dataVars
  <2> QED
    BY <2>1, <2>2 DEF Owned, Idle
<1>10. CASE Client(Handles)
  BY <1>0, <1>10, <1>2, <1>3, <1>4, <1>5, <1>6, <1>7, <1>9 DEF Client
<1> QED
  BY <1>0, <1>7, <1>8, <1>9, <1>10 DEF Next
-----------------------------------------------------------------------------
(* Objects and wrappers are SharedObjects                                   *)

\* The steps of SharedObject, of one object.
ObjectStep(p) ==
    \/ /\ p \notin live \cap allocated /\ p \in live' \cap allocated'
       /\ \E h \in Slots : Refs(p)' = {h}
    \/ /\ p \in live \cap allocated /\ p \in live' \cap allocated'
       /\ \/ \E g \in Refs(p), h \in Slots \ Refs(p) : \/ Refs(p)' = Refs(p) \cup {h}
                                                       \/ Refs(p)' = (Refs(p) \ {g}) \cup {h}
          \/ \E g \in Refs(p) : Refs(p)' = Refs(p) \ {g}
    \/ /\ p \in live \cap allocated /\ p \notin live' \cap allocated'
       /\ Refs(p) = {} /\ Refs(p)' = {}
    \/ (p \in live' \cap allocated' <=> p \in live \cap allocated) /\ Refs(p)' = Refs(p)

\* ObjectStep in the words of SharedObject.
LEMMA ObjectStepsRefine ==
    ASSUME \A p \in Objects \cup Wrappers : ObjectStep(p)
    PROVE  Shared!Next
<1> DEFINE H == [p \in Objects \cup Wrappers |-> Refs(p)]
           X == (live \cap allocated) \ {Display}
<1>1. \A p \in Objects \cup Wrappers :
         /\ H[p] = Refs(p) /\ H'[p] = Refs(p)'
         /\ (p \in X <=> p \in live \cap allocated) /\ (p \in X' <=> p \in live' \cap allocated')
  BY AddressAssumption
<1> HIDE DEF H, X
<1> SUFFICES ASSUME NEW p \in Objects \cup Wrappers
             PROVE  \/ /\ p \notin X /\ p \in X' /\ \E h \in Slots : H'[p] = {h}
                    \/ /\ p \in X /\ H[p] # {}
                       /\ \E h \in Slots \ H[p] : H'[p] = H[p] \cup {h}
                       /\ (p \in X') = (p \in X)
                    \/ /\ p \in X
                       /\ \E g \in H[p], h \in Slots \ H[p] : H'[p] = (H[p] \ {g}) \cup {h}
                       /\ (p \in X') = (p \in X)
                    \/ /\ p \in X /\ \E h \in H[p] : H'[p] = H[p] \ {h}
                       /\ (p \in X') = (p \in X)
                    \/ /\ p \in X /\ p \notin X' /\ H[p] = {} /\ H'[p] = {}
                    \/ H'[p] = H[p] /\ (p \in X') = (p \in X)
  BY DEF Shared!Next, Shared!Create, Shared!Share, Shared!Pass, Shared!Drop, Shared!Dispose,
         Shared!Stutter, Shared!Stays, H, X
<1>2. ObjectStep(p)
  OBVIOUS
<1> QED
  BY <1>1, <1>2 DEF ObjectStep

\* Slots that do not change hold what they held.
LEMMA HoldersBut ==
    ASSUME NEW p, NEW H \in SUBSET Slots,
           \A s \in Slots \ H : /\ proxy'[s] = proxy[s] /\ type'[s] = type[s]
                                /\ stage'[s] = stage[s]
    PROVE  \A s \in Slots \ H : s \in Refs(p)' <=> s \in Refs(p)
BY DEF Refs, Idle

\* What is held exists.
LEMMA HeldExists ==
    ASSUME IInv, NEW p \in Proxies, NEW s \in Refs(p)
    PROVE  p \in live \cap allocated
<1>1. s \in Slots /\ HasData(s) /\ Idle(s) /\ proxy[s] = p
  BY AddressAssumption DEF Refs, HasData
<1> QED
  BY <1>1 DEF IInv, NoDangling, Idle

\* A new block, for one handle; other objects are not touched.
LEMMA ObjectCreated ==
    ASSUME IInv, NEW p \in Objects \cup Wrappers, NEW r \in Proxies, r \notin allocated,
           NEW h \in Slots, proxy[h] = None, proxy'[h] = r, stage[h] = "idle", stage' = stage,
           type'[h] # "foreign",
           \A s \in Slots \ {h} : proxy'[s] = proxy[s] /\ type'[s] = type[s],
           live' = live \cup {r}, allocated' = allocated \cup {r}
    PROVE  ObjectStep(p)
<1>1. p # None /\ r # None
  BY AddressAssumption DEF Proxies
<1>2. \A s \in Slots \ {h} : s \in Refs(p)' <=> s \in Refs(p)
  BY HoldersBut
<1>3. h \notin Refs(p) /\ (h \in Refs(p)' <=> r = p) /\ Refs(p) \subseteq Slots /\ Refs(p)' \subseteq Slots
  BY <1>1 DEF Refs, Idle
<1>4. CASE r = p
  <2>1. Refs(p) = {}
    BY <1>4, Fresh
  <2>2. Refs(p)' = {h}
    BY <1>2, <1>3, <1>4, <2>1
  <2> QED
    BY <1>4, <2>2 DEF ObjectStep
<1>5. CASE r # p
  <2>1. Refs(p)' = Refs(p)
    BY <1>2, <1>3, <1>5
  <2> QED
    BY <1>5, <2>1 DEF ObjectStep
<1> QED
  BY <1>4, <1>5

\* One slot changes, and no object comes or goes: it takes up something else, ...
LEMMA ObjectTaken ==
    ASSUME IInv, NEW p \in Objects \cup Wrappers, NEW h \in Slots,
           \A s \in Slots \ {h} : /\ proxy'[s] = proxy[s] /\ type'[s] = type[s]
                                  /\ stage'[s] = stage[s],
           (p \in live' \cap allocated') <=> (p \in live \cap allocated),
           h \in Refs(p)' => Refs(p) # {}
    PROVE  ObjectStep(p)
<1>1. \A s \in Slots \ {h} : s \in Refs(p)' <=> s \in Refs(p)
  BY HoldersBut
<1>2. Refs(p) \subseteq Slots /\ Refs(p)' \subseteq Slots
  BY DEF Refs
<1>3. p \in Proxies
  BY DEF Proxies
<1>4. CASE h \in Refs(p)' /\ h \in Refs(p)
  <2>1. Refs(p)' = Refs(p)
    BY <1>1, <1>2, <1>4
  <2> QED
    BY <2>1 DEF ObjectStep
<1>5. CASE h \in Refs(p)' /\ h \notin Refs(p)
  <2>1. Refs(p)' = Refs(p) \cup {h}
    BY <1>1, <1>2, <1>5
  <2>2. PICK g \in Refs(p) : TRUE
    BY <1>5
  <2>3. p \in live \cap allocated
    BY <1>3, <2>2, HeldExists
  <2> QED
    BY <1>5, <2>1, <2>2, <2>3 DEF ObjectStep
<1>6. CASE h \notin Refs(p)' /\ h \in Refs(p)
  <2>1. Refs(p)' = Refs(p) \ {h}
    BY <1>1, <1>2, <1>6
  <2>2. p \in live \cap allocated
    BY <1>3, <1>6, HeldExists
  <2> QED
    BY <1>6, <2>1, <2>2 DEF ObjectStep
<1>7. CASE h \notin Refs(p)' /\ h \notin Refs(p)
  <2>1. Refs(p)' = Refs(p)
    BY <1>1, <1>2, <1>7
  <2> QED
    BY <2>1 DEF ObjectStep
<1> QED
  BY <1>4, <1>5, <1>6, <1>7

\* ... or none at all changes.
LEMMA ObjectKept ==
    ASSUME NEW p, proxy' = proxy, type' = type, stage' = stage,
           (p \in live' \cap allocated') <=> (p \in live \cap allocated)
    PROVE  ObjectStep(p)
<1>1. Refs(p)' = Refs(p)
  BY DEF Refs, Idle
<1> QED
  BY <1>1 DEF ObjectStep

\* Two handles are swapped: each object passes from one to the other, or stays.
LEMMA ObjectMoved ==
    ASSUME IInv, NEW p \in Objects \cup Wrappers, NEW g \in Handles, NEW h \in Handles, Move(g, h)
    PROVE  ObjectStep(p)
<1>1. /\ g \in Slots /\ h \in Slots /\ g # h /\ stage' = stage /\ Idle(g) /\ Idle(h)
      /\ live' = live /\ allocated' = allocated
  BY DEF Slots, Move, dataVars, wlVars
<1>2. /\ proxy'[h] = proxy[g] /\ type'[h] = type[g] /\ proxy'[g] = proxy[h] /\ type'[g] = type[h]
      /\ \A s \in Slots \ {g, h} : proxy'[s] = proxy[s] /\ type'[s] = type[s]
  BY SlotsOf
<1>3. \A s \in Slots \ {g, h} : s \in Refs(p)' <=> s \in Refs(p)
  BY <1>1, <1>2, HoldersBut
<1>4. /\ h \in Refs(p)' <=> g \in Refs(p)
      /\ g \in Refs(p)' <=> h \in Refs(p)
      /\ Refs(p) \subseteq Slots /\ Refs(p)' \subseteq Slots
  BY <1>1, <1>2 DEF Refs, Idle
<1>5. p \in Proxies
  BY DEF Proxies
<1>6. CASE g \in Refs(p) <=> h \in Refs(p)
  <2>1. Refs(p)' = Refs(p)
    BY <1>3, <1>4, <1>6
  <2> QED
    BY <1>1, <2>1 DEF ObjectStep
<1>7. CASE g \in Refs(p) /\ h \notin Refs(p)
  <2>1. Refs(p)' = (Refs(p) \ {g}) \cup {h}
    BY <1>1, <1>3, <1>4, <1>7
  <2>2. p \in live \cap allocated
    BY <1>5, <1>7, HeldExists
  <2> QED
    BY <1>1, <1>7, <2>1, <2>2 DEF ObjectStep
<1>8. CASE g \notin Refs(p) /\ h \in Refs(p)
  <2>1. Refs(p)' = (Refs(p) \ {h}) \cup {g}
    BY <1>1, <1>3, <1>4, <1>8
  <2>2. p \in live \cap allocated
    BY <1>5, <1>8, HeldExists
  <2> QED
    BY <1>1, <1>8, <2>1, <2>2 DEF ObjectStep
<1> QED
  BY <1>6, <1>7, <1>8

\* A wrapper is created for one handle, and its member shares what it wraps.
LEMMA ObjectWrapped ==
    ASSUME IInv, NEW p \in Objects \cup Wrappers, NEW g \in Handles, NEW h \in Handles,
           NEW w \in Wrappers, CreateWrapper(g, h, w)
    PROVE  ObjectStep(p)
<1>1. /\ g \in Slots /\ h \in Slots /\ w \in Slots /\ h # w /\ w \in Proxies /\ w # None
      /\ Full(g) /\ HasData(g) /\ Empty(h) /\ w \notin live \cup allocated
      /\ live' = live \cup {w} /\ allocated' = allocated \cup {w} /\ stage' = stage
  BY AddressAssumption DEF Slots, CreateWrapper, Wrap, Unused, NewData, Proxies
<1>2. /\ proxy'[h] = w /\ type'[h] = "proxy_wrapper" /\ proxy'[w] = proxy[g] /\ type'[w] = type[g]
      /\ \A s \in Slots \ {h, w} : proxy'[s] = proxy[s] /\ type'[s] = type[s]
  BY SlotsOf
<1>3. /\ Refs(w) = {}
      /\ \A s \in Slots : HasData(s) => proxy[s] # w
  BY <1>1, Fresh
<1>4. proxy[w] = None /\ Idle(w)
  BY <1>1 DEF IInv, MembersOwned, Releasing, HasData
<1>5. \A s \in Slots \ {h, w} : s \in Refs(p)' <=> s \in Refs(p)
  BY <1>1, <1>2, HoldersBut
<1>6. p \in Proxies /\ p # None
  BY AddressAssumption DEF Proxies
<1>7. /\ Refs(p) \subseteq Slots /\ Refs(p)' \subseteq Slots
      /\ h \notin Refs(p) /\ w \notin Refs(p) /\ (h \in Refs(p)' <=> p = w)
      /\ (g \in Refs(p) <=> p = proxy[g]) /\ (w \in Refs(p)' <=> p = proxy[g])
  BY <1>1, <1>2, <1>4, <1>6 DEF Refs, Idle, HasData, Full, Empty
<1>8. CASE p = w
  <2>1. p # proxy[g]
    BY <1>1, <1>3, <1>8
  <2>2. Refs(p)' = {h}
    BY <1>3, <1>5, <1>7, <1>8, <2>1
  <2> QED
    BY <1>1, <1>8, <2>2 DEF ObjectStep
<1>9. CASE p # w /\ p = proxy[g]
  <2>1. Refs(p)' = Refs(p) \cup {w}
    BY <1>5, <1>7, <1>9
  <2>2. g \in Refs(p) /\ p \in live \cap allocated
    BY <1>6, <1>7, <1>9, HeldExists
  <2> QED
    BY <1>1, <1>7, <2>1, <2>2 DEF ObjectStep
<1>10. CASE p # w /\ p # proxy[g]
  <2>1. Refs(p)' = Refs(p)
    BY <1>5, <1>7, <1>10
  <2> QED
    BY <1>1, <1>10, <2>1 DEF ObjectStep
<1> QED
  BY <1>8, <1>9, <1>10

\* The slot whose decrement made the counter 0 disposes of the object, ...
LEMMA ObjectClosed ==
    ASSUME IInv, NEW p \in Objects \cup Wrappers, NEW s \in Slots, Close(s)
    PROVE  ObjectStep(p)
<1>1. /\ stage[s] = "last" /\ proxy' = proxy /\ type' = type /\ allocated' = allocated
      /\ live' = live \ {proxy[s]}
  BY DEF Close, dataVars
<1>2. /\ \A t \in Slots : stage'[t] = "idle" <=> stage[t] = "idle"
  BY DEF Close, IInv, TypeOK
<1>3. Refs(p)' = Refs(p)
  BY <1>1, <1>2 DEF Refs, Idle
<1>4. CASE p = proxy[s]
  <2>1. ~Idle(s) /\ HasData(s) /\ p \in allocated /\ counter[p] = 0
    BY <1>1, <1>4 DEF Idle, IInv, Releasing
  <2>2. p \in live
    BY <1>1, <1>4, <2>1 DEF IInv, NoDangling
  <2>3. CountOK(p) /\ IsFiniteSet(Refs(p)) /\ Cardinality(Refs(p)) \in Nat
    BY <2>1, RefsFinite DEF IInv
  <2>4. Cardinality(Refs(p)) = 0
    BY <2>1, <2>3 DEF CountOK
  <2>5. Refs(p) = {}
    BY <2>3, <2>4, FS_EmptySet
  <2> QED
    BY <1>1, <1>3, <1>4, <2>1, <2>2, <2>5 DEF ObjectStep
<1>5. CASE p # proxy[s]
  BY <1>1, <1>3, <1>5 DEF ObjectStep
<1> QED
  BY <1>4, <1>5

\* ... so that nothing is left of it when the block is freed.
LEMMA ObjectFreed ==
    ASSUME IInv, Gone, NEW p \in Objects \cup Wrappers, NEW s \in Slots, Free(s)
    PROVE  ObjectStep(p)
<1>1. /\ stage[s] = "closed" /\ live' = live /\ allocated' = allocated \ {proxy[s]}
  BY DEF Free, wlVars
<1>2. proxy[s] \notin live
  BY <1>1 DEF Gone
<1>3. /\ proxy'[s] = None
      /\ \A t \in Slots \ {s} : /\ proxy'[t] = proxy[t] /\ type'[t] = type[t]
                                /\ stage'[t] = stage[t]
  BY SlotsContinued DEF Continue, Close, Free
<1>4. s \notin Refs(p)'
  BY <1>3, AddressAssumption DEF Refs, Proxies
<1> QED
  BY <1>1, <1>2, <1>3, <1>4, ObjectTaken

\* Every step of Proxy is a step or a stutter of each object.
LEMMA ObjectsStep ==
    ASSUME IInv, Gone, [Next]_vars, NEW p \in Objects \cup Wrappers
    PROVE  ObjectStep(p)
<1>0. /\ Handles \subseteq Slots /\ Wrappers \subseteq Slots /\ TypeOK
      /\ p \in Proxies /\ p # None /\ p # Display
  BY AddressAssumption DEF Slots, IInv, Proxies
<1>1. ASSUME NEW h \in Handles, Connect(h) PROVE ObjectStep(p)
  <2>1. /\ Display \in Proxies /\ Display \notin allocated /\ proxy[h] = None /\ stage[h] = "idle"
        /\ live' = live \cup {Display} /\ allocated' = allocated \cup {Display} /\ stage' = stage
    BY <1>1 DEF Connect, Unused, NewData, Proxies, Empty, Idle
  <2>2. /\ proxy'[h] = Display /\ type'[h] = "display"
        /\ \A s \in Slots \ {h} : proxy'[s] = proxy[s] /\ type'[s] = type[s]
    BY <1>1, SlotsOf
  <2> QED
    BY <1>0, <2>1, <2>2, ObjectCreated
<1>2. ASSUME NEW g \in Handles, NEW h \in Handles, NEW o \in Objects, Create(g, h, o)
      PROVE  ObjectStep(p)
  <2>1. /\ o \in Proxies /\ o \notin allocated /\ proxy[h] = None /\ stage[h] = "idle"
        /\ live' = live \cup {o} /\ allocated' = allocated \cup {o} /\ stage' = stage
    BY <1>2 DEF Create, Unused, NewData, Proxies, Empty, Idle
  <2>2. /\ proxy'[h] = o /\ type'[h] = "standard"
        /\ \A s \in Slots \ {h} : proxy'[s] = proxy[s] /\ type'[s] = type[s]
    BY <1>2, SlotsOf
  <2> QED
    BY <1>0, <2>1, <2>2, ObjectCreated
<1>3. ASSUME NEW s \in Slots, Unwrap(s) \/ Release(s) \/ Destruct(s) PROVE ObjectStep(p)
  <2>1. /\ Idle(s) /\ live' = live /\ allocated' = allocated
        /\ \A t \in Slots \ {s} : /\ proxy'[t] = proxy[t] /\ stage'[t] = stage[t]
                                  /\ type'[t] = type[t]
        /\ proxy'[s] = None \/ stage'[s] = "last"
    BY <1>0, <1>3, ReleasedStep DEF wlVars
  <2>2. s \notin Refs(p)'
    BY <1>0, <2>1 DEF Refs, Idle
  <2> QED
    BY <2>1, <2>2, ObjectTaken
<1>4. ASSUME NEW g \in Handles, NEW h \in Handles, Copy(g, h) PROVE ObjectStep(p)
  <2>1. /\ live' = live /\ allocated' = allocated /\ stage' = stage /\ Idle(g) /\ h \in Slots
    BY <1>0, <1>4 DEF Copy, wlVars
  <2>2. /\ proxy'[h] = proxy[g] /\ type'[h] = type[g]
        /\ \A s \in Slots \ {h} : proxy'[s] = proxy[s] /\ type'[s] = type[s]
    BY <1>4, SlotsOf
  <2>3. h \in Refs(p)' => g \in Refs(p)
    BY <1>0, <2>1, <2>2 DEF Refs
  <2>4. Refs(p) # {} \/ h \notin Refs(p)'
    BY <2>3
  <2> QED
    BY <2>1, <2>2, <2>4, ObjectTaken
<1>5. ASSUME NEW h \in Handles, WrapForeign(h) PROVE ObjectStep(p)
  <2>1. /\ live' = live /\ allocated' = allocated /\ stage' = stage /\ h \in Slots
    BY <1>0, <1>5 DEF WrapForeign, dataVars, wlVars
  <2>2. /\ proxy'[h] = Display
        /\ \A s \in Slots \ {h} : proxy'[s] = proxy[s] /\ type'[s] = type[s]
    BY <1>5, SlotsOf
  <2>3. h \notin Refs(p)'
    BY <1>0, <2>2 DEF Refs
  <2> QED
    BY <2>1, <2>2, <2>3, ObjectTaken
<1>6. CASE \/ \E g \in Handles, q \in Queues : CreateQueue(g, q)
           \/ \E g \in Handles, q \in Queues \cup {None} : SetQueue(g, q)
           \/ \E q \in Queues : DropQueue(q)
           \/ ForeignConnect \/ ForeignDisconnect \/ UNCHANGED vars
  <2>1. proxy' = proxy /\ type' = type /\ stage' = stage
    BY <1>6, SlotsStay
  <2>2. /\ allocated' = allocated
        /\ live' = live \/ live' = live \cup {Display} \/ live' = live \ {Display}
    BY <1>6 DEF CreateQueue, SetQueue, DropQueue, ForeignConnect, ForeignDisconnect,
                vars, dataVars, wlVars
  <2> QED
    BY <1>0, <2>1, <2>2, ObjectKept
<1>7. CASE Client(Handles)
  BY <1>0, <1>7, <1>1, <1>2, <1>3, <1>4, <1>5, <1>6, ObjectMoved, ObjectWrapped DEF Client
<1>8. CASE \E s \in Slots : Continue(s)
  BY <1>8, ObjectClosed, ObjectFreed DEF Continue
<1> QED
  BY <1>0, <1>3, <1>6, <1>7, <1>8 DEF Next

\* At first nothing is held.
LEMMA SharedInitially == Init => Shared!Init
<1> SUFFICES ASSUME Init PROVE Shared!Init
  OBVIOUS
<1>1. \A p \in Objects \cup Wrappers : Refs(p) = {}
  <2> SUFFICES ASSUME NEW p \in Objects \cup Wrappers, NEW s \in Slots, proxy[s] = p PROVE FALSE
    BY DEF Refs
  <2> QED
    BY AddressAssumption DEF Init, Proxies
<1> QED
  BY <1>1 DEF Init, Shared!Init

\* The safety part of ImplementsSharedObject: objects and proxy wrappers are
\* created for one handle, taken up only from a holder, given up one holder at a
\* time, and destroyed without holders, once; careless clients included.
THEOREM ProxyImplements == Spec => Shared!Init /\ [][Shared!Next]_(Shared!vars)
<1>1. Init => Shared!Init
  BY SharedInitially
<1>2. WrapInv /\ [Next]_vars => [Shared!Next]_(Shared!vars)
  <2> SUFFICES ASSUME WrapInv, [Next]_vars PROVE Shared!Next
    OBVIOUS
  <2> QED
    BY ObjectsStep, ObjectStepsRefine DEF WrapInv
<1>3. Spec => []WrapInv
  <2>1. Init => WrapInv
    BY LastInitial DEF LastInv
  <2>2. WrapInv /\ [Next]_vars => WrapInv'
    BY WrappersStep, Inductive DEF WrapInv
  <2> QED
    BY <2>1, <2>2, PTL DEF Spec
<1> QED
  BY <1>1, <1>2, <1>3, PTL DEF Spec
=============================================================================
