----------------------------- MODULE WireProofs -----------------------------
(***************************************************************************)
(* Proofs about Wire, for any protocol, any two releases of it and any     *)
(* bounds.                                                                 *)
(***************************************************************************)
EXTENDS Wire, FiniteSetTheorems, FunctionTheorems, SequenceTheorems, TLAPS

-----------------------------------------------------------------------------
(* The protocol *)

LEMMA Characters ==
    /\ DataTypes \cup ObjectTypes = {"int", "uint", "fixed", "string", "array", "fd", "object", "new_id"}
    /\ print_short["int"] = "i" /\ print_short["uint"] = "u" /\ print_short["fixed"] = "f"
    /\ print_short["string"] = "s" /\ print_short["object"] = "o" /\ print_short["new_id"] = "n"
    /\ print_short["array"] = "a" /\ print_short["fd"] = "h"
BY DEF DataTypes, ObjectTypes, print_short

LEMMA AnyCharacters ==
    /\ DOMAIN AnyType = {"i", "h", "u", "f", "s", "o", "n", "a"}
    /\ AnyType["i"] = "int32_t" /\ AnyType["h"] = "int32_t" /\ AnyType["u"] = "uint32_t"
    /\ AnyType["f"] = "double" /\ AnyType["s"] = "string" /\ AnyType["o"] = "object"
    /\ AnyType["n"] = "object" /\ AnyType["a"] = "array_t"
BY DEF AnyType

\* What a message of the protocol is.
LEMMA MessageFacts ==
    ASSUME NEW m \in Spoken
    PROVE  /\ m \in Messages /\ m.args \in Seq(Argument) /\ m.since \in Nat \ {0}
           /\ Len(m.args) \in Nat /\ DOMAIN m.args = 1 .. Len(m.args)
           /\ \A k \in DOMAIN m.args :
                /\ m.args[k] \in Argument
                /\ m.args[k].type \in DataTypes \cup ObjectTypes
                /\ m.args[k].allow_null \in BOOLEAN
                /\ m.args[k].interface /= NoInterface => m.args[k].type \in ObjectTypes
           /\ \A a, b \in Carried(m, "new_id") : a = b
           /\ \A a \in Carried(m, "new_id") : m.args[a].interface \in Interfaces \ Globals
<1>1. PICK i \in Interfaces :
        \E list \in {Protocol[i].requests, Protocol[i].events} : \E k \in DOMAIN list : m = list[k]
  BY DEF Spoken, Lists
<1>2. PICK list \in {Protocol[i].requests, Protocol[i].events} : \E k \in DOMAIN list : m = list[k]
  BY <1>1
<1>3. m \in Messages
  <2>1. list \in Seq(Messages)
    BY ProtocolAssumption
  <2> QED
    BY <1>2, <2>1
<1>4. m.args \in Seq(Argument) /\ m.since \in Nat \ {0}
  BY <1>3 DEF Messages
<1>5. Len(m.args) \in Nat /\ DOMAIN m.args = 1 .. Len(m.args)
  BY <1>4
<1>6. \A k1 \in DOMAIN m.args : m.args[k1] \in Argument
  BY <1>4
<1>7. ASSUME NEW a \in Argument
      PROVE  /\ a.type \in DataTypes \cup ObjectTypes /\ a.allow_null \in BOOLEAN
             /\ a.interface /= NoInterface => a.type \in ObjectTypes
  BY <1>7 DEF Argument
<1>8. /\ \A a, b \in Carried(m, "new_id") : a = b
      /\ \A a \in Carried(m, "new_id") : m.args[a].interface \in Interfaces \ Globals
  <2>1. PICK k \in DOMAIN list : m = list[k]
    BY <1>2
  <2>2. /\ \A a, b \in Carried(list[k], "new_id") : a = b
        /\ \A a \in Carried(list[k], "new_id") : list[k].args[a].interface \in Interfaces \ Globals
    BY ZenonT(30), ProtocolAssumption
  <2> QED
    BY <2>1, <2>2
<1> QED
  BY <1>3, <1>4, <1>5, <1>6, <1>7, <1>8

-----------------------------------------------------------------------------
(* How signatures are read *)

LEMMA NullsCount ==
    ASSUME NEW m \in Spoken
    PROVE  /\ Nulls(m, 0) = 0
           /\ \A k \in Nat : Nulls(m, k) \in Nat
           /\ \A k \in Nat \ {0} :
                Nulls(m, k) = Nulls(m, k - 1) + IF m.args[k].allow_null THEN 1 ELSE 0
           /\ \A j, k \in Nat : j <= k => Nulls(m, j) <= Nulls(m, k)
<1> DEFINE Set(k) == {j \in 1 .. k : m.args[j].allow_null}
<1>1. ASSUME NEW k \in Nat
      PROVE  IsFiniteSet(Set(k)) /\ Cardinality(Set(k)) \in Nat
  <2>1. IsFiniteSet(1 .. k)
    BY FS_Interval
  <2>2. IsFiniteSet(Set(k))
    BY <2>1, FS_Subset
  <2> QED
    BY <2>2, FS_CardinalityType
<1>2. Nulls(m, 0) = 0
  <2>1. Set(0) = {}
    OBVIOUS
  <2> QED
    BY <2>1, FS_EmptySet DEF Nulls
<1>3. ASSUME NEW k \in Nat \ {0}
      PROVE  Nulls(m, k) = Nulls(m, k - 1) + IF m.args[k].allow_null THEN 1 ELSE 0
  <2>1. k - 1 \in Nat /\ k \notin Set(k - 1)
    OBVIOUS
  <2>2. CASE m.args[k].allow_null
    <3>1. Set(k) = Set(k - 1) \cup {k}
      BY <2>2
    <3>2. Cardinality(Set(k - 1) \cup {k}) = Cardinality(Set(k - 1)) + 1
      <4> HIDE DEF Set
      <4> QED
        BY <1>1, <2>1, FS_AddElement
    <3>3. Cardinality(Set(k)) = Cardinality(Set(k - 1)) + 1
      BY <3>1, <3>2
    <3>4. Nulls(m, k) = Nulls(m, k - 1) + 1
      BY <3>3 DEF Nulls
    <3> QED
      BY <2>2, <3>4
  <2>3. CASE ~m.args[k].allow_null
    <3>1. Set(k) = Set(k - 1)
      BY <2>3
    <3>2. Nulls(m, k) = Nulls(m, k - 1) /\ Nulls(m, k - 1) \in Nat
      BY <1>1, <2>1, <3>1 DEF Nulls
    <3>3. Nulls(m, k) = Nulls(m, k - 1) + 0
      BY <3>2
    <3> QED
      BY <2>3, <3>3
  <2> QED
    BY <2>2, <2>3
<1>4. ASSUME NEW j \in Nat, NEW k \in Nat, j <= k
      PROVE  Nulls(m, j) <= Nulls(m, k)
  <2>1. Set(j) \subseteq Set(k)
    BY <1>4
  <2>2. Cardinality(Set(j)) <= Cardinality(Set(k))
    BY <1>1, <2>1, FS_Subset
  <2> QED
    BY <2>2 DEF Nulls
<1> QED
  BY <1>1, <1>2, <1>3, <1>4 DEF Nulls

\* The letters stand in the order of the arguments, one place on, or two where the
\* argument may be null.
LEMMA Places ==
    ASSUME NEW m \in Spoken
    PROVE  /\ \A k \in 0 .. Len(m.args) : Place(m, k) \in Nat
           /\ Place(m, 0) = Prefix(m) /\ Prefix(m) \in {0, 1}
           /\ \A k \in DOMAIN m.args :
                Place(m, k) = Place(m, k - 1) + IF m.args[k].allow_null THEN 2 ELSE 1
           /\ \A k \in 0 .. Len(m.args) : \A j \in 0 .. k :
                j # k => Place(m, j) < Place(m, k)
<1>0. Len(m.args) \in Nat /\ DOMAIN m.args = 1 .. Len(m.args)
  BY MessageFacts
<1>1. Prefix(m) \in {0, 1}
  BY DEF Prefix
<1>2. ASSUME NEW k \in 0 .. Len(m.args)
      PROVE  k \in Nat /\ Nulls(m, k) \in Nat /\ Place(m, k) = Prefix(m) + k + Nulls(m, k)
  BY <1>0, NullsCount DEF Place
<1>3. Place(m, 0) = Prefix(m)
  BY <1>0, <1>1, <1>2, NullsCount
<1>4. ASSUME NEW k \in DOMAIN m.args
      PROVE  Place(m, k) = Place(m, k - 1) + IF m.args[k].allow_null THEN 2 ELSE 1
  <2>1. k \in Nat \ {0} /\ k \in 0 .. Len(m.args) /\ k - 1 \in 0 .. Len(m.args)
    BY <1>0
  <2>2. Nulls(m, k) = Nulls(m, k - 1) + IF m.args[k].allow_null THEN 1 ELSE 0
    BY <2>1, NullsCount
  <2>3. CASE m.args[k].allow_null
    <3>1. Nulls(m, k) = Nulls(m, k - 1) + 1
      BY <2>2, <2>3
    <3>2. /\ Place(m, k) = Prefix(m) + k + Nulls(m, k)
          /\ Place(m, k - 1) = Prefix(m) + (k - 1) + Nulls(m, k - 1)
          /\ Nulls(m, k - 1) \in Nat /\ Prefix(m) \in Nat /\ k \in Nat
      BY SMTT(30), <1>1, <1>2, <2>1
    <3>3. Place(m, k) = Prefix(m) + k + (Nulls(m, k - 1) + 1)
      BY <3>1, <3>2
    <3>4. Place(m, k) = Place(m, k - 1) + 2
      BY <3>2, <3>3
    <3> QED
      BY <2>3, <3>4
  <2>4. CASE ~m.args[k].allow_null
    <3>1. Nulls(m, k) = Nulls(m, k - 1) + 0
      BY <2>2, <2>4
    <3>2. Place(m, k) = Place(m, k - 1) + 1
      BY <1>1, <1>2, <2>1, <3>1
    <3> QED
      BY <2>4, <3>2
  <2> QED
    BY <2>3, <2>4
<1>5. ASSUME NEW k \in 0 .. Len(m.args), NEW j \in 0 .. k, j # k
      PROVE  Place(m, j) < Place(m, k)
  <2>1. j \in 0 .. Len(m.args) /\ j < k
    BY <1>0, <1>5
  <2>2. Nulls(m, j) <= Nulls(m, k)
    BY <1>2, <2>1, NullsCount
  <2> QED
    BY <1>1, <1>2, <2>1, <2>2
<1> QED
  BY <1>1, <1>2, <1>3, <1>4, <1>5

\* The c-th letter is that of argument c.
LEMMA NthPlace ==
    ASSUME NEW m \in Spoken, NEW P, P = {Place(m, k) : k \in DOMAIN m.args}
    PROVE  /\ Cardinality(P) = Len(m.args)
           /\ \A c \in DOMAIN m.args : Nth(P, c) = Place(m, c)
<1> DEFINE Before(c) == {q \in P : q <= Place(m, c)}
<1>0. Len(m.args) \in Nat /\ DOMAIN m.args = 1 .. Len(m.args)
  BY MessageFacts
<1>1. \A j, k \in DOMAIN m.args : /\ Place(m, j) \in Nat
                                  /\ j < k => Place(m, j) < Place(m, k)
  BY <1>0, Places
<1>2. ASSUME NEW n \in 0 .. Len(m.args)
      PROVE  Cardinality({Place(m, k) : k \in 1 .. n}) = n
  <2> DEFINE f == [k \in 1 .. n |-> Place(m, k)]
             T == {Place(m, k) : k \in 1 .. n}
  <2>1. \A j, k \in 1 .. n : f[j] = f[k] => j = k
    BY <1>0, <1>1
  <2>2. f \in Bijection(1 .. n, T)
    BY <2>1 DEF Bijection, Injection, Surjection, IsInjective
  <2>3. IsFiniteSet(1 .. n) /\ Cardinality(1 .. n) = n
    BY <1>0, FS_Interval
  <2>4. ExistsBijection(1 .. n, T)
    BY <2>2 DEF ExistsBijection
  <2>5. Cardinality(T) = Cardinality(1 .. n)
    <3> HIDE DEF T
    <3> QED
      BY <2>3, <2>4, FS_Bijection
  <2> QED
    BY <2>3, <2>5
<1>3. Cardinality(P) = Len(m.args)
  BY <1>0, <1>2
<1>4. ASSUME NEW c \in DOMAIN m.args
      PROVE  Cardinality(Before(c)) = c
  <2>1. Before(c) = {Place(m, k) : k \in 1 .. c}
    <3>1. ASSUME NEW k \in DOMAIN m.args
          PROVE  Place(m, k) <= Place(m, c) <=> k <= c
      BY <1>0, <1>1
    <3> QED
      BY <1>0, <3>1
  <2> QED
    BY <1>0, <1>2, <2>1
<1>5. ASSUME NEW c \in DOMAIN m.args PROVE Nth(P, c) = Place(m, c)
  <2>1. \A p \in P : Cardinality({q \in P : q <= p}) = c => p = Place(m, c)
    BY <1>0, <1>4
  <2>2. Place(m, c) \in P /\ Cardinality({q \in P : q <= Place(m, c)}) = c
    BY <1>4
  <2> QED
    BY <2>1, <2>2 DEF Nth
<1> QED
  BY <1>3, <1>5

\* A letter for each argument, a "?" before it where it may be null, and nothing
\* else that a reader takes for an argument.
LEMMA SignatureAt ==
    ASSUME NEW m \in Spoken
    PROVE  /\ \A k \in DOMAIN m.args :
                /\ Place(m, k) \in DOMAIN Signature[m]
                /\ Signature[m][Place(m, k)] = print_short[m.args[k].type]
                /\ m.args[k].allow_null =>
                     Place(m, k) > 1 /\ Signature[m][Place(m, k) - 1] = "?"
           /\ \A p \in DOMAIN Signature[m] \ {Place(m, k) : k \in DOMAIN m.args} :
                Signature[m][p] \in {"?", Digits}
<1> DEFINE At(p) == {k \in DOMAIN m.args : Place(m, k) = p}
           n == Len(m.args)
<1>0. n \in Nat /\ DOMAIN m.args = 1 .. n
  BY MessageFacts
<1>1. Signature[m] = [p \in 1 .. Place(m, n) |->
        IF At(p) /= {} THEN print_short[m.args[CHOOSE k \in At(p) : TRUE].type]
        ELSE IF p <= Prefix(m) THEN Digits ELSE "?"]
  BY DEF Signature
<1>2. /\ \A k \in 0 .. n : Place(m, k) \in Nat
      /\ Place(m, 0) = Prefix(m) /\ Prefix(m) \in {0, 1}
      /\ \A k \in 0 .. n : \A j \in 0 .. k : j # k => Place(m, j) < Place(m, k)
  BY Places
<1>3. ASSUME NEW k \in DOMAIN m.args
      PROVE  Place(m, k) \in 1 .. Place(m, n) /\ At(Place(m, k)) = {k}
  <2>1. k \in 0 .. n /\ 0 \in 0 .. k /\ 0 # k /\ n \in 0 .. n /\ k \in 0 .. n
    BY <1>0
  <2>2. Place(m, k) >= 1 /\ Place(m, k) <= Place(m, n)
    <3>1. Place(m, 0) < Place(m, k) /\ Place(m, 0) \in Nat /\ Place(m, k) \in Nat
      BY <1>2, <2>1
    <3>2. k = n \/ Place(m, k) < Place(m, n)
      BY <1>0, <1>2, <2>1
    <3> QED
      BY <1>2, <2>1, <3>1, <3>2
  <2>3. \A j \in DOMAIN m.args : Place(m, j) = Place(m, k) => j = k
    BY <1>0, <1>2
  <2> QED
    BY <1>2, <2>1, <2>2, <2>3
<1>4. ASSUME NEW k \in DOMAIN m.args
      PROVE  Signature[m][Place(m, k)] = print_short[m.args[k].type]
  <2>1. (CHOOSE j \in At(Place(m, k)) : TRUE) = k
    BY <1>3
  <2> QED
    BY <1>1, <1>3, <2>1
<1>5. ASSUME NEW k \in DOMAIN m.args, m.args[k].allow_null
      PROVE  Place(m, k) > 1 /\ Signature[m][Place(m, k) - 1] = "?"
  <2>1. k \in 0 .. n /\ k - 1 \in 0 .. n /\ Place(m, k) = Place(m, k - 1) + 2
    BY <1>0, <1>5, Places
  <2>2. Place(m, k) - 1 = Place(m, k - 1) + 1 /\ Place(m, k - 1) >= Prefix(m)
    <3>1. k - 1 = 0 \/ Place(m, 0) < Place(m, k - 1)
      BY <1>0, <1>2, <2>1
    <3> QED
      BY <1>2, <2>1, <3>1
  <2>3. At(Place(m, k) - 1) = {}
    <3>1. ASSUME NEW j \in DOMAIN m.args PROVE Place(m, j) # Place(m, k) - 1
      <4>1. j \in 0 .. n /\ (j <= k - 1 \/ j >= k)
        BY <1>0
      <4>2. CASE j <= k - 1
        <5>1. Place(m, j) <= Place(m, k - 1)
          BY <1>0, <1>2, <2>1, <4>1, <4>2
        <5> QED
          BY SMTT(30), <1>2, <2>1, <2>2, <4>1, <5>1
      <4>3. CASE j >= k
        <5>1. Place(m, k) <= Place(m, j)
          BY <1>0, <1>2, <2>1, <4>1, <4>3
        <5> QED
          BY SMTT(30), <1>2, <2>1, <2>2, <4>1, <5>1
      <4> QED
        BY <4>1, <4>2, <4>3
    <3> QED
      BY <3>1
  <2>4. Place(m, k) - 1 \in 1 .. Place(m, n) /\ ~(Place(m, k) - 1 <= Prefix(m)) /\ Place(m, k) > 1
    <3>1. Prefix(m) \in Nat /\ Place(m, k - 1) \in Nat /\ Place(m, k) \in 1 .. Place(m, n)
          /\ Place(m, n) \in Nat
      BY <1>0, <1>2, <1>3, <2>1
    <3> QED
      BY SMTT(30), <2>1, <2>2, <3>1
  <2> QED
    BY <1>1, <2>3, <2>4
<1>6. ASSUME NEW p \in DOMAIN Signature[m] \ {Place(m, k) : k \in DOMAIN m.args}
      PROVE  Signature[m][p] \in {"?", Digits}
  <2>1. At(p) = {} /\ p \in 1 .. Place(m, n)
    BY <1>1
  <2> QED
    BY <1>1, <2>1
<1> QED
  BY <1>1, <1>3, <1>4, <1>5, <1>6

\* libwayland and c_dispatcher read the types of the arguments from a signature, in
\* their order, and libwayland which of them may be null.
LEMMA Reading ==
    ASSUME NEW m \in Spoken
    PROVE  /\ Letters[m] = [c \in DOMAIN m.args |-> print_short[m.args[c].type]]
           /\ Read[m] = Letters[m]
           /\ \A c \in DOMAIN m.args : m.args[c].allow_null => c \in Optional[m]
<1> DEFINE P == {Place(m, k) : k \in DOMAIN m.args}
<1>1. \A k \in DOMAIN m.args : print_short[m.args[k].type] \notin {"?", Digits}
  BY MessageFacts, Characters DEF Digits
<1>2. LetterPlaces(m) = P /\ ReadPlaces(m) = P
  BY <1>1, SignatureAt DEF LetterPlaces, ReadPlaces, Skipped
<1>3. Cardinality(P) = Len(m.args) /\ \A c \in DOMAIN m.args : Nth(P, c) = Place(m, c)
  BY NthPlace
<1>4. DOMAIN m.args = 1 .. Len(m.args)
  BY MessageFacts
<1>5. AtPlaces(Signature[m], P) = [c \in DOMAIN m.args |-> print_short[m.args[c].type]]
  <2> HIDE DEF P
  <2> QED
    BY <1>3, <1>4, SignatureAt DEF AtPlaces
<1>6. Letters[m] = AtPlaces(Signature[m], P) /\ Read[m] = AtPlaces(Signature[m], P)
  BY <1>2 DEF Letters, Read
<1>7. \A c \in DOMAIN m.args : m.args[c].allow_null => c \in Optional[m]
  BY <1>2, <1>3, <1>5, <1>6, SignatureAt DEF Optional
<1> QED
  BY <1>5, <1>6, <1>7

-----------------------------------------------------------------------------
(* From a call to a handler *)

\* What is put into a message for each argument.
LEMMA Packed ==
    ASSUME NEW m \in Spoken, NEW args, NEW new
    PROVE  LET cargs == CallArguments(m, args)
               body  == Body(m, cargs, new)
           IN  /\ DOMAIN cargs = DOMAIN m.args
               /\ \A c \in DOMAIN m.args :
                    /\ cargs[c].field = print_short[m.args[c].type]
                    /\ m.args[c].type = "object" => cargs[c].value = args[c]
               /\ DOMAIN body = DOMAIN m.args
               /\ \A c \in DOMAIN m.args :
                    body[c] = CASE m.args[c].type = "new_id" -> new
                                [] m.args[c].type = "fixed"  -> FixedFromDouble(args[c])
                                [] OTHER                     -> args[c]
<1> DEFINE cargs == CallArguments(m, args)
           body  == Body(m, cargs, new)
<1>1. /\ Letters[m] = [c \in DOMAIN m.args |-> print_short[m.args[c].type]]
  BY Reading
<1>2. ASSUME NEW c \in DOMAIN m.args
      PROVE  /\ m.args[c].type = "new_id" <=> print_short[m.args[c].type] = "n"
  BY MessageFacts, Characters
<1>3. /\ DOMAIN cargs = DOMAIN m.args
      /\ \A c \in DOMAIN m.args : cargs[c] = argument_t(m.args[c], args[c])
  BY DEF CallArguments
<1>4. DOMAIN body = DOMAIN m.args
  BY <1>1 DEF Body
<1>5. ASSUME NEW c \in DOMAIN m.args
      PROVE  /\ cargs[c].field = print_short[m.args[c].type]
             /\ m.args[c].type = "object" => cargs[c].value = args[c]
             /\ body[c] = CASE m.args[c].type = "new_id" -> new
                            [] m.args[c].type = "fixed"  -> FixedFromDouble(args[c])
                            [] OTHER                     -> args[c]
  <2>1. /\ cargs[c].field = print_short[m.args[c].type]
        /\ cargs[c].value = CASE m.args[c].type = "new_id" -> 0
                              [] m.args[c].type = "fixed"  -> FixedFromDouble(args[c])
                              [] OTHER                     -> args[c]
    <3>1. cargs[c] = argument_t(m.args[c], args[c])
      BY <1>3
    <3> HIDE DEF cargs
    <3> QED
      BY <3>1 DEF argument_t
  <2>2. Letters[m][c] = print_short[m.args[c].type]
    BY <1>1
  <2>3. body[c] = IF Letters[m][c] = "n" THEN new ELSE cargs[c].value
    <3> HIDE DEF cargs
    <3> QED
      BY <1>1, <1>3, <2>1, <2>2 DEF Body
  <2> HIDE DEF cargs, body
  <2>4. CASE m.args[c].type = "new_id"
    BY <1>2, <2>1, <2>2, <2>3, <2>4
  <2>5. CASE m.args[c].type # "new_id"
    BY <1>2, <2>1, <2>2, <2>3, <2>5
  <2> QED
    BY <2>4, <2>5
<1> QED
  BY <1>3, <1>4, <1>5

\* What c_dispatcher takes out of it: of the type that the generated dispatcher asks
\* for, in the same place.
LEMMA Unpacked ==
    ASSUME NEW m \in Spoken, NEW body, DOMAIN body = DOMAIN m.args
    PROVE  /\ ~BadCast(m, Decode(m, body))
           /\ \A c \in DOMAIN m.args :
                Decode(m, body)[c].value =
                  IF m.args[c].type = "fixed" THEN FixedToDouble(body[c]) ELSE body[c]
<1>1. Read[m] = [c \in DOMAIN m.args |-> print_short[m.args[c].type]]
  BY Reading
<1>2. /\ DOMAIN Decode(m, body) = DOMAIN m.args
      /\ \A c \in DOMAIN m.args :
           Decode(m, body)[c] = AnyOf(print_short[m.args[c].type], body[c])
  BY <1>1 DEF Decode
<1>3. ASSUME NEW c \in DOMAIN m.args
      PROVE  LET any == AnyOf(print_short[m.args[c].type], body[c])
             IN  /\ any.type = DispatchedType(m.args[c])
                 /\ any.value =
                      IF m.args[c].type = "fixed" THEN FixedToDouble(body[c]) ELSE body[c]
  <2>1. m.args[c].type \in {"int", "uint", "fixed", "string", "array", "fd", "object", "new_id"}
    BY MessageFacts, Characters
  <2> QED
    BY <2>1, Characters, AnyCharacters DEF AnyOf, DispatchedType
<1> QED
  BY <1>2, <1>3 DEF BadCast

-----------------------------------------------------------------------------
(* Descriptions of two releases *)

\* The messages that a side sends to objects of an interface.
Said(side, i) == IF side = "client" THEN Protocol[i].requests ELSE Protocol[i].events

\* Two releases number what both have alike, because they only append.
LEMMA Compiled ==
    ASSUME release \in [Sides -> Releases], NEW side \in Sides, NEW i \in Interfaces
    PROVE  LET listed(r) == {k \in DOMAIN Said(side, i) : Said(side, i)[k].since <= r}
           IN  /\ Outgoing(side, i) = [k \in listed(release[side]) |-> Said(side, i)[k]]
               /\ Incoming(Peer(side), i) =
                    [k \in listed(release[Peer(side)]) |-> Said(side, i)[k]]
               /\ \A k \in DOMAIN Said(side, i) :
                    /\ Said(side, i)[k] \in Spoken /\ k \in Nat \ {0}
                    /\ Said(side, i)[k].since \in Nat \ {0}
                    /\ Said(side, i)[k].since <= Protocol[i].version
<1> DEFINE list == Said(side, i)
<1>1. side \in {"client", "server"} /\ Peer(side) \in Sides
  BY DEF Sides, Peer
<1>2. list \in {Protocol[i].requests, Protocol[i].events} /\ list \in Seq(Messages)
  BY ProtocolAssumption DEF Said
<1>3. release[side] \in Releases /\ release[Peer(side)] \in Releases
  BY <1>1
<1>4. Outgoing(side, i) = [k \in {k \in DOMAIN list : list[k].since <= release[side]} |-> list[k]]
  BY <1>1, <1>3 DEF Outgoing, Described, Xml, Said
<1>5. Incoming(Peer(side), i) =
        [k \in {k \in DOMAIN list : list[k].since <= release[Peer(side)]} |-> list[k]]
  BY <1>1, <1>3 DEF Incoming, Described, Xml, Said, Peer
<1>6. ASSUME NEW k \in DOMAIN list
      PROVE  /\ list[k] \in Spoken /\ k \in Nat \ {0} /\ list[k].since \in Nat \ {0}
             /\ list[k].since <= Protocol[i].version
  <2>1. list[k] \in Spoken
    BY <1>2 DEF Spoken, Lists
  <2>2. k \in Nat \ {0}
    BY <1>2
  <2>3. list[k].since <= Protocol[i].version
    BY <1>2, ProtocolAssumption
  <2> QED
    BY <2>1, <2>2, <2>3, MessageFacts
<1> QED
  BY <1>4, <1>5, <1>6

LEMMA Version ==
    ASSUME release \in [Sides -> Releases], NEW side \in Sides, NEW i \in Interfaces
    PROVE  /\ Described(side, i).version =
                IF release[side] < Protocol[i].version THEN release[side] ELSE Protocol[i].version
           /\ Described(side, i).version \in Nat \ {0}
           /\ Protocol[i].version \in Nat \ {0} /\ release[side] \in Nat \ {0}
<1>1. release[side] \in Releases /\ Releases \subseteq Nat \ {0}
  BY ProtocolAssumption
<1>2. Protocol[i].version \in Nat \ {0}
  BY ProtocolAssumption
<1>3. Described(side, i).version =
        IF release[side] < Protocol[i].version THEN release[side] ELSE Protocol[i].version
  BY <1>1 DEF Described, Xml
<1> QED
  BY <1>1, <1>2, <1>3
-----------------------------------------------------------------------------
(* The invariant *)

Entries == [interface : Interfaces \cup {NoInterface}, version : Nat]

Variables ==
    /\ release \in [Sides -> Releases]
    /\ proxies \in [Objects -> Entries] /\ resources \in [Objects -> Entries]
    /\ zombies \subseteq Objects
    /\ InFlight <= MaxInFlight
    /\ status \in {"open", "refused", "threw", "crashed"}

Queues == \E S : under_way \in [Sides -> Seq(S)]

\* Objects of this version have the request that destroys them, if there is one.
Destructible(i, version) ==
    \A k \in DestroyRequest(Protocol[i].requests) : Protocol[i].requests[k].since <= version

\* The client's objects have a version that both programs know and in which they can
\* be destroyed.
ProxiesOK ==
    \A o \in Objects : Exists("client", o) =>
        /\ proxies[o].interface \in Interfaces
        /\ Destructible(proxies[o].interface, proxies[o].version)
        /\ \A side \in Sides : proxies[o].version <= release[side]

\* The server's objects are the client's, with the version they were bound with or
\* the latest that the server has.
Given(o) ==
    [interface |-> proxies[o].interface,
     version   |-> IF proxies[o].interface \in Globals THEN proxies[o].version
                   ELSE Described("server", proxies[o].interface).version]
ResourcesOK ==
    \A o \in Objects : Exists("server", o) => Exists("client", o) /\ resources[o] = Given(o)

\* An argument that a program may pass.
ArgumentOK(side, arg, v) ==
    /\ arg.type = "fixed" => v \in Int
    /\ arg.type = "object" =>
        /\ v \in Objects \cup {0}
        /\ v # 0 => /\ Exists(side, v)
                    /\ arg.interface \in {NoInterface, Table(side)[v].interface}
        /\ v = 0 => /\ arg.allow_null
                    /\ side = "client" /\ arg.interface # NoInterface => "null_typed" \in Habits

\* The object a call introduces.
NewOK(side, m, new) ==
    IF Carried(m, "new_id") = {} THEN new = 0
    ELSE /\ side = "client" /\ new \in Objects /\ Exists(side, new)
         /\ \A a \in Carried(m, "new_id") : proxies[new].interface = m.args[a].interface

\* A message under way is one that its sender's object has, of a release that the
\* object's version allows, and was packed from the arguments of a call.
Sound(side, msg) ==
    LET m    == msg.message
        list == Said(side, Table(side)[msg.object].interface)
    IN  /\ msg.object \in Objects /\ Exists(side, msg.object)
        /\ msg.opcode + 1 \in DOMAIN list /\ m = list[msg.opcode + 1]
        /\ m.since <= Table(side)[msg.object].version
        /\ side = "client" \/ "trust_can" \in Habits \/ m.since <= proxies[msg.object].version
        /\ \A c \in DOMAIN m.args : ArgumentOK(side, m.args[c], msg.args[c])
        /\ NewOK(side, m, msg.new)
        /\ msg.body = Body(m, CallArguments(m, msg.args), msg.new)

\* Or it is a wl_registry.bind.
Bound(msg) ==
    /\ msg.object = Registry /\ msg.new \in Objects /\ Exists("client", msg.new)
    /\ proxies[msg.new].interface \in Globals
    /\ msg.body[2] = proxies[msg.new].interface /\ msg.body[3] = proxies[msg.new].version
    /\ msg.body[4] = msg.new
    /\ msg.message.args = <<>>

Waiting(side) == {under_way[side][j] : j \in DOMAIN under_way[side]}

QueuesOK ==
    /\ \A msg \in Waiting("server") : Bound(msg) \/ Sound("client", msg)
    /\ \A msg \in Waiting("client") : Sound("server", msg)

\* The server gets to know an object before it meets it anywhere else.
Arrives(o, j) ==
    \/ Exists("server", o)
    \/ \E i \in DOMAIN under_way["server"] : i < j /\ under_way["server"][i].new = o
Names(msg) ==
    ({msg.object} \cup {msg.args[c] : c \in Carried(msg.message, "object")}) \cap Objects
InOrder ==
    status = "open" =>
        /\ \A o \in Objects : Exists("client", o) => Arrives(o, Len(under_way["server"]) + 1)
        /\ \A j \in DOMAIN under_way["server"] :
             \A o \in Names(under_way["server"][j]) : Arrives(o, j)

WInv == Variables /\ Queues /\ ProxiesOK /\ ResourcesOK /\ QueuesOK /\ InOrder

-----------------------------------------------------------------------------
(* Steps keep the invariant *)

\* What a step may do to the objects.
Grow ==
    /\ release' = release
    /\ \A o \in Objects : /\ Exists("client", o) => proxies'[o] = proxies[o]
                          /\ Exists("server", o) => resources'[o] = resources[o]

LEMMA TableOf ==
    /\ Table("client") = proxies /\ Table("server") = resources
    /\ Table("client")' = proxies' /\ Table("server")' = resources'
    /\ \A o : /\ Exists("client", o) <=> proxies[o] # NoObject
              /\ Exists("server", o) <=> resources[o] # NoObject
              /\ Exists("client", o)' <=> proxies'[o] # NoObject
              /\ Exists("server", o)' <=> resources'[o] # NoObject
    /\ Sides = {"client", "server"} /\ Peer("client") = "server" /\ Peer("server") = "client"
BY DEF Table, Exists, Sides, Peer

LEMMA ObjectNumbers == Objects \subseteq Nat \ {0} /\ Registry \notin Objects
BY BoundsAssumption DEF Objects, Registry

\* What a message stands for stays true.
LEMMA ArgumentStays ==
    ASSUME Grow, NEW side \in Sides, NEW arg, NEW v, ArgumentOK(side, arg, v)
    PROVE  ArgumentOK(side, arg, v)'
<1>1. CASE side = "client"
  <2>1. \A o \in Objects : Exists("client", o) =>
          Exists("client", o)' /\ Table("client")'[o] = Table("client")[o]
    BY TableOf DEF Grow
  <2> QED
    BY <1>1, <2>1 DEF ArgumentOK
<1>2. CASE side = "server"
  <2>1. \A o \in Objects : Exists("server", o) =>
          Exists("server", o)' /\ Table("server")'[o] = Table("server")[o]
    BY TableOf DEF Grow
  <2> QED
    BY <1>2, <2>1 DEF ArgumentOK
<1> QED
  BY <1>1, <1>2 DEF Sides

LEMMA SoundStays ==
    ASSUME Grow, ResourcesOK, NEW side \in Sides, NEW msg, Sound(side, msg)
    PROVE  Sound(side, msg)'
<1>0. msg.object \in Objects /\ Exists(side, msg.object)
  BY DEF Sound
<1>1. Exists(side, msg.object)' /\ Table(side)'[msg.object] = Table(side)[msg.object]
  BY <1>0, TableOf DEF Grow, Sides
<1>2. proxies'[msg.object] = proxies[msg.object]
  BY <1>0, TableOf DEF Grow, Sides, ResourcesOK
<1>3. \A c \in DOMAIN msg.message.args :
        ArgumentOK(side, msg.message.args[c], msg.args[c])'
  <2>1. ASSUME NEW c \in DOMAIN msg.message.args
        PROVE  ArgumentOK(side, msg.message.args[c], msg.args[c])'
    <3>1. ArgumentOK(side, msg.message.args[c], msg.args[c])
      BY DEF Sound
    <3> QED
      BY <3>1, ArgumentStays
  <2> QED
    BY <2>1
<1>4. NewOK(side, msg.message, msg.new)'
  BY TableOf DEF Grow, NewOK, Sound
<1> QED
  BY <1>0, <1>1, <1>2, <1>3, <1>4 DEF Sound

LEMMA BoundStays ==
    ASSUME Grow, NEW msg, Bound(msg)
    PROVE  Bound(msg)'
BY TableOf DEF Grow, Bound

LEMMA GivenStays ==
    ASSUME Grow, NEW o \in Objects, Exists("client", o)
    PROVE  Given(o)' = Given(o)
BY TableOf DEF Grow, Given, Described

\* A message is posted.
LEMMA Posted ==
    ASSUME Queues, NEW side \in Sides, NEW msg,
           under_way' = [under_way EXCEPT ![side] = Append(@, msg)]
    PROVE  LET n == Len(under_way[side])
           IN  /\ Queues' /\ n \in Nat /\ DOMAIN under_way[side] = 1 .. n
               /\ Len(under_way'[side]) = n + 1 /\ DOMAIN under_way'[side] = 1 .. n + 1
               /\ under_way'[side][n + 1] = msg
               /\ \A j \in 1 .. n : under_way'[side][j] = under_way[side][j]
               /\ under_way'[Peer(side)] = under_way[Peer(side)]
               /\ Waiting(side)' \subseteq Waiting(side) \cup {msg}
               /\ Waiting(Peer(side))' = Waiting(Peer(side))
               /\ InFlight' = InFlight + 1
<1> DEFINE n == Len(under_way[side])
<1>1. PICK S : under_way \in [Sides -> Seq(S)]
  BY DEF Queues
<1>2. Sides = {"client", "server"} /\ Peer(side) \in Sides /\ Peer(side) # side
  BY DEF Sides, Peer
<1>3. under_way[side] \in Seq(S) /\ under_way[side] \in Seq(S \cup {msg})
      /\ under_way[Peer(side)] \in Seq(S \cup {msg})
  BY <1>1, <1>2
<1>4. n \in Nat /\ DOMAIN under_way[side] = 1 .. n
  BY <1>3
<1>5. under_way'[side] = Append(under_way[side], msg)
      /\ under_way'[Peer(side)] = under_way[Peer(side)]
  BY <1>1, <1>2
<1>6. under_way'[side] \in Seq(S \cup {msg}) /\ Len(under_way'[side]) = n + 1
      /\ DOMAIN under_way'[side] = 1 .. n + 1
  BY <1>3, <1>5
<1>7. under_way'[side][n + 1] = msg /\ \A j \in 1 .. n : under_way'[side][j] = under_way[side][j]
  BY <1>3, <1>4, <1>5
<1>8. Queues'
  <2>1. under_way' \in [Sides -> Seq(S \cup {msg})]
    <3>1. DOMAIN under_way' = Sides /\ under_way' = [s \in Sides |-> under_way'[s]]
      BY <1>1
    <3>2. \A s \in Sides : under_way'[s] \in Seq(S \cup {msg})
      BY <1>2, <1>3, <1>5, <1>6
    <3> QED
      BY <3>1, <3>2
  <2> QED
    BY <2>1 DEF Queues
<1>9. Waiting(side)' \subseteq Waiting(side) \cup {msg}
      /\ Waiting(Peer(side))' = Waiting(Peer(side))
  <2>1. \A j \in 1 .. n + 1 : j = n + 1 \/ j \in 1 .. n
    BY <1>4
  <2> QED
    BY <1>4, <1>5, <1>6, <1>7, <2>1 DEF Waiting
<1>10. InFlight' = InFlight + 1
  <2>1. ASSUME NEW q \in Seq(S) PROVE Len(q) \in Nat
    OBVIOUS
  <2>2. CASE side = "client"
    <3>1. under_way["server"] \in Seq(S) /\ under_way'["server"] = under_way["server"]
      BY <1>1, <1>2, <1>5, <2>2 DEF Peer
    <3>2. Len(under_way["server"]) \in Nat
      BY <2>1, <3>1
    <3>3. Len(under_way["client"]) = n /\ Len(under_way'["client"]) = n + 1
      BY <1>6, <2>2
    <3>4. InFlight = n + Len(under_way["server"]) /\ InFlight' = (n + 1) + Len(under_way["server"])
      BY <3>1, <3>3 DEF InFlight
    <3>5. n \in Nat
      BY <1>4
    <3>6. ASSUME NEW a \in Nat, NEW b \in Nat PROVE (a + 1) + b = (a + b) + 1
      OBVIOUS
    <3> HIDE DEF n
    <3>7. (n + 1) + Len(under_way["server"]) = (n + Len(under_way["server"])) + 1
      BY <3>2, <3>5, <3>6
    <3> QED
      BY <3>4, <3>7
  <2>3. CASE side = "server"
    <3>1. under_way["client"] \in Seq(S) /\ under_way'["client"] = under_way["client"]
      BY <1>1, <1>2, <1>5, <2>3 DEF Peer
    <3>2. Len(under_way["client"]) \in Nat
      BY <2>1, <3>1
    <3>3. Len(under_way["server"]) = n /\ Len(under_way'["server"]) = n + 1
      BY <1>6, <2>3
    <3>4. InFlight = Len(under_way["client"]) + n /\ InFlight' = Len(under_way["client"]) + (n + 1)
      BY <3>1, <3>3 DEF InFlight
    <3>5. n \in Nat
      BY <1>4
    <3>6. ASSUME NEW a \in Nat, NEW b \in Nat PROVE b + (a + 1) = (b + a) + 1
      OBVIOUS
    <3> HIDE DEF n
    <3>7. Len(under_way["client"]) + (n + 1) = (Len(under_way["client"]) + n) + 1
      BY <3>2, <3>5, <3>6
    <3> QED
      BY <3>4, <3>7
  <2> QED
    BY <1>2, <2>2, <2>3
<1> QED
  BY <1>4, <1>5, <1>6, <1>7, <1>8, <1>9, <1>10

\* The first message is taken.
LEMMA Taken ==
    ASSUME Queues, NEW side \in Sides, under_way[side] # <<>>,
           under_way' = [under_way EXCEPT ![side] = Tail(@)]
    PROVE  LET n == Len(under_way[side])
           IN  /\ Queues' /\ n \in Nat \ {0} /\ DOMAIN under_way[side] = 1 .. n
               /\ Len(under_way'[side]) = n - 1 /\ DOMAIN under_way'[side] = 1 .. n - 1
               /\ under_way[side][1] = Head(under_way[side])
               /\ \A j \in 1 .. n - 1 : under_way'[side][j] = under_way[side][j + 1]
               /\ under_way'[Peer(side)] = under_way[Peer(side)]
               /\ Head(under_way[side]) \in Waiting(side)
               /\ Waiting(side)' \subseteq Waiting(side)
               /\ Waiting(Peer(side))' = Waiting(Peer(side))
               /\ InFlight' = InFlight - 1 /\ InFlight \in Nat
<1> DEFINE n == Len(under_way[side])
<1>1. PICK S : under_way \in [Sides -> Seq(S)]
  BY DEF Queues
<1>2. Sides = {"client", "server"} /\ Peer(side) \in Sides /\ Peer(side) # side
  BY DEF Sides, Peer
<1>3. under_way[side] \in Seq(S) /\ under_way[Peer(side)] \in Seq(S)
  BY <1>1, <1>2
<1>4. n \in Nat \ {0} /\ DOMAIN under_way[side] = 1 .. n
  BY <1>3
<1>5. under_way'[side] = Tail(under_way[side])
      /\ under_way'[Peer(side)] = under_way[Peer(side)]
  BY <1>1, <1>2
<1>6. under_way'[side] \in Seq(S) /\ Len(under_way'[side]) = n - 1
      /\ DOMAIN under_way'[side] = 1 .. n - 1
  <2>1. ASSUME NEW q \in Seq(S), q # <<>>
        PROVE  Tail(q) \in Seq(S) /\ Len(Tail(q)) = Len(q) - 1 /\ DOMAIN Tail(q) = 1 .. Len(q) - 1
    BY <2>1, HeadTailProperties
  <2> QED
    BY <1>3, <1>5, <2>1
<1>7. under_way[side][1] = Head(under_way[side])
      /\ \A j \in 1 .. n - 1 : under_way'[side][j] = under_way[side][j + 1]
  <2>1. ASSUME NEW q \in Seq(S), q # <<>>
        PROVE  q[1] = Head(q) /\ \A j \in 1 .. Len(q) - 1 : Tail(q)[j] = q[j + 1]
    BY <2>1
  <2> QED
    BY <1>3, <1>5, <2>1
<1>8. Queues'
  <2>1. under_way' \in [Sides -> Seq(S)]
    <3>1. DOMAIN under_way' = Sides /\ under_way' = [s \in Sides |-> under_way'[s]]
      BY <1>1
    <3>2. \A s \in Sides : under_way'[s] \in Seq(S)
      BY <1>2, <1>3, <1>5, <1>6
    <3> QED
      BY <3>1, <3>2
  <2> QED
    BY <2>1 DEF Queues
<1>9. Head(under_way[side]) \in Waiting(side) /\ Waiting(side)' \subseteq Waiting(side)
      /\ Waiting(Peer(side))' = Waiting(Peer(side))
  <2>1. \A j \in 1 .. n - 1 : j + 1 \in 1 .. n
    BY <1>4
  <2>2. 1 \in 1 .. n
    BY <1>4
  <2> QED
    BY <1>4, <1>5, <1>6, <1>7, <2>1, <2>2 DEF Waiting
<1>10. InFlight' = InFlight - 1 /\ InFlight \in Nat
  <2>1. ASSUME NEW q \in Seq(S) PROVE Len(q) \in Nat
    OBVIOUS
  <2>2. CASE side = "client"
    <3>1. under_way["server"] \in Seq(S) /\ under_way'["server"] = under_way["server"]
      BY <1>1, <1>2, <1>5, <2>2 DEF Peer
    <3>2. Len(under_way["server"]) \in Nat
      BY <2>1, <3>1
    <3>3. Len(under_way["client"]) = n /\ Len(under_way'["client"]) = n - 1
      BY <1>6, <2>2
    <3>4. InFlight = n + Len(under_way["server"]) /\ InFlight' = (n - 1) + Len(under_way["server"])
      BY <3>1, <3>3 DEF InFlight
    <3>5. n \in Nat \ {0}
      BY <1>4
    <3> HIDE DEF n
    <3> QED
      BY <3>2, <3>4, <3>5
  <2>3. CASE side = "server"
    <3>1. under_way["client"] \in Seq(S) /\ under_way'["client"] = under_way["client"]
      BY <1>1, <1>2, <1>5, <2>3 DEF Peer
    <3>2. Len(under_way["client"]) \in Nat
      BY <2>1, <3>1
    <3>3. Len(under_way["server"]) = n /\ Len(under_way'["server"]) = n - 1
      BY <1>6, <2>3
    <3>4. InFlight = Len(under_way["client"]) + n /\ InFlight' = Len(under_way["client"]) + (n - 1)
      BY <3>1, <3>3 DEF InFlight
    <3>5. n \in Nat \ {0}
      BY <1>4
    <3> HIDE DEF n
    <3> QED
      BY <3>2, <3>4, <3>5
  <2> QED
    BY <1>2, <2>2, <2>3
<1> QED
  BY <1>4, <1>5, <1>6, <1>7, <1>8, <1>9, <1>10

\* libwayland refuses to marshal a new object that is not there, and nothing else
\* that a program may pass.
LEMMA Refused ==
    ASSUME NEW side \in Sides, NEW m \in Spoken, NEW args, NEW new,
           \A c \in DOMAIN m.args : ArgumentOK(side, m.args[c], args[c])
    PROVE  RefusesToSend(m, CallArguments(m, args), new) <=>
             Carried(m, "new_id") # {} /\ new = 0
<1> DEFINE cargs == CallArguments(m, args)
<1>1. /\ DOMAIN cargs = DOMAIN m.args
      /\ \A c \in DOMAIN m.args :
           /\ cargs[c].field = print_short[m.args[c].type]
           /\ m.args[c].type = "object" => cargs[c].value = args[c]
  BY SMTT(30), Packed
<1> HIDE DEF cargs
<1>2. ASSUME NEW c \in DOMAIN m.args
      PROVE  /\ cargs[c].field = "n" <=> c \in Carried(m, "new_id")
             /\ ~(cargs[c].field = "o" /\ cargs[c].value = 0 /\ c \notin Optional[m])
  <2>1. /\ cargs[c].field = print_short[m.args[c].type]
        /\ m.args[c].type = "object" => cargs[c].value = args[c]
    BY <1>1
  <2>2. /\ print_short[m.args[c].type] = "n" <=> m.args[c].type = "new_id"
        /\ print_short[m.args[c].type] = "o" <=> m.args[c].type = "object"
    BY MessageFacts, Characters
  <2>3. cargs[c].field = "n" <=> c \in Carried(m, "new_id")
    BY <2>1, <2>2 DEF Carried
  <2>4. ASSUME cargs[c].field = "o", cargs[c].value = 0 PROVE c \in Optional[m]
    <3>1. m.args[c].type = "object" /\ args[c] = 0
      BY <2>1, <2>2, <2>4
    <3>2. m.args[c].allow_null
      BY <3>1 DEF ArgumentOK
    <3> QED
      BY <3>2, Reading
  <2> QED
    BY <2>3, <2>4
<1>3. Carried(m, "new_id") \subseteq DOMAIN m.args
  BY DEF Carried
<1>4. (\E c \in DOMAIN cargs :
         \/ cargs[c].field = "n" /\ new = 0
         \/ cargs[c].field = "o" /\ cargs[c].value = 0 /\ c \notin Optional[m])
      <=> Carried(m, "new_id") # {} /\ new = 0
  BY <1>1, <1>2, <1>3
<1> QED
  BY <1>4 DEF RefusesToSend, cargs

\* What a program passes.
LEMMA Passed ==
    ASSUME NEW side \in Sides, NEW m \in Spoken, NEW args \in ArgumentLists(side, m)
    PROVE  \A c \in DOMAIN m.args : ArgumentOK(side, m.args[c], args[c])
<1>1. ASSUME NEW c \in DOMAIN m.args
      PROVE  ArgumentOK(side, m.args[c], args[c])
  <2>1. args[c] \in ArgumentValues(side, m.args[c])
    BY DEF ArgumentLists
  <2>2. m.args[c].type = "fixed" => args[c] \in Int
    BY <2>1, DataAssumption DEF ArgumentValues
  <2>3. ASSUME m.args[c].type = "object"
        PROVE  ArgumentOK(side, m.args[c], args[c])
    <3>1. CASE args[c] \in {o \in Held(side) :
                 m.args[c].interface \in {NoInterface, Table(side)[o].interface}}
      <4>1. args[c] \in Objects /\ args[c] # 0 /\ Exists(side, args[c])
        BY <3>1, ObjectNumbers DEF Held
      <4> QED
        BY <2>3, <3>1, <4>1 DEF ArgumentOK
    <3>2. CASE args[c] \in {null \in {0} :
                 /\ m.args[c].allow_null
                 /\ \/ side = "server" \/ m.args[c].interface = NoInterface
                    \/ "null_typed" \in Habits}
      <4>1. /\ args[c] = 0 /\ m.args[c].allow_null
            /\ side = "server" \/ m.args[c].interface = NoInterface \/ "null_typed" \in Habits
        BY <3>2
      <4> QED
        BY <2>3, <4>1 DEF ArgumentOK
    <3> QED
      BY <2>1, <2>3, <3>1, <3>2 DEF ArgumentValues
  <2> QED
    BY <2>2, <2>3 DEF ArgumentOK
<1> QED
  BY <1>1

-----------------------------------------------------------------------------
(* Messages that arrive *)

\* Both sides take an object for one of the same interface.
LEMMA Alike ==
    ASSUME ResourcesOK, NEW o \in Objects, Exists("server", o)
    PROVE  /\ Exists("client", o) /\ resources[o].interface = proxies[o].interface
           /\ resources[o].version =
                IF proxies[o].interface \in Globals THEN proxies[o].version
                ELSE Described("server", proxies[o].interface).version
<1>1. Exists("client", o) /\ resources[o] = Given(o)
  BY DEF ResourcesOK
<1>2. /\ Given(o).interface = proxies[o].interface
      /\ Given(o).version = IF proxies[o].interface \in Globals THEN proxies[o].version
                            ELSE Described("server", proxies[o].interface).version
  BY DEF Given
<1> QED
  BY <1>1, <1>2

\* The handler of a message is that of the call.
LEMMA Meant ==
    ASSUME Variables, ProxiesOK, ResourcesOK, NEW side \in Sides, NEW msg, Sound(side, msg),
           Exists(Peer(side), msg.object)
    PROVE  LET o    == msg.object
               m    == msg.message
               list == Incoming(Peer(side), Table(Peer(side))[o].interface)
           IN  /\ m \in Spoken /\ m.since \in Nat
               /\ Table(side)[o].interface = proxies[o].interface
               /\ Table(Peer(side))[o].interface = proxies[o].interface
               /\ proxies[o].interface \in Interfaces /\ Exists("client", o)
               /\ Exists("server", o)
               /\ m.since <= Protocol[proxies[o].interface].version
               /\ msg.opcode + 1 \in DOMAIN list <=> m.since <= release[Peer(side)]
               /\ msg.opcode + 1 \in DOMAIN list => Received(Peer(side), msg) = m
<1> DEFINE o    == msg.object
           m    == msg.message
           list == Incoming(Peer(side), Table(Peer(side))[o].interface)
           said == Said(side, Table(side)[o].interface)
<1>1. /\ o \in Objects /\ Exists(side, o)
      /\ msg.opcode + 1 \in DOMAIN said /\ m = said[msg.opcode + 1]
  BY DEF Sound
<1>2. Exists("client", o) /\ Exists("server", o)
  BY <1>1 DEF Sides, Peer
<1>3. /\ Table(side)[o].interface = proxies[o].interface
      /\ Table(Peer(side))[o].interface = proxies[o].interface
  BY <1>1, <1>2, Alike, TableOf
<1>4. proxies[o].interface \in Interfaces
  BY <1>1, <1>2 DEF ProxiesOK
<1>5. release \in [Sides -> Releases]
  BY DEF Variables
<1>6. /\ list = [k \in {k \in DOMAIN said : said[k].since <= release[Peer(side)]} |-> said[k]]
      /\ \A k \in DOMAIN said :
           /\ said[k] \in Spoken /\ said[k].since \in Nat \ {0}
           /\ said[k].since <= Protocol[proxies[o].interface].version
  <2>1. PICK i \in Interfaces : i = proxies[o].interface
    BY <1>4
  <2>2. /\ Incoming(Peer(side), i) =
             [k \in {k \in DOMAIN Said(side, i) : Said(side, i)[k].since <= release[Peer(side)]} |->
                Said(side, i)[k]]
        /\ \A k \in DOMAIN Said(side, i) :
             /\ Said(side, i)[k] \in Spoken /\ Said(side, i)[k].since \in Nat \ {0}
             /\ Said(side, i)[k].since <= Protocol[i].version
    BY <1>5, Compiled
  <2> QED
    BY <1>3, <2>1, <2>2
<1>7. /\ m \in Spoken /\ m.since \in Nat
      /\ m.since <= Protocol[proxies[o].interface].version
  BY <1>1, <1>6
<1>8. msg.opcode + 1 \in DOMAIN list <=> m.since <= release[Peer(side)]
  BY <1>1, <1>6
<1>9. msg.opcode + 1 \in DOMAIN list => Received(Peer(side), msg) = m
  BY <1>1, <1>6 DEF Received, Case
<1> QED
  BY <1>2, <1>3, <1>4, <1>7, <1>8, <1>9

\* A message that its object has in the client's version is known to the server, and
\* the server's object has it as well.
LEMMA KnownToServer ==
    ASSUME Variables, ProxiesOK, ResourcesOK, NEW o \in Objects, Exists("server", o),
           NEW since \in Nat, since <= proxies[o].version,
           since <= Protocol[proxies[o].interface].version
    PROVE  since <= release["server"] /\ since <= resources[o].version
<1> DEFINE i == proxies[o].interface
<1>1. Exists("client", o) /\ i \in Interfaces
  BY Alike DEF ProxiesOK
<1>2. proxies[o] \in Entries /\ proxies[o].version \in Nat
  BY DEF Variables, Entries
<1>3. release \in [Sides -> Releases] /\ "server" \in Sides
  BY DEF Variables, Sides
<1>4. proxies[o].version <= release["server"]
  BY <1>1, <1>3 DEF ProxiesOK
<1>5. /\ Described("server", i).version =
           IF release["server"] < Protocol[i].version THEN release["server"] ELSE Protocol[i].version
      /\ Protocol[i].version \in Nat /\ release["server"] \in Nat
  BY <1>1, <1>3, Version
<1>6. since <= release["server"]
  BY <1>2, <1>4, <1>5
<1>7. resources[o].version = IF i \in Globals THEN proxies[o].version
                             ELSE Described("server", i).version
  BY Alike
<1> QED
  BY <1>5, <1>6, <1>7

\* What the generated dispatcher gets.
LEMMA Handlers ==
    ASSUME NEW side \in Sides, NEW msg, Sound(side, msg), msg.message \in Spoken,
           Received(Peer(side), msg) = msg.message
    PROVE  LET m     == msg.message
               vargs == Arguments(Peer(side), msg)
           IN  /\ DOMAIN msg.body = DOMAIN m.args /\ DOMAIN Letters[m] = DOMAIN m.args
               /\ ~BadCast(m, vargs)
               /\ \A c \in DOMAIN m.args :
                    /\ Letters[m][c] = "o" <=> m.args[c].type = "object"
                    /\ Letters[m][c] = "n" <=> m.args[c].type = "new_id"
                    /\ m.args[c].type = "new_id" => msg.body[c] = msg.new
                    /\ m.args[c].type = "object" => msg.body[c] = msg.args[c]
                    /\ m.args[c].type = "new_id" => vargs[c].value = msg.new
                    /\ m.args[c].type = "fixed" =>
                         vargs[c].value = FixedToDouble(FixedFromDouble(msg.args[c]))
                    /\ m.args[c].type \notin {"new_id", "fixed"} =>
                         \/ vargs[c].value = msg.args[c]
                         \/ /\ side = "server" /\ m.args[c].type = "object"
                            /\ msg.args[c] \in zombies /\ vargs[c].value = 0
<1> DEFINE m     == msg.message
           vargs == Arguments(Peer(side), msg)
           seen  == AsSeen(Peer(side), m, msg.body)
<1>1. msg.body = Body(m, CallArguments(m, msg.args), msg.new)
  BY DEF Sound
<1>2. /\ DOMAIN msg.body = DOMAIN m.args
      /\ \A c \in DOMAIN m.args :
           msg.body[c] = CASE m.args[c].type = "new_id" -> msg.new
                           [] m.args[c].type = "fixed"  -> FixedFromDouble(msg.args[c])
                           [] OTHER                     -> msg.args[c]
  BY <1>1, Packed
<1>3. Letters[m] = [c \in DOMAIN m.args |-> print_short[m.args[c].type]]
  BY Reading
<1>4. \A c \in DOMAIN m.args : /\ Letters[m][c] = "o" <=> m.args[c].type = "object"
                               /\ Letters[m][c] = "n" <=> m.args[c].type = "new_id"
  <2>1. ASSUME NEW c \in DOMAIN m.args
        PROVE  /\ print_short[m.args[c].type] = "o" <=> m.args[c].type = "object"
               /\ print_short[m.args[c].type] = "n" <=> m.args[c].type = "new_id"
    BY MessageFacts, Characters
  <2> QED
    BY <1>3, <2>1
<1>5. /\ DOMAIN seen = DOMAIN m.args
      /\ \A c \in DOMAIN m.args :
           seen[c] = IF Peer(side) = "client" /\ Letters[m][c] = "o" /\ msg.body[c] \in zombies
                     THEN 0 ELSE msg.body[c]
  BY <1>2 DEF AsSeen
<1>6. vargs = Decode(m, seen)
  BY DEF Arguments
<1>7. /\ ~BadCast(m, vargs)
      /\ \A c \in DOMAIN m.args :
           vargs[c].value = IF m.args[c].type = "fixed" THEN FixedToDouble(seen[c]) ELSE seen[c]
  <2> HIDE DEF seen, vargs
  <2> QED
    BY <1>5, <1>6, Unpacked
<1>8. Peer(side) = "client" <=> side = "server"
  BY DEF Peer, Sides
<1> HIDE DEF seen, vargs
<1>9. ASSUME NEW c \in DOMAIN m.args
      PROVE  /\ m.args[c].type = "new_id" => msg.body[c] = msg.new
             /\ m.args[c].type = "object" => msg.body[c] = msg.args[c]
             /\ m.args[c].type = "new_id" => vargs[c].value = msg.new
             /\ m.args[c].type = "fixed" =>
                  vargs[c].value = FixedToDouble(FixedFromDouble(msg.args[c]))
             /\ m.args[c].type \notin {"new_id", "fixed"} =>
                  \/ vargs[c].value = msg.args[c]
                  \/ /\ side = "server" /\ m.args[c].type = "object"
                     /\ msg.args[c] \in zombies /\ vargs[c].value = 0
  BY <1>2, <1>4, <1>5, <1>7, <1>8
<1> QED
  BY <1>2, <1>3, <1>4, <1>7, <1>9 DEF vargs

-----------------------------------------------------------------------------
(* The server meets no object before its creation *)

LEMMA OrderOnPosting ==
    ASSUME Queues, InOrder, NEW msg,
           under_way' = [under_way EXCEPT !["server"] = Append(@, msg)],
           resources' = resources, status' = "open" => status = "open",
           \A o \in Objects : Exists("client", o)' => Exists("client", o) \/ o = msg.new,
           \A o \in Names(msg) : Exists("client", o)
    PROVE  InOrder'
<1>1. PICK n \in Nat : n = Len(under_way["server"])
  BY Posted DEF Sides
<1>2. /\ DOMAIN under_way["server"] = 1 .. n
      /\ Len(under_way'["server"]) = n + 1 /\ DOMAIN under_way'["server"] = 1 .. n + 1
      /\ under_way'["server"][n + 1] = msg
      /\ \A j \in 1 .. n : under_way'["server"][j] = under_way["server"][j]
  BY <1>1, Posted DEF Sides
<1>3. \A o : Exists("server", o)' <=> Exists("server", o)
  BY TableOf
<1>4. ASSUME NEW o \in Objects, NEW j \in Nat, NEW k \in Nat, j <= k, Arrives(o, j)
      PROVE  Arrives(o, k)'
  <2>1. CASE Exists("server", o)
    BY <1>3, <2>1 DEF Arrives
  <2>2. CASE \E i \in DOMAIN under_way["server"] : i < j /\ under_way["server"][i].new = o
    <3>1. PICK i \in DOMAIN under_way["server"] : i < j /\ under_way["server"][i].new = o
      BY <2>2
    <3>2. /\ i \in DOMAIN under_way'["server"] /\ i < k
          /\ under_way'["server"][i].new = o
      BY <1>2, <1>4, <3>1
    <3> QED
      BY <3>2 DEF Arrives
  <2> QED
    BY <1>4, <2>1, <2>2 DEF Arrives
<1>5. ASSUME status = "open", NEW o \in Objects, Exists("client", o)
      PROVE  Arrives(o, n + 1)' /\ Arrives(o, n + 2)'
  <2>1. Arrives(o, n + 1)
    BY <1>1, <1>5 DEF InOrder
  <2> QED
    BY <1>4, <2>1
<1>6. ASSUME status = "open", NEW o \in Objects, Exists("client", o)'
      PROVE  Arrives(o, n + 2)'
  <2>1. CASE Exists("client", o)
    BY <1>5, <1>6, <2>1
  <2>2. CASE o = msg.new
    <3>1. n + 1 \in DOMAIN under_way'["server"] /\ n + 1 < n + 2
      BY <1>2
    <3> QED
      BY <1>2, <2>2, <3>1 DEF Arrives
  <2> QED
    BY <1>6, <2>1, <2>2
<1>7. ASSUME status = "open", NEW j \in 1 .. n + 1,
             NEW o \in Names(under_way'["server"][j])
      PROVE  Arrives(o, j)'
  <2>1. CASE j = n + 1
    <3>1. o \in Objects /\ Exists("client", o)
      BY <1>2, <1>7, <2>1 DEF Names
    <3>2. Arrives(o, n + 1)'
      BY <1>5, <1>7, <3>1
    <3> QED
      BY <2>1, <3>2
  <2>2. CASE j \in 1 .. n
    <3>1. o \in Names(under_way["server"][j]) /\ o \in Objects
      BY <1>2, <1>7, <2>2 DEF Names
    <3>2. Arrives(o, j)
      BY <1>2, <1>7, <2>2, <3>1 DEF InOrder
    <3> QED
      BY <1>4, <2>2, <3>1, <3>2
  <2> QED
    BY <1>1, <2>1, <2>2
<1>8. n + 1 + 1 = n + 2
  BY <1>1
<1> QED
  BY <1>2, <1>6, <1>7, <1>8 DEF InOrder

LEMMA OrderOnTaking ==
    ASSUME Queues, InOrder, under_way["server"] # <<>>,
           NEW msg, msg = Head(under_way["server"]),
           under_way' = [under_way EXCEPT !["server"] = Tail(@)],
           proxies' = proxies, status' = "open" => status = "open",
           \A o \in Objects : Exists("server", o) => Exists("server", o)',
           status' = "open" /\ msg.new \in Objects => Exists("server", msg.new)'
    PROVE  InOrder'
<1>1. PICK n \in Nat \ {0} : n = Len(under_way["server"])
  BY Taken DEF Sides
<1>2. /\ DOMAIN under_way["server"] = 1 .. n
      /\ Len(under_way'["server"]) = n - 1 /\ DOMAIN under_way'["server"] = 1 .. n - 1
      /\ under_way["server"][1] = Head(under_way["server"])
      /\ \A j \in 1 .. n - 1 : under_way'["server"][j] = under_way["server"][j + 1]
  BY <1>1, Taken DEF Sides
<1>3. ASSUME status' = "open", NEW o \in Objects, NEW j \in 1 .. n, Arrives(o, j + 1)
      PROVE  Arrives(o, j)'
  <2>1. CASE Exists("server", o)
    BY <2>1 DEF Arrives
  <2>2. CASE \E i \in DOMAIN under_way["server"] : i < j + 1 /\ under_way["server"][i].new = o
    <3>1. PICK i \in DOMAIN under_way["server"] : i < j + 1 /\ under_way["server"][i].new = o
      BY <2>2
    <3>2. CASE i = 1
      <4>1. Exists("server", o)'
        BY <1>2, <1>3, <3>1, <3>2
      <4> QED
        BY <4>1 DEF Arrives
    <3>3. CASE i # 1
      <4>1. i \in 1 .. n /\ i < j + 1
        BY <1>2, <3>1
      <4>2. i - 1 \in 1 .. n - 1 /\ i - 1 < j /\ (i - 1) + 1 = i
        BY <3>3, <4>1
      <4>3. under_way'["server"][i - 1].new = o
        BY <1>2, <3>1, <4>2
      <4> QED
        BY <1>2, <4>2, <4>3 DEF Arrives
    <3> QED
      BY <3>2, <3>3
  <2> QED
    BY <1>3, <2>1, <2>2 DEF Arrives
<1>4. ASSUME status' = "open", NEW o \in Objects, Exists("client", o)'
      PROVE  Arrives(o, n)'
  <2>1. Exists("client", o) /\ status = "open"
    BY <1>4, TableOf
  <2>2. Arrives(o, n + 1) /\ n \in 1 .. n
    BY <1>1, <2>1 DEF InOrder
  <2> QED
    BY <1>3, <1>4, <2>2
<1>5. ASSUME status' = "open", NEW j \in 1 .. n - 1, NEW o \in Names(under_way'["server"][j])
      PROVE  Arrives(o, j)'
  <2>1. j + 1 \in 1 .. n /\ j \in 1 .. n
    BY <1>1
  <2>2. o \in Names(under_way["server"][j + 1]) /\ o \in Objects
    BY <1>2, <1>5 DEF Names
  <2>3. Arrives(o, j + 1)
    BY <1>2, <1>5, <2>1, <2>2 DEF InOrder
  <2> QED
    BY <1>3, <1>5, <2>1, <2>2, <2>3
<1>6. n - 1 + 1 = n
  BY <1>1
<1> QED
  BY <1>2, <1>4, <1>5, <1>6 DEF InOrder

LEMMA OrderOtherwise ==
    ASSUME InOrder, under_way'["server"] = under_way["server"], proxies' = proxies,
           resources' = resources, status' = "open" => status = "open"
    PROVE  InOrder'
<1>1. \A o : /\ Exists("server", o)' <=> Exists("server", o)
             /\ Exists("client", o)' <=> Exists("client", o)
  BY TableOf
<1>2. ASSUME NEW o, NEW j PROVE Arrives(o, j)' <=> Arrives(o, j)
  BY <1>1 DEF Arrives
<1>3. PICK k : k = Len(under_way["server"]) + 1
  OBVIOUS
<1>4. status = "open" =>
        /\ \A o \in Objects : Exists("client", o) => Arrives(o, k)
        /\ \A j \in DOMAIN under_way["server"] :
             \A o \in Names(under_way["server"][j]) : Arrives(o, j)
  BY <1>3 DEF InOrder
<1>5. status' = "open" =>
        /\ \A o \in Objects : Exists("client", o)' => Arrives(o, k)'
        /\ \A j \in DOMAIN under_way'["server"] :
             \A o \in Names(under_way'["server"][j]) : Arrives(o, j)'
  BY <1>1, <1>2, <1>4
<1> QED
  BY <1>3, <1>5 DEF InOrder

-----------------------------------------------------------------------------
(* Every step keeps the invariant *)

LEMMA UnderWayType ==
    ASSUME Queues
    PROVE  InFlight \in Nat /\ DOMAIN under_way = Sides
<1>1. PICK S : under_way \in [Sides -> Seq(S)]
  BY DEF Queues
<1>2. under_way["client"] \in Seq(S) /\ under_way["server"] \in Seq(S)
  BY <1>1, TableOf
<1>3. \A a, b \in Nat : a + b \in Nat
  OBVIOUS
<1>4. ASSUME NEW q \in Seq(S) PROVE Len(q) \in Nat
  OBVIOUS
<1> QED
  BY <1>1, <1>2, <1>3, <1>4 DEF InFlight

LEMMA QueuesStay ==
    ASSUME Grow, ResourcesOK, QueuesOK,
           \A msg \in Waiting("server")' :
             msg \in Waiting("server") \/ Bound(msg)' \/ Sound("client", msg)',
           \A msg \in Waiting("client")' : msg \in Waiting("client") \/ Sound("server", msg)'
    PROVE  QueuesOK'
<1>1. ASSUME NEW msg \in Waiting("server")'
      PROVE  Bound(msg)' \/ Sound("client", msg)'
  <2>1. CASE msg \in Waiting("server")
    <3>1. Bound(msg) \/ Sound("client", msg)
      BY <2>1 DEF QueuesOK
    <3> QED
      BY <3>1, BoundStays, SoundStays, TableOf
  <2> QED
    BY <1>1, <2>1
<1>2. ASSUME NEW msg \in Waiting("client")'
      PROVE  Sound("server", msg)'
  <2>1. CASE msg \in Waiting("client")
    <3>1. Sound("server", msg)
      BY <2>1 DEF QueuesOK
    <3> QED
      BY <3>1, SoundStays, TableOf
  <2> QED
    BY <1>2, <2>1
<1> QED
  BY <1>1, <1>2 DEF QueuesOK

LEMMA SameTables ==
    ASSUME ProxiesOK, ResourcesOK, UNCHANGED <<release, proxies, resources>>
    PROVE  Grow /\ ProxiesOK' /\ ResourcesOK'
<1>1. \A o : /\ Exists("server", o)' <=> Exists("server", o)
             /\ Exists("client", o)' <=> Exists("client", o)
  BY TableOf
<1>2. \A o : Given(o)' = Given(o)
  BY DEF Given, Described
<1> QED
  BY <1>1, <1>2 DEF Grow, ProxiesOK, ResourcesOK

\* A new object of the client.
LEMMA NewProxy ==
    ASSUME Variables, ProxiesOK, ResourcesOK, NEW o \in NextId,
           NEW i \in Interfaces, NEW version \in Nat, Destructible(i, version),
           \A side \in Sides : version <= release[side],
           proxies' = [proxies EXCEPT ![o] = [interface |-> i, version |-> version]],
           resources' = resources, release' = release
    PROVE  /\ Grow /\ ProxiesOK' /\ ResourcesOK' /\ proxies' \in [Objects -> Entries]
           /\ o \in Objects /\ ~Exists("client", o) /\ Exists("client", o)'
           /\ proxies'[o] = [interface |-> i, version |-> version]
           /\ \A p \in Objects : Exists("client", p)' => Exists("client", p) \/ p = o
<1>1. o \in Objects /\ o \in Nat
  BY ObjectNumbers DEF NextId
<1>2. ~Exists("client", o)
  BY <1>1 DEF NextId
<1>3. proxies \in [Objects -> Entries]
  BY DEF Variables
<1>4. [interface |-> i, version |-> version] \in Entries
  BY DEF Entries
<1>5. proxies' \in [Objects -> Entries] /\ proxies'[o] = [interface |-> i, version |-> version]
      /\ \A p \in Objects \ {o} : proxies'[p] = proxies[p]
  BY <1>1, <1>3, <1>4
<1>6. Grow
  BY <1>2, <1>5 DEF Grow
<1>7. [interface |-> i, version |-> version] # NoObject
  <2>1. [interface |-> i, version |-> version].interface # NoObject.interface
    BY ProtocolAssumption DEF NoObject
  <2> QED
    BY <2>1
<1>8. \A p \in Objects : /\ Exists("client", p)' <=> Exists("client", p) \/ p = o
                         /\ Exists("server", p)' <=> Exists("server", p)
  BY <1>2, <1>5, <1>7, TableOf
<1>9. ProxiesOK'
  <2>1. ASSUME NEW p \in Objects, Exists("client", p)'
        PROVE  /\ proxies'[p].interface \in Interfaces
               /\ Destructible(proxies'[p].interface, proxies'[p].version)
               /\ \A side \in Sides : proxies'[p].version <= release[side]
    <3>1. CASE p = o
      BY <1>5, <3>1
    <3>2. CASE p # o
      BY <1>5, <1>8, <2>1, <3>2 DEF ProxiesOK
    <3> QED
      BY <3>1, <3>2
  <2> QED
    BY <2>1 DEF ProxiesOK
<1>10. ResourcesOK'
  <2>1. ASSUME NEW p \in Objects, Exists("server", p)'
        PROVE  Exists("client", p)' /\ resources'[p] = Given(p)'
    <3>1. Exists("server", p) /\ Exists("client", p) /\ resources[p] = Given(p)
      BY <1>8, <2>1 DEF ResourcesOK
    <3> QED
      BY <1>6, <1>8, <3>1, GivenStays
  <2> QED
    BY <2>1 DEF ResourcesOK
<1> QED
  BY <1>1, <1>2, <1>5, <1>6, <1>8, <1>9, <1>10

LEMMA BindStep ==
    ASSUME WInv, NEW i \in Globals, NEW version \in Releases, Bind(i, version)
    PROVE  WInv'
<1> USE DEF WInv
<1>1. PICK o \in NextId :
        /\ proxies' = [proxies EXCEPT ![o] = [interface |-> i, version |-> version]]
        /\ under_way' = [under_way EXCEPT !["server"] = Append(@, BindCall(i, version, o))]
  BY DEF Bind
<1>2. CanSend /\ UNCHANGED <<release, zombies, resources, status>>
  BY DEF Bind
<1>3. i \in Interfaces /\ version \in Nat /\ version >= 1 /\ release \in [Sides -> Releases]
  BY ProtocolAssumption DEF Variables
<1>4. \A side \in Sides : version <= release[side]
  <2>1. version <= Described("client", i).version /\ version <= Described("server", i).version
    BY DEF Bind
  <2>2. ASSUME NEW side \in Sides
        PROVE  Described(side, i).version <= release[side] /\ Described(side, i).version \in Nat
               /\ release[side] \in Nat
    BY <1>3, Version
  <2>3. "client" \in Sides /\ "server" \in Sides
    BY TableOf
  <2>4. version <= release["client"] /\ version <= release["server"]
    BY <1>3, <2>1, <2>2, <2>3
  <2> QED
    BY <2>4, TableOf
<1>5. Destructible(i, version)
  BY <1>3, ProtocolAssumption DEF Destructible
<1>6. /\ Grow /\ ProxiesOK' /\ ResourcesOK' /\ proxies' \in [Objects -> Entries]
      /\ o \in Objects /\ Exists("client", o)'
      /\ proxies'[o] = [interface |-> i, version |-> version]
      /\ \A p \in Objects : Exists("client", p)' => Exists("client", p) \/ p = o
  BY <1>1, <1>2, <1>3, <1>4, <1>5, NewProxy
<1>7. PICK msg : msg = BindCall(i, version, o)
  OBVIOUS
<1>8. /\ msg.object = Registry /\ msg.new = o /\ msg.message.args = <<>>
      /\ msg.body[2] = i /\ msg.body[3] = version /\ msg.body[4] = o
  BY <1>7 DEF BindCall, BindMessage
<1>9. Bound(msg)'
  BY <1>6, <1>8 DEF Bound
<1>10. /\ Queues' /\ Waiting("server")' \subseteq Waiting("server") \cup {msg}
      /\ Waiting("client")' = Waiting("client") /\ InFlight' = InFlight + 1
  BY <1>1, <1>7, Posted, TableOf
<1>11. QueuesOK'
  BY <1>6, <1>9, <1>10, QueuesStay
<1>12. InOrder'
  <2>1. Names(msg) = {}
    BY <1>8, ObjectNumbers DEF Names, Carried
  <2> QED
    BY <1>1, <1>2, <1>6, <1>7, <1>8, <2>1, OrderOnPosting
<1>13. Variables'
  <2>1. InFlight' <= MaxInFlight
    BY <1>2, <1>10, UnderWayType, BoundsAssumption DEF CanSend
  <2> QED
    BY <1>2, <1>6, <2>1 DEF Variables
<1> QED
  BY <1>6, <1>10, <1>11, <1>12, <1>13

\* Sending, of either side.
LEMMA ClientSends ==
    ASSUME WInv, CanSend, Grow, ProxiesOK', ResourcesOK', proxies' \in [Objects -> Entries],
           resources' = resources, zombies' \subseteq Objects,
           NEW o, NEW opcode, NEW m \in Spoken, NEW args, NEW new,
           Send("client", o, opcode, m, args, new),
           \A p \in Objects : Exists("client", p)' => Exists("client", p) \/ p = new,
           o \in Objects, Exists("client", o),
           \A c \in DOMAIN m.args : ArgumentOK("client", m.args[c], args[c]),
           NEW msg, msg = Message(o, opcode, m, args, new),
           Sound("client", msg)'
    PROVE  WInv'
<1> USE DEF WInv
<1>1. CASE RefusesToSend(m, CallArguments(m, args), new)
  <2>1. status' = "refused" /\ under_way' = under_way
    BY <1>1 DEF Send
  <2>2. Waiting("server")' = Waiting("server") /\ Waiting("client")' = Waiting("client")
        /\ InFlight' = InFlight /\ Queues'
    BY <2>1 DEF Waiting, InFlight, Queues
  <2>3. QueuesOK'
    BY <2>2, QueuesStay
  <2>4. InOrder'
    BY <2>1 DEF InOrder
  <2>5. Variables'
    BY <2>1, <2>2 DEF Variables, Grow
  <2> QED
    BY <2>2, <2>3, <2>4, <2>5
<1>2. CASE ~RefusesToSend(m, CallArguments(m, args), new)
  <2>1. status' = status
        /\ under_way' = [under_way EXCEPT !["server"] = Append(@, msg)]
    BY <1>2, TableOf DEF Send
  <2>2. /\ Queues' /\ Waiting("server")' \subseteq Waiting("server") \cup {msg}
        /\ Waiting("client")' = Waiting("client") /\ InFlight' = InFlight + 1
    BY <2>1, Posted, TableOf
  <2>3. QueuesOK'
    BY <2>2, QueuesStay
  <2>4. /\ msg.object = o /\ msg.message = m /\ msg.args = args /\ msg.new = new
    BY DEF Message
  <2>5. ASSUME NEW p \in Names(msg)
        PROVE  Exists("client", p)
    <3>1. CASE p = o
      BY <3>1
    <3>2. CASE p # o
      <4>1. p \in Objects /\ p # 0
        BY ObjectNumbers DEF Names
      <4>2. PICK c \in Carried(m, "object") : p = args[c]
        BY <2>4, <2>5, <3>2 DEF Names
      <4>3. c \in DOMAIN m.args /\ m.args[c].type = "object"
        BY <4>2 DEF Carried
      <4> QED
        BY <4>1, <4>2, <4>3 DEF ArgumentOK
    <3> QED
      BY <3>1, <3>2
  <2>6. InOrder'
    BY <2>1, <2>4, <2>5, OrderOnPosting
  <2>7. InFlight' <= MaxInFlight
    BY <2>2, UnderWayType, BoundsAssumption DEF CanSend
  <2>8. Variables'
    BY <2>1, <2>7 DEF Variables, Grow
  <2> QED
    BY <2>2, <2>3, <2>6, <2>8
<1> QED
  BY <1>1, <1>2

\* What a generated function sends is of its object.
LEMMA Generated ==
    ASSUME Variables, ProxiesOK, ResourcesOK, NEW side \in Sides, NEW o \in Held(side),
           NEW k \in DOMAIN Outgoing(side, Table(side)[o].interface)
    PROVE  LET list == Outgoing(side, Table(side)[o].interface)
               said == Said(side, Table(side)[o].interface)
           IN  /\ o \in Objects /\ Exists(side, o) /\ Exists("client", o)
               /\ Table(side)[o].interface = proxies[o].interface
               /\ proxies[o].interface \in Interfaces
               /\ k \in DOMAIN said /\ list[k] = said[k] /\ list[k] \in Spoken
               /\ Opcode(list, k) + 1 = k
<1> DEFINE i    == Table(side)[o].interface
           list == Outgoing(side, i)
           said == Said(side, i)
<1>1. o \in Objects /\ Exists(side, o)
  BY DEF Held
<1>2. Exists("client", o) /\ i = proxies[o].interface
  BY <1>1, Alike, TableOf
<1>3. i \in Interfaces
  BY <1>1, <1>2 DEF ProxiesOK
<1>4. /\ list = [j \in {j \in DOMAIN said : said[j].since <= release[side]} |-> said[j]]
      /\ \A j \in DOMAIN said :
           /\ said[j] \in Spoken /\ j \in Nat \ {0}
  <2>1. PICK x \in Interfaces : x = i
    BY <1>3
  <2>2. /\ Outgoing(side, x) =
             [j \in {j \in DOMAIN Said(side, x) : Said(side, x)[j].since <= release[side]} |->
                Said(side, x)[j]]
        /\ \A j \in DOMAIN Said(side, x) :
             /\ Said(side, x)[j] \in Spoken /\ j \in Nat \ {0}
    BY Compiled DEF Variables
  <2> QED
    BY <2>1, <2>2
<1>5. k \in DOMAIN said /\ list[k] = said[k] /\ k \in Nat \ {0}
  BY <1>4
<1>6. k - 1 + 1 = k
  BY <1>5
<1> QED
  BY <1>1, <1>2, <1>3, <1>4, <1>5, <1>6 DEF Opcode

LEMMA ReleaseStep ==
    ASSUME WInv, NEW o \in Held("client"), Release(o)
    PROVE  WInv'
<1> USE DEF WInv
<1> DEFINE list == Outgoing("client", proxies[o].interface)
<1>1. CanSend /\ zombies' = zombies \cup {o} /\ UNCHANGED <<release, proxies, resources>>
      /\ o \in Objects /\ Exists("client", o)
  BY DEF Release, Held
<1>2. Grow /\ ProxiesOK' /\ ResourcesOK'
  BY <1>1, SameTables
<1>3. proxies' \in [Objects -> Entries] /\ zombies' \subseteq Objects
  BY <1>1 DEF Variables
<1>4. CASE DestroyRequest(list) = {}
  <2>1. UNCHANGED <<under_way, status>>
    BY <1>4 DEF Release
  <2>2. Waiting("server")' = Waiting("server") /\ Waiting("client")' = Waiting("client")
        /\ InFlight' = InFlight /\ Queues'
    BY <2>1 DEF Waiting, InFlight, Queues
  <2>3. QueuesOK'
    BY <1>2, <2>2, QueuesStay
  <2>4. InOrder'
    BY <1>1, <2>1, OrderOtherwise
  <2>5. Variables'
    BY <1>1, <1>3, <2>1, <2>2 DEF Variables
  <2> QED
    BY <1>2, <2>2, <2>3, <2>4, <2>5
<1>5. CASE DestroyRequest(list) # {}
  <2>1. PICK k \in DestroyRequest(list) :
          Send("client", o, Opcode(list, k), list[k], <<>>, 0)
    BY <1>5 DEF Release
  <2>2. k \in DOMAIN list /\ list[k].name = "destroy"
    BY <2>1 DEF DestroyRequest
  <2>3. PICK m : m = list[k]
    OBVIOUS
  <2>4. PICK opcode : opcode = Opcode(list, k)
    OBVIOUS
  <2>5. /\ proxies[o].interface \in Interfaces
        /\ k \in DOMAIN Said("client", proxies[o].interface)
        /\ m = Said("client", proxies[o].interface)[k] /\ m \in Spoken
        /\ opcode + 1 = k
    BY <2>2, <2>3, <2>4, Generated, TableOf
  <2>6. m.args = <<>> /\ m.since <= proxies[o].version
    <3>1. k \in DestroyRequest(Protocol[proxies[o].interface].requests)
          /\ m = Protocol[proxies[o].interface].requests[k]
      BY <2>2, <2>3, <2>5 DEF DestroyRequest, Said
    <3>2. m.args = <<>>
      BY <2>5, <3>1, ProtocolAssumption
    <3>3. Destructible(proxies[o].interface, proxies[o].version)
      BY <1>1 DEF ProxiesOK
    <3> QED
      BY <3>1, <3>2, <3>3 DEF Destructible
  <2>7. Send("client", o, opcode, m, <<>>, 0)
    BY <2>1, <2>3, <2>4
  <2>8. DOMAIN m.args = {} /\ Carried(m, "new_id") = {}
    BY <2>6 DEF Carried
  <2>9. PICK msg : msg = Message(o, opcode, m, <<>>, 0)
    OBVIOUS
  <2>10. /\ msg.object = o /\ msg.opcode = opcode /\ msg.message = m /\ msg.args = <<>>
        /\ msg.new = 0 /\ msg.body = Body(m, CallArguments(m, <<>>), 0)
    BY <2>9 DEF Message
  <2>11. Sound("client", msg)'
    <3>1. proxies'[o] = proxies[o] /\ Exists("client", o)' /\ m.since <= proxies[o].version
      BY <1>1, <2>6, TableOf
    <3>2. NewOK("client", m, 0)'
      BY <2>8 DEF NewOK
    <3>3. \A c \in DOMAIN m.args : ArgumentOK("client", m.args[c], msg.args[c])'
      BY <2>8
    <3> QED
      BY <1>1, <2>5, <2>10, <3>1, <3>2, <3>3, TableOf DEF Sound
  <2>12. \A p \in Objects : Exists("client", p)' => Exists("client", p)
    BY <1>1, TableOf
  <2> HIDE DEF WInv
  <2> QED
    BY <1>1, <1>2, <1>3, <2>5, <2>7, <2>8, <2>9, <2>11, <2>12, ClientSends
<1> QED
  BY <1>4, <1>5

LEMMA RequestStep ==
    ASSUME WInv, NEW o \in Held("client"),
           NEW k \in DOMAIN Outgoing("client", proxies[o].interface), Request(o, k)
    PROVE  WInv'
<1> USE DEF WInv
<1> DEFINE list == Outgoing("client", proxies[o].interface)
<1>1. PICK m : m = list[k]
  OBVIOUS
<1>2. PICK opcode : opcode = Opcode(list, k)
  OBVIOUS
<1>3. /\ o \in Objects /\ Exists("client", o) /\ proxies[o].interface \in Interfaces
      /\ k \in DOMAIN Said("client", proxies[o].interface)
      /\ m = Said("client", proxies[o].interface)[k] /\ m \in Spoken /\ opcode + 1 = k
  BY <1>1, <1>2, Generated, TableOf
<1>4. CanSend /\ UNCHANGED <<release, zombies, resources>> /\ m.since <= proxies[o].version
  BY <1>1, <1>3, MessageFacts, TableOf DEF Request, can_, Variables, Entries
<1>5. PICK args \in ArgumentLists("client", m) :
        IF Carried(m, "new_id") = {}
        THEN /\ Send("client", o, opcode, m, args, 0)
             /\ UNCHANGED proxies
        ELSE \E new \in NextId, a \in Carried(m, "new_id") :
               /\ proxies' = [proxies EXCEPT ![new] =
                    [interface |-> m.args[a].interface, version |-> proxies[o].version]]
               /\ Send("client", o, opcode, m, args, new)
  BY <1>1, <1>2 DEF Request
<1>6. \A c \in DOMAIN m.args : ArgumentOK("client", m.args[c], args[c])
  BY <1>3, <1>5, Passed, TableOf
<1>7. zombies' \subseteq Objects
  BY <1>4 DEF Variables
<1>8. ASSUME Grow, NEW new, NewOK("client", m, new)',
             NEW msg, msg = Message(o, opcode, m, args, new)
      PROVE  Sound("client", msg)'
  <2>1. /\ msg.object = o /\ msg.opcode = opcode /\ msg.message = m /\ msg.args = args
        /\ msg.new = new /\ msg.body = Body(m, CallArguments(m, args), new)
    BY <1>8 DEF Message
  <2>2. proxies'[o] = proxies[o] /\ Exists("client", o)'
    BY <1>3, <1>8, TableOf DEF Grow
  <2>3. \A c \in DOMAIN m.args : ArgumentOK("client", m.args[c], msg.args[c])'
    <3>1. ASSUME NEW c \in DOMAIN m.args
          PROVE  ArgumentOK("client", m.args[c], msg.args[c])'
      BY <1>6, <1>8, <2>1, ArgumentStays, TableOf
    <3> QED
      BY <3>1
  <2> QED
    BY <1>3, <1>4, <1>8, <2>1, <2>2, <2>3, TableOf DEF Sound
<1>9. CASE Carried(m, "new_id") = {}
  <2>1. Send("client", o, opcode, m, args, 0) /\ UNCHANGED proxies
    BY <1>5, <1>9
  <2>2. Grow /\ ProxiesOK' /\ ResourcesOK' /\ proxies' \in [Objects -> Entries]
    BY <1>4, <2>1, SameTables DEF Variables
  <2>3. PICK msg : msg = Message(o, opcode, m, args, 0)
    OBVIOUS
  <2>4. Sound("client", msg)'
    BY <1>8, <1>9, <2>2, <2>3 DEF NewOK
  <2>5. \A p \in Objects : Exists("client", p)' => Exists("client", p)
    BY <2>1, TableOf
  <2> HIDE DEF WInv
  <2> QED
    BY <1>3, <1>4, <1>6, <1>7, <2>1, <2>2, <2>3, <2>4, <2>5, ClientSends
<1>10. CASE Carried(m, "new_id") # {}
  <2>1. PICK new \in NextId : \E a \in Carried(m, "new_id") :
          /\ proxies' = [proxies EXCEPT ![new] =
               [interface |-> m.args[a].interface, version |-> proxies[o].version]]
          /\ Send("client", o, opcode, m, args, new)
    BY <1>5, <1>10
  <2>2. PICK a \in Carried(m, "new_id") :
          /\ proxies' = [proxies EXCEPT ![new] =
               [interface |-> m.args[a].interface, version |-> proxies[o].version]]
          /\ Send("client", o, opcode, m, args, new)
    BY <2>1
  <2>3. m.args[a].interface \in Interfaces
        /\ \A b \in Carried(m, "new_id") : b = a
    BY <1>3, MessageFacts
  <2>4. Destructible(m.args[a].interface, proxies[o].version)
    <3>1. ASSUME NEW d \in DestroyRequest(Protocol[m.args[a].interface].requests)
          PROVE  Protocol[m.args[a].interface].requests[d].since <= proxies[o].version
      <4>1. Protocol[m.args[a].interface].requests[d].since <= m.since
        BY <1>3, <2>3, ProtocolAssumption
      <4>2. /\ m.since \in Nat /\ proxies[o].version \in Nat
            /\ Protocol[m.args[a].interface].requests[d].since \in Nat
        <5>1. Protocol[m.args[a].interface].requests \in Seq(Messages)
          BY <2>3, ProtocolAssumption
        <5>2. Protocol[m.args[a].interface].requests[d] \in Messages
          BY <5>1 DEF DestroyRequest
        <5> QED
          BY <1>3, <5>2, MessageFacts DEF Messages, Variables, Entries
      <4> QED
        BY <1>4, <4>1, <4>2
    <3> QED
      BY <3>1 DEF Destructible
  <2>5. /\ proxies[o].version \in Nat
        /\ \A side \in Sides : proxies[o].version <= release[side]
    BY <1>3 DEF Variables, Entries, ProxiesOK
  <2>6. /\ Grow /\ ProxiesOK' /\ ResourcesOK' /\ proxies' \in [Objects -> Entries]
        /\ new \in Objects /\ Exists("client", new)'
        /\ proxies'[new] = [interface |-> m.args[a].interface, version |-> proxies[o].version]
        /\ \A p \in Objects : Exists("client", p)' => Exists("client", p) \/ p = new
    <3>1. PICK version : version = proxies[o].version
      OBVIOUS
    <3>2. PICK i : i = m.args[a].interface
      OBVIOUS
    <3> QED
      BY <1>4, <2>2, <2>3, <2>5, <2>4, <3>1, <3>2, NewProxy
  <2>7. NewOK("client", m, new)'
    BY <2>3, <2>6 DEF NewOK
  <2>8. PICK msg : msg = Message(o, opcode, m, args, new)
    OBVIOUS
  <2>9. Sound("client", msg)'
    BY <1>8, <2>6, <2>7, <2>8
  <2> HIDE DEF WInv
  <2> QED
    BY <1>3, <1>4, <1>6, <1>7, <2>2, <2>6, <2>8, <2>9, ClientSends
<1> QED
  BY <1>9, <1>10

LEMMA EventStep ==
    ASSUME WInv, NEW o \in Held("server"),
           NEW k \in DOMAIN Outgoing("server", resources[o].interface), Event(o, k)
    PROVE  WInv'
<1> USE DEF WInv
<1> DEFINE list == Outgoing("server", resources[o].interface)
<1>1. PICK m : m = list[k]
  OBVIOUS
<1>2. PICK opcode : opcode = Opcode(list, k)
  OBVIOUS
<1>3. /\ o \in Objects /\ Exists("server", o)
      /\ k \in DOMAIN Said("server", resources[o].interface)
      /\ m = Said("server", resources[o].interface)[k] /\ m \in Spoken /\ opcode + 1 = k
  BY <1>1, <1>2, Generated, TableOf
<1>4. /\ CanSend /\ UNCHANGED <<release, proxies, zombies, resources>>
      /\ "trust_can" \in Habits \/ m.since <= proxies[o].version
      /\ m.since <= resources[o].version
  BY <1>1, <1>3, MessageFacts, TableOf DEF Event, can_, Variables, Entries
<1>5. PICK args \in ArgumentLists("server", m) : Send("server", o, opcode, m, args, 0)
  BY <1>1, <1>2 DEF Event
<1>6. \A c \in DOMAIN m.args : ArgumentOK("server", m.args[c], args[c])
  BY <1>3, <1>5, Passed, TableOf
<1>7. Grow /\ ProxiesOK' /\ ResourcesOK'
  BY <1>4, SameTables
<1>8. InOrder'
  <2>1. under_way'["server"] = under_way["server"]
    <3>1. CASE under_way' = under_way
      BY <3>1
    <3>2. CASE under_way' # under_way
      <4>1. PICK msg : under_way' = [under_way EXCEPT !["client"] = Append(@, msg)]
        BY <1>5, <3>2, TableOf DEF Send
      <4> QED
        BY <4>1, Posted, TableOf
    <3> QED
      BY <3>1, <3>2
  <2>2. status = "open"
    BY <1>4 DEF CanSend
  <2> QED
    BY <1>4, <2>1, <2>2, OrderOtherwise
<1>9. CASE RefusesToSend(m, CallArguments(m, args), 0)
  <2>1. status' = "refused" /\ under_way' = under_way
    BY <1>5, <1>9 DEF Send
  <2>2. Waiting("server")' = Waiting("server") /\ Waiting("client")' = Waiting("client")
        /\ InFlight' = InFlight /\ Queues'
    BY <2>1 DEF Waiting, InFlight, Queues
  <2>3. QueuesOK'
    BY <1>7, <2>2, QueuesStay
  <2>4. Variables'
    BY <1>4, <2>1, <2>2 DEF Variables
  <2> QED
    BY <1>7, <1>8, <2>2, <2>3, <2>4
<1>10. CASE ~RefusesToSend(m, CallArguments(m, args), 0)
  <2>1. PICK msg : msg = Message(o, opcode, m, args, 0)
    OBVIOUS
  <2>2. status' = status /\ under_way' = [under_way EXCEPT !["client"] = Append(@, msg)]
    BY <1>5, <1>10, <2>1, TableOf DEF Send
  <2>3. /\ Queues' /\ Waiting("client")' \subseteq Waiting("client") \cup {msg}
        /\ Waiting("server")' = Waiting("server") /\ InFlight' = InFlight + 1
    BY <2>2, Posted, TableOf
  <2>4. /\ msg.object = o /\ msg.opcode = opcode /\ msg.message = m /\ msg.args = args
        /\ msg.new = 0 /\ msg.body = Body(m, CallArguments(m, args), 0)
    BY <2>1 DEF Message
  <2>5. NewOK("server", m, 0)
    BY <1>3, <1>6, <1>10, Refused, TableOf DEF NewOK
  <2>6. Sound("server", msg)
    BY <1>3, <1>4, <1>6, <2>4, <2>5, TableOf DEF Sound
  <2>7. Sound("server", msg)'
    BY <1>7, <2>6, SoundStays, TableOf
  <2>8. QueuesOK'
    BY <1>7, <2>3, <2>7, QueuesStay
  <2>9. InFlight' <= MaxInFlight
    BY <1>4, <2>3, UnderWayType, BoundsAssumption DEF CanSend
  <2>10. Variables'
    BY <1>4, <2>2, <2>9 DEF Variables
  <2> QED
    BY <1>7, <1>8, <2>3, <2>8, <2>10
<1> QED
  BY <1>9, <1>10

\* A new object of the server.
LEMMA NewResource ==
    ASSUME Variables, ProxiesOK, ResourcesOK, NEW o \in Objects, Exists("client", o),
           resources' = [resources EXCEPT ![o] = Given(o)],
           UNCHANGED <<release, proxies>>
    PROVE  /\ Grow /\ ProxiesOK' /\ ResourcesOK' /\ resources' \in [Objects -> Entries]
           /\ Exists("server", o)'
           /\ \A p \in Objects : Exists("server", p) => Exists("server", p)'
<1>1. resources \in [Objects -> Entries] /\ proxies \in [Objects -> Entries]
      /\ release \in [Sides -> Releases]
  BY DEF Variables
<1>2. proxies[o].interface \in Interfaces /\ proxies[o].version \in Nat
  BY <1>1 DEF ProxiesOK, Entries
<1>3. Given(o) \in Entries /\ Given(o) # NoObject
  <2>1. Described("server", proxies[o].interface).version \in Nat
    BY <1>1, <1>2, Version, TableOf
  <2>2. Given(o) \in Entries
    BY <1>2, <2>1 DEF Given, Entries
  <2>3. Given(o).interface # NoObject.interface
    BY <1>2, ProtocolAssumption DEF Given, NoObject
  <2> QED
    BY <2>2, <2>3
<1>4. /\ resources' \in [Objects -> Entries] /\ resources'[o] = Given(o)
      /\ \A p \in Objects \ {o} : resources'[p] = resources[p]
  BY <1>1, <1>3
<1>5. \A p \in Objects : Exists("server", p) => resources[p] = Given(p) /\ Exists("client", p)
  BY DEF ResourcesOK
<1>6. Grow
  BY <1>4, <1>5 DEF Grow
<1>7. \A p \in Objects : /\ Exists("server", p)' <=> Exists("server", p) \/ p = o
                         /\ Exists("client", p)' <=> Exists("client", p)
  BY <1>3, <1>4, TableOf
<1>8. ProxiesOK'
  BY <1>7 DEF ProxiesOK
<1>9. ResourcesOK'
  <2>1. ASSUME NEW p \in Objects, Exists("server", p)'
        PROVE  Exists("client", p)' /\ resources'[p] = Given(p)'
    <3>1. Given(p)' = Given(p)
      BY DEF Given, Described
    <3>2. Exists("client", p)' /\ resources'[p] = Given(p)
      <4>1. CASE p = o
        BY <1>4, <1>7, <4>1
      <4>2. CASE p # o
        BY <1>4, <1>5, <1>7, <2>1, <4>2
      <4> QED
        BY <4>1, <4>2
    <3> QED
      BY <3>1, <3>2
  <2> QED
    BY <2>1 DEF ResourcesOK
<1> QED
  BY <1>4, <1>6, <1>7, <1>8, <1>9

LEMMA HandleBindStep ==
    ASSUME WInv, HandleBind
    PROVE  WInv'
<1> USE DEF WInv
<1>1. /\ status = "open" /\ under_way["server"] # <<>>
      /\ Head(under_way["server"]).object = Registry
      /\ under_way' = [under_way EXCEPT !["server"] = Tail(@)]
      /\ UNCHANGED <<release, proxies, zombies, status>>
  BY DEF HandleBind
<1>2. PICK msg : msg = Head(under_way["server"])
  OBVIOUS
<1>3. resources' = bind_func(msg.body[2], msg.body[3], msg.body[4])
  BY <1>2 DEF HandleBind
<1>4. /\ Queues' /\ Waiting("server")' \subseteq Waiting("server") /\ msg \in Waiting("server")
      /\ Waiting("client")' = Waiting("client") /\ InFlight' = InFlight - 1 /\ InFlight \in Nat
  BY <1>1, <1>2, Taken, TableOf
<1>5. Bound(msg)
  <2>1. msg.object \notin Objects
    BY <1>1, <1>2, ObjectNumbers
  <2> QED
    BY <1>4, <2>1 DEF QueuesOK, Sound
<1>6. /\ msg.new \in Objects /\ Exists("client", msg.new)
      /\ resources' = [resources EXCEPT ![msg.new] = Given(msg.new)]
  <2>1. resources' = [resources EXCEPT ![msg.new] =
          [interface |-> proxies[msg.new].interface, version |-> proxies[msg.new].version]]
    BY <1>3, <1>5 DEF bind_func, generated_t, resource_t, Bound
  <2>2. Given(msg.new) =
          [interface |-> proxies[msg.new].interface, version |-> proxies[msg.new].version]
    BY <1>5 DEF Given, Bound
  <2> QED
    BY <1>5, <2>1, <2>2 DEF Bound
<1>7. /\ Grow /\ ProxiesOK' /\ ResourcesOK' /\ resources' \in [Objects -> Entries]
      /\ Exists("server", msg.new)'
      /\ \A p \in Objects : Exists("server", p) => Exists("server", p)'
  BY <1>1, <1>6, NewResource
<1>8. QueuesOK'
  BY <1>4, <1>7, QueuesStay
<1>9. InOrder'
  BY <1>1, <1>2, <1>7, OrderOnTaking
<1>10. Variables'
  <2>1. InFlight' <= MaxInFlight
    BY <1>4, BoundsAssumption DEF Variables
  <2> QED
    BY <1>1, <1>7, <2>1 DEF Variables
<1> QED
  BY <1>4, <1>7, <1>8, <1>9, <1>10

\* What the server creates for a request.
LEMMA Creates ==
    ASSUME WInv, NEW msg, Sound("client", msg), Exists("server", msg.object),
           Received("server", msg) = msg.message, msg.message \in Spoken
    PROVE  IF msg.new \in Objects
           THEN /\ Exists("client", msg.new)
                /\ Created(msg) = [resources EXCEPT ![msg.new] = Given(msg.new)]
           ELSE Created(msg) = resources
<1> DEFINE m   == msg.message
           new == {c \in DOMAIN Letters[m] : Letters[m][c] = "n"}
<1>1. NewOK("client", m, msg.new)
  BY DEF Sound
<1>2. /\ new = Carried(m, "new_id")
      /\ \A c \in new : msg.body[c] = msg.new
  <2>1. Received(Peer("client"), msg) = msg.message
    BY TableOf
  <2> QED
    BY <2>1, Handlers, TableOf DEF Carried
<1>3. CASE Carried(m, "new_id") = {}
  BY <1>1, <1>2, <1>3, ObjectNumbers DEF NewOK, Created
<1>4. CASE Carried(m, "new_id") # {}
  <2>1. PICK c : c = (CHOOSE d \in new : TRUE)
    OBVIOUS
  <2>2. c \in Carried(m, "new_id")
    BY <1>2, <1>4, <2>1
  <2>3. /\ msg.new \in Objects /\ Exists("client", msg.new)
        /\ proxies[msg.new].interface = m.args[c].interface
    BY <1>1, <2>2 DEF NewOK
  <2>4. m.args[c].interface \notin Globals /\ TypeAt(m, c) = m.args[c].interface
    BY <2>2, MessageFacts DEF TypeAt, Carried
  <2>5. Created(msg) = resource_t(TypeAt(m, c), Described("server", TypeAt(m, c)).version,
                                  msg.body[c])
    BY <1>2, <1>4, <2>1 DEF Created
  <2>6. Created(msg) = [resources EXCEPT ![msg.new] =
          [interface |-> m.args[c].interface,
           version   |-> Described("server", m.args[c].interface).version]]
    BY <1>2, <2>2, <2>4, <2>5 DEF resource_t
  <2>7. Given(msg.new) = [interface |-> m.args[c].interface,
                          version   |-> Described("server", m.args[c].interface).version]
    BY <2>3, <2>4 DEF Given
  <2> QED
    BY <2>3, <2>6, <2>7
<1> QED
  BY <1>3, <1>4

LEMMA HandledType ==
    ASSUME NEW side, NEW msg, NEW heard \in BOOLEAN
    PROVE  Handled(side, msg, heard) \in {"open", "threw", "crashed"}
<1>1. CASE ~heard
  BY <1>1 DEF Handled
<1>2. CASE heard /\ BadCast(Received(side, msg), Arguments(side, msg))
  BY <1>2 DEF Handled
<1>3. CASE heard /\ ~BadCast(Received(side, msg), Arguments(side, msg))
  BY <1>3 DEF Handled
<1> QED
  BY <1>1, <1>2, <1>3

LEMMA HandleRequestStep ==
    ASSUME WInv, HandleRequest
    PROVE  WInv'
<1> USE DEF WInv
<1>1. /\ status = "open" /\ under_way["server"] # <<>>
      /\ Head(under_way["server"]).object # Registry
      /\ under_way' = [under_way EXCEPT !["server"] = Tail(@)]
      /\ UNCHANGED <<release, proxies, zombies>>
  BY DEF HandleRequest
<1>2. PICK msg : msg = Head(under_way["server"])
  OBVIOUS
<1>3. IF Accepts("server", msg)
      THEN /\ resources' = Created(msg)
           /\ \E heard \in BOOLEAN : status' = Handled("server", msg, heard)
      ELSE status' = "refused" /\ UNCHANGED resources
  BY <1>2 DEF HandleRequest
<1>4. /\ Queues' /\ Waiting("server")' \subseteq Waiting("server") /\ msg \in Waiting("server")
      /\ Waiting("client")' = Waiting("client") /\ InFlight' = InFlight - 1 /\ InFlight \in Nat
  BY <1>1, <1>2, Taken, TableOf
<1>5. Sound("client", msg)
  <2>1. msg.object # Registry
    BY <1>1, <1>2
  <2> QED
    BY <1>4, <2>1 DEF QueuesOK, Bound
<1>6. status' \in {"open", "threw", "crashed", "refused"}
  BY <1>3, HandledType
<1>7. InFlight' <= MaxInFlight
  BY <1>4, BoundsAssumption DEF Variables
<1>8. ASSUME resources' = resources, status' = "open" => msg.new \notin Objects
      PROVE  WInv'
  <2>1. Grow /\ ProxiesOK' /\ ResourcesOK'
    BY <1>1, <1>8, SameTables
  <2>2. QueuesOK'
    BY <1>4, <2>1, QueuesStay
  <2>3. \A p \in Objects : Exists("server", p) => Exists("server", p)'
    BY <1>8, TableOf
  <2>4. InOrder'
    BY <1>1, <1>2, <1>8, <2>3, OrderOnTaking
  <2>5. Variables'
    BY <1>1, <1>6, <1>7, <1>8 DEF Variables
  <2> QED
    BY <1>4, <2>1, <2>2, <2>4, <2>5
<1>9. CASE ~Accepts("server", msg)
  BY <1>3, <1>8, <1>9
<1>10. CASE Accepts("server", msg)
  <2>1. /\ Exists("server", msg.object)
        /\ msg.opcode + 1 \in DOMAIN Incoming("server", resources[msg.object].interface)
    BY <1>10, TableOf DEF Accepts, Known
  <2>2. Received("server", msg) = msg.message /\ msg.message \in Spoken
    BY <1>5, <2>1, Meant, TableOf
  <2>3. CASE msg.new \notin Objects
    BY <1>3, <1>5, <1>8, <1>10, <2>1, <2>2, <2>3, Creates
  <2>4. CASE msg.new \in Objects
    <3>1. /\ Exists("client", msg.new)
          /\ resources' = [resources EXCEPT ![msg.new] = Given(msg.new)]
      BY <1>3, <1>5, <1>10, <2>1, <2>2, <2>4, Creates
    <3>2. /\ Grow /\ ProxiesOK' /\ ResourcesOK' /\ resources' \in [Objects -> Entries]
          /\ Exists("server", msg.new)'
          /\ \A p \in Objects : Exists("server", p) => Exists("server", p)'
      BY <1>1, <2>4, <3>1, NewResource
    <3>3. QueuesOK'
      BY <1>4, <3>2, QueuesStay
    <3>4. InOrder'
      BY <1>1, <1>2, <3>2, OrderOnTaking
    <3>5. Variables'
      BY <1>1, <1>6, <1>7, <3>2 DEF Variables
    <3> QED
      BY <1>4, <3>2, <3>3, <3>4, <3>5
  <2> QED
    BY <2>3, <2>4
<1> QED
  BY <1>9, <1>10

LEMMA HandleEventStep ==
    ASSUME WInv, HandleEvent
    PROVE  WInv'
<1> USE DEF WInv
<1>1. /\ status = "open" /\ under_way["client"] # <<>>
      /\ under_way' = [under_way EXCEPT !["client"] = Tail(@)]
      /\ UNCHANGED <<release, proxies, zombies, resources>>
  BY DEF HandleEvent
<1>2. PICK msg : msg = Head(under_way["client"])
  OBVIOUS
<1>3. status' \in {"open", "threw", "crashed", "refused"}
  <2>1. CASE msg.object \in zombies
    BY <1>1, <1>2, <2>1 DEF HandleEvent
  <2>2. CASE msg.object \notin zombies /\ Accepts("client", msg)
    BY <1>2, <2>2, HandledType DEF HandleEvent
  <2>3. CASE msg.object \notin zombies /\ ~Accepts("client", msg)
    BY <1>2, <2>3 DEF HandleEvent
  <2> QED
    BY <2>1, <2>2, <2>3
<1>4. /\ Queues' /\ Waiting("client")' \subseteq Waiting("client")
      /\ Waiting("server")' = Waiting("server") /\ InFlight' = InFlight - 1 /\ InFlight \in Nat
      /\ under_way'["server"] = under_way["server"]
  BY <1>1, Taken, TableOf
<1>5. Grow /\ ProxiesOK' /\ ResourcesOK'
  BY <1>1, SameTables
<1>6. QueuesOK'
  BY <1>4, <1>5, QueuesStay
<1>7. InOrder'
  BY <1>1, <1>4, OrderOtherwise
<1>8. InFlight' <= MaxInFlight
  BY <1>4, BoundsAssumption DEF Variables
<1>9. Variables'
  BY <1>1, <1>3, <1>8 DEF Variables
<1> QED
  BY <1>4, <1>5, <1>6, <1>7, <1>9

LEMMA NextKeeps ==
    ASSUME WInv, [Next]_vars
    PROVE  WInv'
<1>1. CASE \E i \in Globals, v \in Releases : Bind(i, v)
  BY <1>1, BindStep
<1>2. CASE \E o \in Held("client") :
             \E k \in DOMAIN Outgoing("client", proxies[o].interface) : Request(o, k)
  BY <1>2, RequestStep
<1>3. CASE \E o \in Held("client") : Release(o)
  BY <1>3, ReleaseStep
<1>4. CASE \E o \in Held("server") :
             \E k \in DOMAIN Outgoing("server", resources[o].interface) : Event(o, k)
  BY <1>4, EventStep
<1>5. CASE HandleBind
  BY <1>5, HandleBindStep
<1>6. CASE HandleRequest
  BY <1>6, HandleRequestStep
<1>7. CASE HandleEvent
  BY <1>7, HandleEventStep
<1>8. CASE UNCHANGED vars
  <2>1. UNCHANGED <<release, proxies, zombies, resources, under_way, status>>
    BY <1>8 DEF vars
  <2>2. Waiting("server")' = Waiting("server") /\ Waiting("client")' = Waiting("client")
        /\ InFlight' = InFlight
    BY <2>1 DEF Waiting, InFlight
  <2>3. Grow /\ ProxiesOK' /\ ResourcesOK'
    BY <2>1, SameTables DEF WInv
  <2>4. QueuesOK'
    BY <2>2, <2>3, QueuesStay DEF WInv
  <2>5. InOrder'
    BY <2>1, OrderOtherwise DEF WInv
  <2>6. Variables' /\ Queues'
    BY <2>1, <2>2 DEF WInv, Variables, Queues
  <2> QED
    BY <2>3, <2>4, <2>5, <2>6 DEF WInv
<1> QED
  BY <1>1, <1>2, <1>3, <1>4, <1>5, <1>6, <1>7, <1>8 DEF Next

LEMMA InitKeeps ==
    ASSUME Init
    PROVE  WInv
<1>1. /\ release \in [Sides -> Releases] /\ zombies = {} /\ status = "open"
      /\ \A o \in Objects : proxies[o] = NoObject /\ resources[o] = NoObject
      /\ under_way["client"] = <<>> /\ under_way["server"] = <<>>
  BY TableOf DEF Init
<1>2. \A o \in Objects : ~Exists("client", o) /\ ~Exists("server", o)
  BY <1>1, TableOf
<1>3. Queues
  <2>1. under_way \in [Sides -> Seq({})]
    BY DEF Init
  <2> QED
    BY <2>1 DEF Queues
<1>4. Variables
  <2>1. NoObject \in Entries
    BY DEF NoObject, Entries
  <2>2. proxies \in [Objects -> Entries] /\ resources \in [Objects -> Entries]
    BY <2>1 DEF Init
  <2>3. InFlight = 0
    BY <1>1 DEF InFlight
  <2> QED
    BY <1>1, <2>2, <2>3, BoundsAssumption DEF Variables
<1>5. QueuesOK
  BY <1>1 DEF QueuesOK, Waiting
<1>6. InOrder
  BY <1>1, <1>2 DEF InOrder
<1> QED
  BY <1>2, <1>3, <1>4, <1>5, <1>6 DEF WInv, ProxiesOK, ResourcesOK

\* What the client, the server and the messages between them have in common, for any
\* habits of the two programs.
THEOREM Invariant == Spec => []WInv
<1>1. Init => WInv
  BY InitKeeps
<1>2. WInv /\ [Next]_vars => WInv'
  BY NextKeeps
<1> QED
  BY <1>1, <1>2, PTL DEF Spec

-----------------------------------------------------------------------------
(* What it gives *)

\* The variables of the model have their types, the tables of both libraries and the
\* queues included.
THEOREM WireTypeCorrect == Spec => []WireTypeOK
<1>1. WInv => WireTypeOK
  <2> SUFFICES ASSUME WInv PROVE WireTypeOK
    OBVIOUS
  <2> USE DEF WInv
  <2>1. \A side \in Sides : \A p \in DOMAIN under_way[side] :
          under_way[side][p].object \in Objects \cup {Registry}
    <3>1. \A msg \in Waiting("server") : msg.object \in Objects \cup {Registry}
      BY DEF QueuesOK, Bound, Sound
    <3>2. \A msg \in Waiting("client") : msg.object \in Objects \cup {Registry}
      BY DEF QueuesOK, Sound
    <3> QED
      BY <3>1, <3>2, TableOf DEF Waiting
  <2> QED
    BY <2>1, UnderWayType DEF Variables, Entries, WireTypeOK
<1> QED
  BY <1>1, Invariant, PTL

\* An object that the server has got to know has the same interface on both sides
\* and, if it was bound, the version that the client asked for: whatever the
\* releases the two programs were built from, and whatever they send.
THEOREM ObjectsAgreeCorrect == Spec => []ObjectsAgree
<1>1. WInv => ObjectsAgree
  BY Alike DEF WInv, ObjectsAgree
<1> QED
  BY <1>1, Invariant, PTL

\* A request that can_X() allows the client is one that the server's object has.
THEOREM RequestsKnownCorrect == Spec => []RequestsKnown
<1>1. WInv => RequestsKnown
  <2> SUFFICES ASSUME WInv PROVE RequestsKnown
    OBVIOUS
  <2> USE DEF WInv
  <2>1. ASSUME NEW o \in Objects, Exists("server", o),
               NEW k \in DOMAIN Outgoing("client", proxies[o].interface),
               can_("client", o, Outgoing("client", proxies[o].interface)[k])
        PROVE  LET sent == Outgoing("client", proxies[o].interface)
                   known == Incoming("server", resources[o].interface)
               IN  /\ k \in DOMAIN known /\ known[k].since = sent[k].since
                   /\ known[k].since <= resources[o].version
    <3>1. PICK i \in Interfaces : i = proxies[o].interface /\ i = resources[o].interface
      BY <2>1, Alike DEF ProxiesOK
    <3>2. release \in [Sides -> Releases]
      BY DEF Variables
    <3>3. /\ Outgoing("client", i) =
               [j \in {j \in DOMAIN Said("client", i) :
                         Said("client", i)[j].since <= release["client"]} |-> Said("client", i)[j]]
          /\ Incoming("server", i) =
               [j \in {j \in DOMAIN Said("client", i) :
                         Said("client", i)[j].since <= release["server"]} |-> Said("client", i)[j]]
          /\ \A j \in DOMAIN Said("client", i) :
               /\ Said("client", i)[j].since \in Nat
               /\ Said("client", i)[j].since <= Protocol[i].version
      <4>1. "client" \in Sides /\ Peer("client") = "server"
        BY TableOf
      <4>2. Incoming(Peer("client"), i) =
              [j \in {j \in DOMAIN Said("client", i) :
                        Said("client", i)[j].since <= release[Peer("client")]} |->
                 Said("client", i)[j]]
        BY <3>2, <4>1, Compiled
      <4>3. /\ Outgoing("client", i) =
                 [j \in {j \in DOMAIN Said("client", i) :
                           Said("client", i)[j].since <= release["client"]} |->
                    Said("client", i)[j]]
            /\ \A j \in DOMAIN Said("client", i) :
                 /\ Said("client", i)[j].since \in Nat \ {0}
                 /\ Said("client", i)[j].since <= Protocol[i].version
        BY <3>2, <4>1, Compiled
      <4> QED
        BY <4>1, <4>2, <4>3
    <3>4. k \in DOMAIN Said("client", i) /\ k \in DOMAIN Outgoing("client", i)
          /\ Outgoing("client", i)[k] = Said("client", i)[k]
      BY <2>1, <3>1, <3>3
    <3>5. PICK since \in Nat : since = Said("client", i)[k].since
      BY <3>3, <3>4
    <3>6. since <= proxies[o].version /\ since <= Protocol[proxies[o].interface].version
      <4>1. Outgoing("client", proxies[o].interface)[k].since = since
        BY <3>1, <3>4, <3>5
      <4>2. proxies[o].version >= Outgoing("client", proxies[o].interface)[k].since
        BY <2>1, TableOf DEF can_
      <4>3. proxies[o].version \in Nat
        BY DEF Variables, Entries
      <4>4. since <= proxies[o].version
        BY <4>1, <4>2, <4>3
      <4> QED
        BY <3>1, <3>3, <3>4, <3>5, <4>4
    <3>7. since <= release["server"] /\ since <= resources[o].version
      BY <2>1, <3>6, KnownToServer
    <3>8. /\ k \in DOMAIN Incoming("server", i)
          /\ Incoming("server", i)[k] = Said("client", i)[k]
      BY <3>3, <3>4, <3>5, <3>7
    <3> QED
      BY <3>1, <3>4, <3>5, <3>7, <3>8
  <2> QED
    BY <2>1 DEF RequestsKnown
<1> QED
  BY <1>1, Invariant, PTL

LEMMA Rounding == ASSUME NEW d \in Int PROVE FixedToDouble(FixedFromDouble(d)) - d \in -1 .. 1
<1>1. 2 * ((d + 1) \div 2) - d \in -1 .. 1
  OBVIOUS
<1> QED
  BY <1>1 DEF FixedFromDouble, FixedToDouble

\* The first message is one of those that wait.
LEMMA Oldest ==
    ASSUME Queues, NEW side \in Sides, under_way[side] # <<>>
    PROVE  Head(under_way[side]) \in Waiting(side) /\ 1 \in DOMAIN under_way[side]
           /\ Head(under_way[side]) = under_way[side][1]
<1>1. PICK S : under_way[side] \in Seq(S)
  BY DEF Queues
<1>2. ASSUME NEW q \in Seq(S), q # <<>> PROVE 1 \in DOMAIN q /\ Head(q) = q[1]
  BY <1>2
<1> QED
  BY <1>1, <1>2 DEF Waiting

\* A message that reaches a handler reaches that of the message that was called, with
\* the arguments of the call in their places: for every protocol, every release of it
\* on each side, and whatever the two programs send.
THEOREM ArgumentsArriveCorrect == Spec => []ArgumentsArrive
<1>1. ASSUME WInv, NEW side \in Sides, NEW msg \in ToHandler(side)
      PROVE  LET m == Received(side, msg)
                 vargs == Arguments(side, msg)
             IN  /\ m = msg.message
                 /\ \A c \in DOMAIN m.args :
                      Arrived(side, m.args[c], msg.args[c], Handed(m, vargs)[c], msg.new)
  <2> USE <1>1 DEF WInv
  <2> DEFINE m == msg.message
             vargs == Arguments(side, msg)
  <2>1. PICK sender \in Sides : Peer(sender) = side
    BY DEF Sides, Peer
  <2>2. msg \in Waiting(side) /\ msg.object # Registry /\ Accepts(side, msg)
    <3>1. msg = Head(under_way[side]) /\ under_way[side] # <<>>
      BY DEF ToHandler, NextMessage
    <3> QED
      BY <3>1, Oldest DEF ToHandler
  <2>3. Sound(sender, msg)
    BY <2>1, <2>2, TableOf DEF QueuesOK, Bound
  <2>4. /\ Exists(side, msg.object)
        /\ msg.opcode + 1 \in DOMAIN Incoming(side, Table(side)[msg.object].interface)
    BY <2>2 DEF Accepts, Known
  <2>5. Received(side, msg) = m /\ m \in Spoken
    BY <2>1, <2>3, <2>4, Meant
  <2>6. \A c \in DOMAIN m.args :
          /\ m.args[c].type = "new_id" => vargs[c].value = msg.new
          /\ m.args[c].type = "fixed" =>
               vargs[c].value = FixedToDouble(FixedFromDouble(msg.args[c]))
          /\ m.args[c].type \notin {"new_id", "fixed"} =>
               \/ vargs[c].value = msg.args[c]
               \/ /\ sender = "server" /\ m.args[c].type = "object"
                  /\ msg.args[c] \in zombies /\ vargs[c].value = 0
    <3>1. \A c \in DOMAIN m.args :
            /\ m.args[c].type = "new_id" => Arguments(Peer(sender), msg)[c].value = msg.new
            /\ m.args[c].type = "fixed" =>
                 Arguments(Peer(sender), msg)[c].value =
                   FixedToDouble(FixedFromDouble(msg.args[c]))
            /\ m.args[c].type \notin {"new_id", "fixed"} =>
                 \/ Arguments(Peer(sender), msg)[c].value = msg.args[c]
                 \/ /\ sender = "server" /\ m.args[c].type = "object"
                    /\ msg.args[c] \in zombies /\ Arguments(Peer(sender), msg)[c].value = 0
      BY <2>1, <2>3, <2>5, Handlers
    <3> QED
      BY <2>1, <3>1
  <2>7. \A c \in DOMAIN m.args : ArgumentOK(sender, m.args[c], msg.args[c])
    BY <2>3 DEF Sound
  <2>8. sender = "server" => side = "client"
    BY <2>1 DEF Peer
  <2> HIDE DEF vargs
  <2>9. ASSUME NEW c \in DOMAIN m.args
        PROVE  Arrived(side, m.args[c], msg.args[c], vargs[c].value, msg.new)
    <3>1. CASE m.args[c].type = "fixed"
      <4>1. msg.args[c] \in Int
        BY <2>7, <3>1 DEF ArgumentOK
      <4>2. vargs[c].value - msg.args[c] \in -1 .. 1
        BY <2>6, <3>1, <4>1, Rounding
      <4> QED
        BY <3>1, <4>2 DEF Arrived
    <3>2. CASE m.args[c].type = "new_id"
      BY <2>6, <3>2 DEF Arrived
    <3>3. CASE m.args[c].type \notin {"fixed", "new_id"}
      BY <2>6, <2>8, <3>3 DEF Arrived
    <3> QED
      BY <3>1, <3>2, <3>3
  <2>10. \A c \in DOMAIN m.args : Handed(m, vargs)[c] = vargs[c].value
    BY DEF Handed
  <2> QED
    BY <2>5, <2>9, <2>10 DEF vargs
<1>2. WInv => ArgumentsArrive
  BY <1>1 DEF ArgumentsArrive
<1> QED
  BY <1>2, Invariant, PTL

-----------------------------------------------------------------------------
(* The connection of two careful programs *)

\* Nothing that they send is refused on the way out.
LEMMA Marshals ==
    ASSUME Habits = {}, WInv, [Next]_vars, status = "open",
           ~HandleBind, ~HandleRequest, ~HandleEvent
    PROVE  status' = "open"
<1> USE DEF WInv
<1>1. ASSUME NEW i \in Globals, NEW v \in Releases, Bind(i, v) PROVE status' = status
  BY <1>1 DEF Bind
<1>2. ASSUME NEW o \in Held("client"), Release(o) PROVE status' = status
  <2> DEFINE list == Outgoing("client", proxies[o].interface)
  <2>1. CASE DestroyRequest(list) = {}
    BY <1>2, <2>1 DEF Release
  <2>2. CASE DestroyRequest(list) # {}
    <3>1. PICK k \in DestroyRequest(list) :
            Send("client", o, Opcode(list, k), list[k], <<>>, 0)
      BY <1>2, <2>2 DEF Release
    <3>2. k \in DOMAIN list /\ list[k].name = "destroy"
      BY <3>1 DEF DestroyRequest
    <3>3. list[k] \in Spoken /\ list[k].args = <<>>
      <4>1. /\ proxies[o].interface \in Interfaces /\ list[k] \in Spoken
            /\ k \in DOMAIN Said("client", proxies[o].interface)
            /\ list[k] = Said("client", proxies[o].interface)[k]
        BY <3>2, Generated, TableOf
      <4>2. /\ k \in DestroyRequest(Protocol[proxies[o].interface].requests)
            /\ list[k] = Protocol[proxies[o].interface].requests[k]
        BY <3>2, <4>1 DEF DestroyRequest, Said
      <4> QED
        BY <4>1, <4>2, ProtocolAssumption
    <3>4. PICK m \in Spoken : m = list[k] /\ m.args = <<>>
      BY <3>3
    <3>5. Carried(m, "new_id") = {} /\ DOMAIN m.args = {}
      BY <3>4 DEF Carried
    <3>6. ~RefusesToSend(m, CallArguments(m, <<>>), 0)
      BY <3>5, Refused, TableOf
    <3>7. Send("client", o, Opcode(list, k), m, <<>>, 0)
      BY <3>1, <3>4
    <3> QED
      BY <3>6, <3>7 DEF Send
  <2> QED
    BY <2>1, <2>2
<1>3. ASSUME NEW o \in Held("client"),
             NEW k \in DOMAIN Outgoing("client", proxies[o].interface), Request(o, k)
      PROVE  status' = status
  <2> DEFINE list == Outgoing("client", proxies[o].interface)
  <2>1. PICK m \in Spoken : m = list[k]
    BY Generated, TableOf
  <2>2. PICK args \in ArgumentLists("client", m) :
          IF Carried(m, "new_id") = {}
          THEN Send("client", o, Opcode(list, k), m, args, 0)
          ELSE \E new \in NextId : Send("client", o, Opcode(list, k), m, args, new)
    BY <1>3, <2>1 DEF Request
  <2>3. \A c \in DOMAIN m.args : ArgumentOK("client", m.args[c], args[c])
    BY <2>2, Passed, TableOf
  <2>4. \A new : RefusesToSend(m, CallArguments(m, args), new) <=>
                   Carried(m, "new_id") # {} /\ new = 0
    BY <2>3, Refused, TableOf
  <2>5. CASE Carried(m, "new_id") = {}
    BY <2>2, <2>4, <2>5 DEF Send
  <2>6. CASE Carried(m, "new_id") # {}
    <3>1. PICK new \in NextId : Send("client", o, Opcode(list, k), m, args, new)
      BY <2>2, <2>6
    <3>2. new # 0
      BY ObjectNumbers DEF NextId
    <3> QED
      BY <2>4, <3>1, <3>2 DEF Send
  <2> QED
    BY <2>5, <2>6
<1>4. ASSUME NEW o \in Held("server"),
             NEW k \in DOMAIN Outgoing("server", resources[o].interface), Event(o, k)
      PROVE  status' = status
  <2> DEFINE list == Outgoing("server", resources[o].interface)
  <2>1. PICK m \in Spoken : m = list[k]
    BY Generated, TableOf
  <2>2. PICK args \in ArgumentLists("server", m) :
          Send("server", o, Opcode(list, k), m, args, 0)
    BY <1>4, <2>1 DEF Event
  <2>3. \A c \in DOMAIN m.args : ArgumentOK("server", m.args[c], args[c])
    BY <2>2, Passed, TableOf
  <2>4. Carried(m, "new_id") = {}
    BY <1>4, <2>1 DEF Event
  <2>5. ~RefusesToSend(m, CallArguments(m, args), 0)
    BY <2>3, <2>4, Refused, TableOf
  <2> QED
    BY <2>2, <2>5 DEF Send
<1>5. CASE UNCHANGED vars
  BY <1>5 DEF vars
<1> QED
  BY <1>1, <1>2, <1>3, <1>4, <1>5 DEF Next

\* Nothing that is next is refused on the way in.
LEMMA AcceptsNext ==
    ASSUME Habits = {}, WInv, status = "open", NEW sender \in Sides,
           under_way[Peer(sender)] # <<>>,
           NEW msg, msg = Head(under_way[Peer(sender)]), Sound(sender, msg)
    PROVE  Accepts(Peer(sender), msg)
<1> USE DEF WInv
<1> DEFINE o == msg.object
           m == msg.message
<1>1. o \in Objects /\ Exists(sender, o)
  BY DEF Sound
<1>2. \A p \in Names(msg) : Exists(Peer(sender), p)
  <2>1. ASSUME NEW p \in Names(msg), sender = "client"
        PROVE  Exists("server", p)
    <3>1. 1 \in DOMAIN under_way["server"] /\ msg = under_way["server"][1]
      BY <2>1, Oldest, TableOf
    <3>2. Arrives(p, 1)
      BY <3>1 DEF InOrder
    <3>3. ~ \E i \in DOMAIN under_way["server"] : i < 1
      <4>1. PICK S : under_way["server"] \in Seq(S)
        BY TableOf DEF Queues
      <4>2. \A i \in DOMAIN under_way["server"] : i \in Nat \ {0}
        BY <4>1
      <4> QED
        BY <4>2
    <3> QED
      BY <3>2, <3>3 DEF Arrives
  <2>2. ASSUME NEW p \in Names(msg), sender = "server"
        PROVE  Exists("client", p)
    <3>1. CASE p = o
      BY <1>1, <2>2, <3>1, Alike
    <3>2. CASE p # o
      <4>1. p \in Objects /\ p # 0
        BY ObjectNumbers DEF Names
      <4>2. PICK c \in Carried(m, "object") : p = msg.args[c]
        BY <2>2, <3>2 DEF Names
      <4>3. ArgumentOK(sender, m.args[c], msg.args[c]) /\ m.args[c].type = "object"
        BY <4>2 DEF Carried, Sound
      <4>4. Exists("server", p)
        BY <2>2, <4>1, <4>2, <4>3 DEF ArgumentOK
      <4> QED
        BY <4>1, <4>4, Alike
    <3> QED
      BY <3>1, <3>2
  <2> QED
    BY <2>1, <2>2, TableOf
<1>3. Exists(Peer(sender), o)
  BY <1>1, <1>2 DEF Names
<1>4. /\ m \in Spoken /\ m.since \in Nat /\ Exists("client", o) /\ Exists("server", o)
      /\ proxies[o].interface \in Interfaces
      /\ m.since <= Protocol[proxies[o].interface].version
      /\ msg.opcode + 1 \in DOMAIN Incoming(Peer(sender), Table(Peer(sender))[o].interface)
           <=> m.since <= release[Peer(sender)]
      /\ msg.opcode + 1 \in DOMAIN Incoming(Peer(sender), Table(Peer(sender))[o].interface)
           => Received(Peer(sender), msg) = m
  BY <1>3, Meant
<1>5. m.since <= proxies[o].version /\ m.since <= Table(sender)[o].version
  BY TableOf DEF Sound
<1>6. m.since <= release[Peer(sender)]
  <2>1. proxies[o].version <= release[Peer(sender)] /\ proxies[o].version \in Nat
    BY <1>1, <1>4, TableOf DEF ProxiesOK, Variables, Entries
  <2>2. release[Peer(sender)] \in Nat
    BY ProtocolAssumption, TableOf DEF Variables
  <2> QED
    BY <1>4, <1>5, <2>1, <2>2
<1>7. Known(Peer(sender), msg) /\ Received(Peer(sender), msg) = m
  BY <1>3, <1>4, <1>6 DEF Known
<1>8. Peer(sender) = "server" => m.since <= resources[o].version
  BY <1>1, <1>4, <1>5, KnownToServer
<1>9. /\ DOMAIN msg.body = DOMAIN m.args /\ DOMAIN Letters[m] = DOMAIN m.args
      /\ \A c \in DOMAIN m.args :
           /\ Letters[m][c] = "o" <=> m.args[c].type = "object"
           /\ m.args[c].type = "object" => msg.body[c] = msg.args[c]
  <2>1. m \in Spoken /\ Received(Peer(sender), msg) = m
    BY <1>4, <1>7
  <2>2. DOMAIN msg.body = DOMAIN m.args /\ DOMAIN Letters[m] = DOMAIN m.args
    BY <2>1, Handlers
  <2>3. \A c \in DOMAIN m.args : Letters[m][c] = "o" <=> m.args[c].type = "object"
    BY <2>1, Handlers
  <2>4. \A c \in DOMAIN m.args : m.args[c].type = "object" => msg.body[c] = msg.args[c]
    BY <2>1, Handlers
  <2> QED
    BY <2>2, <2>3, <2>4
<1>10. ASSUME NEW c \in DOMAIN m.args, Letters[m][c] = "o", msg.body[c] # 0
       PROVE  /\ msg.body[c] \in Objects /\ Exists(Peer(sender), msg.body[c])
              /\ TypeAt(m, c) \in {NoInterface, Table(Peer(sender))[msg.body[c]].interface}
  <2>1. m.args[c].type = "object" /\ msg.args[c] = msg.body[c]
    BY <1>9, <1>10
  <2>2. ArgumentOK(sender, m.args[c], msg.args[c])
    BY DEF Sound
  <2>3. PICK p : p = msg.args[c]
    OBVIOUS
  <2>4. /\ p \in Objects /\ Exists(sender, p)
        /\ m.args[c].interface \in {NoInterface, Table(sender)[p].interface}
    BY <1>10, <2>1, <2>2, <2>3 DEF ArgumentOK
  <2>5. p \in Names(msg)
    BY <2>1, <2>3, <2>4 DEF Names, Carried
  <2>6. Exists(Peer(sender), p)
    BY <1>2, <2>5
  <2>7. Exists("server", p)
    BY <2>4, <2>6, TableOf
  <2>8. Table(Peer(sender))[p].interface = Table(sender)[p].interface
    BY <2>4, <2>7, Alike, TableOf
  <2> QED
    BY <2>1, <2>3, <2>4, <2>6, <2>8 DEF TypeAt
<1> QED
  BY ZenonT(30), <1>7, <1>8, <1>9, <1>10 DEF Accepts

\* And no handler throws or meets a null object.
LEMMA HandlesNext ==
    ASSUME Habits = {}, WInv, NEW sender \in Sides, NEW msg, Sound(sender, msg),
           Accepts(Peer(sender), msg), NEW heard \in BOOLEAN
    PROVE  Handled(Peer(sender), msg, heard) = "open"
<1> USE DEF WInv
<1> DEFINE m     == msg.message
           vargs == Arguments(Peer(sender), msg)
<1>1. m \in Spoken /\ Received(Peer(sender), msg) = m
  BY Meant DEF Accepts, Known
<1>2. ~BadCast(m, vargs)
  BY <1>1, Handlers
<1>3. ASSUME Peer(sender) = "server"
      PROVE  ~NullResource(m, vargs)
  <2>1. sender = "client"
    BY <1>3, TableOf
  <2>2. ASSUME NEW c \in DOMAIN m.args, m.args[c].interface # NoInterface
        PROVE  vargs[c].value # 0
    <3>1. m.args[c].type \in {"object", "new_id"}
      BY <1>1, <2>2, MessageFacts DEF ObjectTypes
    <3>2. CASE m.args[c].type = "new_id"
      <4>1. vargs[c].value = msg.new
        BY <1>1, <3>2, Handlers
      <4>2. c \in Carried(m, "new_id")
        BY <3>2 DEF Carried
      <4>3. msg.new \in Objects
        BY <4>2 DEF Sound, NewOK
      <4> QED
        BY <4>1, <4>3, ObjectNumbers
    <3>3. CASE m.args[c].type = "object"
      <4>1. vargs[c].value = msg.args[c]
        BY <1>1, <2>1, <3>3, Handlers
      <4>2. ArgumentOK("client", m.args[c], msg.args[c])
        BY <2>1 DEF Sound
      <4>3. msg.args[c] # 0
        BY <2>2, <3>3, <4>2 DEF ArgumentOK
      <4> QED
        BY <4>1, <4>3
    <3> QED
      BY <3>1, <3>2, <3>3
  <2> HIDE DEF vargs
  <2> QED
    BY <2>2 DEF NullResource
<1>4. CASE ~heard
  BY <1>4 DEF Handled
<1>5. CASE heard
  BY <1>1, <1>2, <1>3, <1>5 DEF Handled
<1> QED
  BY <1>4, <1>5

\* Two programs that keep to the rules never lose their connection, built from
\* whatever releases of whatever protocol.
THEOREM ConnectionHoldsCorrect ==
    ASSUME Habits = {}
    PROVE  Spec => []ConnectionHolds
<1>1. Init => ConnectionHolds
  BY DEF Init, ConnectionHolds
<1>2. WInv /\ ConnectionHolds /\ [Next]_vars => ConnectionHolds'
  <2> SUFFICES ASSUME WInv, status = "open", [Next]_vars PROVE status' = "open"
    BY DEF ConnectionHolds
  <2>1. CASE HandleBind
    BY <2>1 DEF HandleBind
  <2>2. CASE HandleRequest
    <3>1. PICK msg : msg = Head(under_way["server"])
      OBVIOUS
    <3>2. /\ under_way["server"] # <<>> /\ msg.object # Registry
          /\ Accepts("server", msg) => \E heard \in BOOLEAN : status' = Handled("server", msg, heard)
      BY <2>2, <3>1 DEF HandleRequest
    <3>3. Sound("client", msg)
      BY <3>1, <3>2, Oldest, TableOf DEF WInv, QueuesOK, Bound
    <3>4. Accepts("server", msg)
      BY <3>1, <3>2, <3>3, AcceptsNext, TableOf
    <3> QED
      BY <3>2, <3>3, <3>4, HandlesNext, TableOf
  <2>3. CASE HandleEvent
    <3>1. PICK msg : msg = Head(under_way["client"])
      OBVIOUS
    <3>2. under_way["client"] # <<>>
      BY <2>3 DEF HandleEvent
    <3>3. Sound("server", msg)
      BY <3>1, <3>2, Oldest, TableOf DEF WInv, QueuesOK
    <3>4. Accepts("client", msg)
      BY <3>1, <3>2, <3>3, AcceptsNext, TableOf
    <3>5. msg.object \in zombies => status' = status
      BY <2>3, <3>1 DEF HandleEvent
    <3>6. msg.object \notin zombies => \E heard \in BOOLEAN : status' = Handled("client", msg, heard)
      BY <2>3, <3>1, <3>4 DEF HandleEvent
    <3> QED
      BY <3>3, <3>4, <3>5, <3>6, HandlesNext, TableOf
  <2>4. CASE ~HandleBind /\ ~HandleRequest /\ ~HandleEvent
    BY <2>4, Marshals
  <2> QED
    BY <2>1, <2>2, <2>3, <2>4
<1> QED
  BY <1>1, <1>2, Invariant, PTL DEF Spec

\* Where can_X() misleads a server, the version that the client has bound does not: a
\* server that asks for that as well sends no event that the client does not know.
THEOREM EventsKnownCorrect ==
    ASSUME "trust_can" \notin Habits
    PROVE  Spec => []EventsKnown
<1>1. WInv => EventsKnown
  <2> SUFFICES ASSUME WInv, NEW msg \in NextMessage("client")
               PROVE  Known("client", msg) /\ msg.message.since <= proxies[msg.object].version
    BY DEF EventsKnown
  <2> USE DEF WInv
  <2>1. Sound("server", msg)
    <3>1. msg = Head(under_way["client"]) /\ under_way["client"] # <<>>
      BY DEF NextMessage
    <3> QED
      BY <3>1, Oldest, TableOf DEF QueuesOK
  <2>2. /\ msg.object \in Objects /\ Exists("client", msg.object)
        /\ msg.message.since <= proxies[msg.object].version
    BY <2>1, Alike, TableOf DEF Sound
  <2>3. /\ msg.message.since \in Nat
        /\ msg.opcode + 1 \in DOMAIN Incoming("client", Table("client")[msg.object].interface)
             <=> msg.message.since <= release["client"]
    BY <2>1, <2>2, Meant, TableOf
  <2>4. /\ proxies[msg.object].version \in Nat /\ release["client"] \in Nat
        /\ proxies[msg.object].version <= release["client"]
    BY <2>2, ProtocolAssumption, TableOf DEF Variables, Entries, ProxiesOK
  <2>5. msg.message.since <= release["client"]
    BY <2>2, <2>3, <2>4
  <2> QED
    BY <2>2, <2>3, <2>5 DEF Known
<1> QED
  BY <1>1, Invariant, PTL
=============================================================================
