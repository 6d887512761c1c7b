--------------------------- MODULE ScannerProofs ---------------------------
(***************************************************************************)
(* Proofs about Scanner, for any command line and any documents: that the  *)
(* flags of a bitfield are sets, the two outputs whole, the command line   *)
(* understood, and the names in the text known where they are used.        *)
(***************************************************************************)
EXTENDS Scanner, SequenceTheorems, WellFoundedInduction, TLAPS
-----------------------------------------------------------------------------
(* Sequences of sequences *)

\* A set of natural numbers has a least element: what is said of every number
\* is proved of the least one for which it is false.
LEMMA Least ==
    ASSUME NEW T \in SUBSET Nat, T # {}
    PROVE  \E n \in T : \A m \in T : n <= m
<1> DEFINE R == OpToRel(<, Nat)
<1>1. \A x, y \in Nat : <<x, y>> \in R <=> x < y
  BY DEF OpToRel
<1>2. IsWellFoundedOn(R, Nat)
  BY NatLessThanWellFounded
<1> HIDE DEF R
<1>3. PICK n \in T : \A m \in T : ~(<<m, n>> \in R)
  BY <1>2, WFMin
<1>4. n \in Nat /\ \A m \in T : m \in Nat /\ ~(m < n)
  BY <1>1, <1>3
<1> QED
  BY <1>4

\* The recursion of FlattenSeq() is a definition.
LEMMA FlattenDefined ==
    ASSUME NEW s, NEW N \in Nat
    PROVE  \E f : f = [k \in 1..N |-> IF k = 1 THEN s[k] ELSE f[k-1] \o s[k]]
<1> DEFINE T == {m \in Nat : ~\E f : f = [k \in 1..m |-> IF k = 1 THEN s[k] ELSE f[k-1] \o s[k]]}
<1> SUFFICES ASSUME T # {} PROVE FALSE
  OBVIOUS
<1>1. PICK m \in T : \A n \in T : m <= n
  <2> HIDE DEF T
  <2>1. T \in SUBSET Nat
    BY DEF T
  <2> QED
    BY <2>1, Least
<1>2. m \in Nat
  OBVIOUS
<1>3. m # 0
  <2> DEFINE g == [k \in 1..0 |-> s[k]]
  <2>1. g = [k \in 1..0 |-> IF k = 1 THEN s[k] ELSE g[k-1] \o s[k]]
    OBVIOUS
  <2> QED
    BY <2>1
<1>4. m - 1 \in Nat /\ m - 1 \notin T
  <2> HIDE DEF T
  <2> QED
    BY <1>1, <1>2, <1>3
<1>5. PICK f : f = [k \in 1..m - 1 |-> IF k = 1 THEN s[k] ELSE f[k-1] \o s[k]]
  BY <1>4
<1> DEFINE g == [k \in 1..m |-> IF k = m THEN IF m = 1 THEN s[m] ELSE f[m-1] \o s[m] ELSE f[k]]
<1>6. g = [k \in 1..m |-> IF k = 1 THEN s[k] ELSE g[k-1] \o s[k]]
  <2> SUFFICES ASSUME NEW k \in 1..m PROVE g[k] = IF k = 1 THEN s[k] ELSE g[k-1] \o s[k]
    OBVIOUS
  <2>1. CASE k = m
    BY <1>3, <2>1
  <2>2. CASE k # m
    <3>1. k \in 1..m - 1 /\ k < m /\ m \in Nat
      BY <2>2
    <3>2. g[k] = f[k] /\ f[k] = IF k = 1 THEN s[k] ELSE f[k-1] \o s[k]
      BY <1>5, <3>1
    <3>3. k # 1 => g[k-1] = f[k-1]
      BY <3>1
    <3> QED
      BY <3>2, <3>3
  <2> QED
    BY <2>1, <2>2
<1> QED
  BY <1>2, <1>6

\* How far FlattenSeq(s) is after each element of s.
Rounds(f, s) ==
    /\ f[0] = <<>>
    /\ \A k \in 1..Len(s) : f[k] = f[k-1] \o s[k]
    /\ f[Len(s)] = FlattenSeq(s)

\* Each round leaves a sequence of the same elements.
LEMMA RoundsTyped ==
    ASSUME NEW S, NEW s \in Seq(Seq(S)), NEW f, f[0] = <<>>,
           \A k \in 1..Len(s) : f[k] = f[k-1] \o s[k]
    PROVE  \A k \in 0..Len(s) : f[k] \in Seq(S)
<1> DEFINE T == {k \in 0..Len(s) : f[k] \notin Seq(S)}
<1> SUFFICES ASSUME T # {} PROVE FALSE
  OBVIOUS
<1>0. Len(s) \in Nat /\ \A k \in 1..Len(s) : s[k] \in Seq(S)
  OBVIOUS
<1>1. PICK m \in T : \A n \in T : m <= n
  <2>1. T \in SUBSET Nat
    BY <1>0
  <2> HIDE DEF T
  <2> QED
    BY <2>1, Least
<1>2. m \in 0..Len(s) /\ f[m] \notin Seq(S)
  OBVIOUS
<1>3. m # 0
  BY <1>2, EmptySeq
<1>4. m - 1 \in 0..Len(s) /\ m \in 1..Len(s) /\ ~(m <= m - 1)
  BY <1>0, <1>2, <1>3
<1>5. f[m - 1] \in Seq(S)
  BY <1>1, <1>4
<1>6. f[m] \in Seq(S)
  <2>1. s[m] \in Seq(S) /\ f[m] = f[m-1] \o s[m]
    BY <1>0, <1>4
  <2> QED
    BY <1>5, <2>1, ConcatProperties
<1> QED
  BY <1>2, <1>6

LEMMA FlattenRounds ==
    ASSUME NEW S, NEW s \in Seq(Seq(S))
    PROVE  \E f \in [0..Len(s) -> Seq(S)] : Rounds(f, s)
<1>0. Len(s) \in Nat /\ \A k \in 1..Len(s) : s[k] \in Seq(S)
  OBVIOUS
<1> DEFINE Body(f) == [k \in 1..Len(s) |-> IF k = 1 THEN s[k] ELSE f[k-1] \o s[k]]
           b == CHOOSE f : f = Body(f)
           f == [k \in 0..Len(s) |-> IF k = 0 THEN <<>> ELSE b[k]]
<1>1. b = Body(b)
  <2>1. \E g : g = Body(g)
    BY <1>0, FlattenDefined
  <2> HIDE DEF Body
  <2> QED
    BY <2>1
<1>2. FlattenSeq(s) = IF Len(s) = 0 THEN s ELSE b[Len(s)]
  BY DEF FlattenSeq
<1> HIDE DEF b
<1>3. f[0] = <<>>
  BY <1>0
<1>4. \A k \in 1..Len(s) : f[k] = f[k-1] \o s[k]
  <2> SUFFICES ASSUME NEW k \in 1..Len(s) PROVE f[k] = f[k-1] \o s[k]
    OBVIOUS
  <2>1. f[k] = b[k] /\ b[k] = (IF k = 1 THEN s[k] ELSE b[k-1] \o s[k])
    <3>1. k \in 0..Len(s) /\ k # 0
      BY <1>0
    <3>2. Body(b)[k] = (IF k = 1 THEN s[k] ELSE b[k-1] \o s[k])
      OBVIOUS
    <3> HIDE DEF Body
    <3> QED
      BY <1>1, <3>1, <3>2
  <2>2. CASE k = 1
    <3>1. f[k-1] = <<>> /\ s[k] \in Seq(S) /\ f[k] = s[k]
      BY <1>0, <1>3, <2>1, <2>2
    <3> HIDE DEF f
    <3> QED
      BY <3>1, ConcatEmptySeq
  <2>3. CASE k # 1
    <3>1. k - 1 \in 0..Len(s) /\ k - 1 # 0
      BY <1>0, <2>3
    <3>2. f[k-1] = b[k-1]
      BY <3>1
    <3> HIDE DEF f
    <3> QED
      BY <2>1, <2>3, <3>2
  <2> QED
    BY <2>2, <2>3
<1>5. f[Len(s)] = FlattenSeq(s)
  <2>1. CASE Len(s) = 0
    BY <1>2, <1>3, <2>1, EmptySeq
  <2>2. CASE Len(s) # 0
    BY <1>0, <1>2, <2>2
  <2> QED
    BY <2>1, <2>2
<1>6. f \in [0..Len(s) -> Seq(S)]
  <2>1. \A k \in 0..Len(s) : f[k] \in Seq(S)
    <3> HIDE DEF f
    <3> QED
      BY <1>3, <1>4, RoundsTyped
  <2> QED
    BY <2>1
<1> HIDE DEF f
<1> QED
  BY <1>3, <1>4, <1>5, <1>6 DEF Rounds

\* What FlattenSeq() makes of sequences is a sequence.
LEMMA FlattenTyped ==
    ASSUME NEW S, NEW s \in Seq(Seq(S))
    PROVE  FlattenSeq(s) \in Seq(S)
<1>1. PICK f \in [0..Len(s) -> Seq(S)] : Rounds(f, s)
  BY FlattenRounds
<1>2. Len(s) \in 0..Len(s)
  OBVIOUS
<1>3. f[Len(s)] \in Seq(S)
  BY <1>1, <1>2
<1> QED
  BY <1>1, <1>3 DEF Rounds
-----------------------------------------------------------------------------
(* What was read *)

AllInterfaces == UNION {ToSet(doc) : doc \in UNION {Documents[f] : f \in DOMAIN Documents}}

\* An interface in memory is one of a document, read without an error.
ReadInterfaces == {Parsed(x, id) : x \in {y \in AllInterfaces : ~Malformed(y)}, id \in Nat}

ReadOK ==
    /\ DOMAIN xml = DOMAIN Documents /\ \A f \in DOMAIN Documents : xml[f] \in Documents[f]
    /\ i \in Nat \ {0} /\ enum_id \in Nat
    /\ interfaces \in Seq(ReadInterfaces)

LEMMA ReadInit == Init => ReadOK
<1> SUFFICES ASSUME Init PROVE ReadOK
  OBVIOUS
<1>1. interfaces \in Seq(ReadInterfaces)
  BY EmptySeq DEF Init
<1> QED
  BY <1>1 DEF Init, ReadOK

\* The interface at hand is one of a document.
LEMMA DocFacts ==
    ASSUME ReadOK, NEW f, i <= Len(Content(f))
    PROVE  Content(f)[i] \in AllInterfaces /\ Len(Content(f)[i].enums) \in Nat
<1>1. f \in DOMAIN xml
  <2> SUFFICES ASSUME Content(f) = <<>> PROVE FALSE
    BY DEF Content
  <2> QED
    BY DEF ReadOK
<1> DEFINE doc == xml[f]
<1>2. Content(f) = doc /\ doc \in Documents[f] /\ f \in DOMAIN Documents
  BY <1>1 DEF Content, ReadOK
<1>3. IsSequence(doc) /\ \A x \in ToSet(doc) : IsSequence(x.enums)
  BY <1>2, DocumentsAssumption
<1> HIDE DEF doc
<1>4. i \in DOMAIN doc
  <2>1. doc \in Seq(ToSet(doc)) /\ i \in Nat \ {0} /\ i <= Len(doc)
    BY <1>2, <1>3 DEF IsSequence, ReadOK
  <2> QED
    BY <2>1
<1>5. doc[i] \in ToSet(doc)
  BY <1>4 DEF ToSet
<1>6. doc[i] \in AllInterfaces
  BY <1>2, <1>5 DEF AllInterfaces
<1>7. Len(doc[i].enums) \in Nat
  <2>1. doc[i].enums \in Seq(ToSet(doc[i].enums))
    BY <1>3, <1>5 DEF IsSequence
  <2> QED
    BY <2>1
<1> QED
  BY <1>2, <1>6, <1>7

LEMMA ReadStep == ReadOK /\ [Next]_vars => ReadOK'
<1> SUFFICES ASSUME ReadOK, [Next]_vars PROVE ReadOK'
  OBVIOUS
<1>1. CASE ReadInterface
  <2> DEFINE doc == Content(extra[c])
             new == Parsed(doc[i], enum_id)
             ok  == i <= Len(doc) /\ ~Malformed(doc[i])
  <2>1. /\ interfaces' = IF ok THEN Append(interfaces, new) ELSE interfaces
        /\ enum_id' = IF ok THEN enum_id + Len(doc[i].enums) ELSE enum_id
        /\ i' = IF i <= Len(doc) THEN i + 1 ELSE 1
        /\ xml' = xml
    BY <1>1 DEF ReadInterface
  <2>2. i <= Len(doc) => doc[i] \in AllInterfaces /\ Len(doc[i].enums) \in Nat
    BY DocFacts
  <2> HIDE DEF doc
  <2>3. ok => new \in ReadInterfaces
    BY <2>2 DEF ReadInterfaces, ReadOK
  <2>4. ok => enum_id + Len(doc[i].enums) \in Nat
    BY <2>2 DEF ReadOK
  <2> HIDE DEF ok, new
  <2>5. interfaces' \in Seq(ReadInterfaces)
    BY <2>1, <2>3, AppendProperties DEF ReadOK
  <2>6. i' \in Nat \ {0} /\ enum_id' \in Nat
    BY <2>1, <2>4 DEF ReadOK
  <2> QED
    BY <2>1, <2>5, <2>6 DEF ReadOK
<1>2. CASE UNCHANGED <<xml, i, interfaces, enum_id>>
  BY <1>2 DEF ReadOK
<1>3. CASE parse_args \/ CheckUsage \/ OpenFiles \/ OpenServerFiles \/ PrintHeader \/ PrintBody
           \/ UNCHANGED vars
  BY <1>2, <1>3 DEF parse_args, CheckUsage, OpenFiles, OpenServerFiles, PrintHeader, PrintBody, vars,
     readVars
<1> QED
  BY <1>1, <1>3 DEF Next
-----------------------------------------------------------------------------
(* Flags *)

LEMMA MaxFacts ==
    ASSUME NEW T \in SUBSET Nat, T # {}, NEW B \in Nat, \A t \in T : t <= B
    PROVE  Max(T) \in T /\ \A t \in T : t <= Max(T)
<1> DEFINE U == {B - t : t \in T}
<1>1. U \in SUBSET Nat /\ U # {}
  <2>1. \A t \in T : B - t \in Nat
    OBVIOUS
  <2> QED
    BY <2>1
<1>2. PICK u \in U : \A n \in U : u <= n
  <2> HIDE DEF U
  <2> QED
    BY <1>1, Least
<1>3. PICK m \in T : u = B - m
  OBVIOUS
<1>4. \A t \in T : m >= t
  <2> SUFFICES ASSUME NEW t \in T PROVE m >= t
    OBVIOUS
  <2>1. B - t \in U /\ t \in Nat /\ m \in Nat
    OBVIOUS
  <2> HIDE DEF U
  <2>2. B - m <= B - t
    BY <1>2, <1>3, <2>1
  <2> QED
    BY <2>1, <2>2
<1>5. Max(T) \in T /\ \A t \in T : Max(T) >= t
  BY <1>4 DEF Max
<1> QED
  BY <1>5

\* A number has as many digits as its highest bit asks for.
LEMMA DigitsFacts ==
    ASSUME NEW v \in SUBSET (0..29), LogOfZero <= 29
    PROVE  Digits(v) \in Nat /\ Digits(v) <= 30 /\ \A b \in v : b < Digits(v)
<1>1. CASE v = {}
  BY <1>1, LogAssumption DEF Digits
<1>2. CASE v # {}
  <2>1. v \in SUBSET Nat /\ \A b \in v : b <= 29
    OBVIOUS
  <2>2. Max(v) \in v /\ \A b \in v : b <= Max(v)
    BY <1>2, <2>1, MaxFacts
  <2>3. Digits(v) = 1 + Max(v)
    BY <1>2 DEF Digits
  <2>4. PICK m \in v : m = Max(v)
    BY <2>2
  <2>5. m \in 0..29 /\ Digits(v) = 1 + m /\ \A b \in v : b <= m /\ b \in Nat
    BY <2>1, <2>2, <2>3, <2>4
  <2> QED
    BY <2>5, LogAssumption
<1> QED
  BY <1>1, <1>2

\* The width of an enumeration is enough for every entry.
LEMMA WidthFacts ==
    ASSUME LogOfZero <= 29, NEW E, \A v \in E : v \in SUBSET (0..29),
           NEW w, w = Max({0} \cup {Digits(v) : v \in E})
    PROVE  w \in Nat /\ \A v \in E : v \subseteq mask(w)
<1> DEFINE T == {0} \cup {Digits(v) : v \in E}
<1>1. T \in SUBSET Nat /\ T # {} /\ \A t \in T : t <= 30
  BY DigitsFacts
<1>2. w = Max(T)
  OBVIOUS
<1>3. \A v \in E : Digits(v) \in T
  OBVIOUS
<1> HIDE DEF T
<1>4. w \in T /\ \A t \in T : t <= w
  BY <1>1, <1>2, MaxFacts
<1>5. ASSUME NEW v \in E, NEW b \in v PROVE b \in 0..w - 1
  <2>1. Digits(v) \in Nat /\ b < Digits(v) /\ b \in Nat
    BY DigitsFacts
  <2>2. Digits(v) <= w /\ w \in Nat
    BY <1>1, <1>3, <1>4
  <2> QED
    BY <2>1, <2>2
<1>6. w \in Nat /\ w <= 30
  BY <1>1, <1>4
<1> QED
  BY <1>5, <1>6 DEF mask

\* Flags within the width are sets.
LEMMA WideIsSetLike ==
    ASSUME NEW w, NEW E, \A v \in E : v \subseteq mask(w)
    PROVE  SetLike(w, E)
<1> SUFFICES ASSUME NEW a \in {UNION s : s \in SUBSET E}, NEW b \in {UNION s : s \in SUBSET E}
             PROVE  /\ Xor(w, a, b) = Or(And(a, Not(w, b)), And(Not(w, a), b))
                    /\ And(a, Not(w, b)) = a \ b
                    /\ Not(w, Not(w, a)) = a
                    /\ Xor(w, Xor(w, a, b), b) = a
  BY DEF SetLike
<1>1. a \subseteq mask(w) /\ b \subseteq mask(w)
  OBVIOUS
<1> QED
  BY <1>1 DEF Xor, Or, And, Not, SymDiff

\* No bitfield is so wide that its mask overflows.
NarrowFlags ==
    /\ LogOfZero <= 29
    /\ \A x \in AllInterfaces : \A e \in ToSet(x.enums) :
          e.bitfield => \A v \in ToSet(e.entries) : v = None \/ v \subseteq 0..29

LEMMA ReadFlags ==
    ASSUME NarrowFlags
    PROVE  ReadOK => FlagsAreSets
<1> SUFFICES ASSUME ReadOK, NEW e \in Bitfields PROVE SetLike(e.width, ToSet(e.entries))
  BY DEF FlagsAreSets
<1>1. PICK x \in ToSet(interfaces) : e \in ToSet(x.enums)
  BY DEF Bitfields
<1>2. x \in ReadInterfaces
  <2>1. \A n \in DOMAIN interfaces : interfaces[n] \in ReadInterfaces
    BY DEF ReadOK
  <2> QED
    BY <1>1, <2>1 DEF ToSet
<1>3. PICK y \in AllInterfaces, id \in Nat : x = Parsed(y, id) /\ ~Malformed(y)
  BY <1>2 DEF ReadInterfaces
<1>4. x.enums = ParsedEnums(y, id)
  BY <1>3 DEF Parsed
<1>5. PICK n \in DOMAIN y.enums : e = ParsedEnums(y, id)[n]
  BY <1>1, <1>4 DEF ToSet, ParsedEnums
<1> DEFINE E == ToSet(y.enums[n].entries)
<1>6. ToSet(e.entries) = E /\ e.width = Max({0} \cup {Digits(v) : v \in E})
  BY <1>5 DEF ParsedEnums
<1>7. \A v \in E : v \in SUBSET (0..29)
  <2>1. None \notin E
    BY <1>3 DEF Malformed
  <2>2. y.enums[n] \in ToSet(y.enums) /\ y.enums[n].bitfield
    BY <1>5 DEF ToSet, Bitfields, ParsedEnums
  <2>3. \A v \in E : v = None \/ v \subseteq 0..29
    BY <1>3, <2>2 DEF NarrowFlags
  <2> QED
    BY <2>1, <2>3
<1> HIDE DEF E
<1> QED
  BY <1>6, <1>7, WidthFacts, WideIsSetLike DEF NarrowFlags

LEMMA ReadHolds == Spec => []ReadOK
BY ReadInit, ReadStep, PTL DEF Spec

\* The flags of a generated bitfield are sets of flags: the widths that main()
\* computes are wide enough for any entries, if these have 30 bits or less.
THEOREM FlagsAreSetsCorrect ==
    ASSUME NarrowFlags
    PROVE  Spec => []FlagsAreSets
BY ReadHolds, ReadFlags, PTL
-----------------------------------------------------------------------------
(* What is printed *)

LEMMA PartFacts ==
    ASSUME NEW w, NEW n
    PROVE  Part(w, n).k = n /\ Part(w, n).what = w
BY DEF Part

\* The parts for the interfaces, one for each of some of them.
LEMMA ForEachFacts ==
    ASSUME ReadOK, NEW what
    PROVE  /\ ForEach(what) \in Seq({Part(what, n) : n \in DOMAIN interfaces})
           /\ ForEachButDisplay(what) \in Seq({Part(what, n) : n \in DOMAIN interfaces})
<1> DEFINE S == {Part(what, n) : n \in DOMAIN interfaces}
           s == ForEach(what)
           Other(p) == interfaces[p.k].name # <<"", "display">>
           t == [n \in DOMAIN s |-> IF Other(s[n]) THEN <<s[n]>> ELSE <<>>]
<1>1. DOMAIN interfaces = 1..Len(interfaces) /\ Len(interfaces) \in Nat
  BY DEF ReadOK
<1>2. DOMAIN s = 1..Len(interfaces) /\ \A n \in DOMAIN s : s[n] \in S
  BY <1>1 DEF ForEach
<1>3. s \in Seq(S)
  <2>1. s = [n \in 1..Len(interfaces) |-> s[n]]
    BY <1>1 DEF ForEach
  <2> HIDE DEF s, S
  <2> QED
    BY <1>1, <1>2, <2>1, IsASeq
<1>4. t \in Seq(Seq(S))
  <2> HIDE DEF Other
  <2>1. \A n \in 1..Len(interfaces) : t[n] = <<s[n]>> \/ t[n] = <<>>
    BY <1>2
  <2>2. t = [n \in 1..Len(interfaces) |-> t[n]]
    BY <1>2
  <2> HIDE DEF s, t, S
  <2>3. \A e \in S : <<e>> \in Seq(S)
    OBVIOUS
  <2>4. \A n \in 1..Len(interfaces) : t[n] \in Seq(S)
    BY <1>2, <2>1, <2>3, EmptySeq
  <2> QED
    BY <1>1, <2>2, <2>4, IsASeq
<1>5. ForEachButDisplay(what) = FlattenSeq(t)
  BY DEF ForEachButDisplay, Chosen
<1> HIDE DEF t, S
<1>6. FlattenSeq(t) \in Seq(S)
  BY <1>4, FlattenTyped
<1> QED
  BY <1>3, <1>5, <1>6 DEF S

\* Some elements of a sequence are elements of it.
LEMMA ChosenParts ==
    ASSUME NEW s, IsSequence(s), NEW P
    PROVE  FlattenSeq([n \in DOMAIN s |-> IF s[n] \in P THEN <<s[n]>> ELSE <<>>]) \in Seq(ToSet(s))
<1> DEFINE S == ToSet(s)
           t == [n \in DOMAIN s |-> IF s[n] \in P THEN <<s[n]>> ELSE <<>>]
<1>1. s \in Seq(S) /\ Len(s) \in Nat /\ DOMAIN s = 1..Len(s)
  BY DEF IsSequence
<1>2. \A n \in 1..Len(s) : t[n] \in Seq(S)
  <2> HIDE DEF S
  <2> QED
    BY <1>1
<1>3. t = [n \in 1..Len(s) |-> t[n]]
  BY <1>1
<1>4. t \in Seq(Seq(S))
  <2> HIDE DEF t, S
  <2> QED
    BY <1>1, <1>2, <1>3, IsASeq
<1> HIDE DEF t, S
<1>5. FlattenSeq(t) \in Seq(S)
  BY <1>4, FlattenTyped
<1> QED
  BY <1>5 DEF t, S
-----------------------------------------------------------------------------
(* The outputs *)

LEMMA TypedSequence ==
    ASSUME NEW S, NEW s \in Seq(S)
    PROVE  IsSequence(s) /\ Len(s) \in Nat
<1>1. \A n \in DOMAIN s : s[n] \in ToSet(s)
  BY DEF ToSet
<1>2. s = [n \in 1..Len(s) |-> s[n]] /\ Len(s) \in Nat /\ DOMAIN s = 1..Len(s)
  OBVIOUS
<1> QED
  BY <1>1, <1>2, IsASeq DEF IsSequence

LEMMA ConcatSequences ==
    ASSUME NEW s, IsSequence(s), NEW t, IsSequence(t)
    PROVE  IsSequence(s \o t) /\ Len(s) \in Nat /\ Len(t) \in Nat /\ Len(s \o t) = Len(s) + Len(t)
<1> DEFINE S == ToSet(s) \cup ToSet(t)
<1>1. s \in Seq(S) /\ t \in Seq(S)
  BY SeqMonotonic DEF IsSequence
<1> HIDE DEF S
<1>2. s \o t \in Seq(S) /\ Len(s \o t) = Len(s) + Len(t)
  BY <1>1, ConcatProperties
<1> QED
  BY <1>1, <1>2, TypedSequence

LEMMA TupleSequences ==
    ASSUME NEW p, NEW q, NEW r, NEW s, NEW t, NEW u
    PROVE  /\ IsSequence(<<>>) /\ IsSequence(<<p>>) /\ Len(<<p>>) = 1
           /\ IsSequence(<<p, q>>) /\ Len(<<p, q>>) = 2
           /\ IsSequence(<<p, q, r, s>>) /\ Len(<<p, q, r, s>>) = 4
           /\ IsSequence(<<p, q, r, s, t>>) /\ Len(<<p, q, r, s, t>>) = 5
           /\ IsSequence(<<p, q, r, s, t, u>>) /\ Len(<<p, q, r, s, t, u>>) = 6
<1> DEFINE S == {p, q, r, s, t, u}
<1>1. <<>> \in Seq(S) /\ <<p>> \in Seq(S) /\ <<p, q>> \in Seq(S) /\ <<p, q, r, s>> \in Seq(S)
      /\ <<p, q, r, s, t>> \in Seq(S) /\ <<p, q, r, s, t, u>> \in Seq(S)
  OBVIOUS
<1> HIDE DEF S
<1>2. \A x \in Seq(S) : IsSequence(x)
  BY TypedSequence
<1> QED
  BY <1>1, <1>2

LEMMA IntroFacts ==
    /\ IsSequence(HeaderIntro) /\ ServerIntro = HeaderIntro \o <<Line("blank")>>
    /\ IsSequence(BodyIntro) /\ IsSequence(ServerBodyIntro)
    /\ server => Len(ServerBodyIntro) <= Len(BodyIntro)
<1>1. IsSequence(HeaderIntro)
  BY TupleSequences DEF HeaderIntro
<1>2. IsSequence(ServerBodyIntro) /\ Len(ServerBodyIntro) = 6
  BY TupleSequences DEF ServerBodyIntro
<1>3. IsSequence(BodyIntro) /\ (server => Len(BodyIntro) = 7)
  <2> DEFINE a == <<include("hpp"), Line("blank"), Line("using"), Line("using detail")>>
             b == IF server THEN <<Line("using server"), Line("using server::detail")>> ELSE <<>>
             d == <<Line("blank")>>
  <2>1. IsSequence(a) /\ Len(a) = 4 /\ IsSequence(b) /\ (server => Len(b) = 2)
        /\ IsSequence(d) /\ Len(d) = 1
    BY TupleSequences
  <2>2. BodyIntro = a \o b \o d
    BY DEF BodyIntro
  <2> HIDE DEF a, b, d
  <2>3. IsSequence(a \o b) /\ Len(a \o b) = Len(a) + Len(b)
    BY <2>1, ConcatSequences
  <2>4. IsSequence((a \o b) \o d) /\ Len((a \o b) \o d) = Len(a \o b) + Len(d)
    BY <2>1, <2>3, ConcatSequences
  <2>5. IsSequence(BodyIntro)
    BY <2>2, <2>4
  <2>6. server => Len(BodyIntro) = 4 + 2 + 1
    BY <2>1, <2>2, <2>3, <2>4
  <2> QED
    BY <2>5, <2>6
<1>4. ASSUME server PROVE Len(ServerBodyIntro) <= Len(BodyIntro)
  <2>1. Len(ServerBodyIntro) = 6 /\ Len(BodyIntro) = 7
    BY <1>2, <1>3, <1>4
  <2>2. 6 <= 7
    OBVIOUS
  <2> QED
    BY <2>1, <2>2
<1> QED
  BY <1>1, <1>2, <1>3, <1>4 DEF ServerIntro

LEMMA PartsTyped ==
    ASSUME ReadOK, NEW what
    PROVE  IsSequence(ForEach(what)) /\ IsSequence(ForEachButDisplay(what))
BY ForEachFacts, TypedSequence

LEMMA ExtraTyped ==
    ASSUME IsSequence(map)
    PROVE  IsSequence(ExtraIncludes)
<1> DEFINE x == Chosen(map, LAMBDA opt : opt.key = "x")
           P == {opt \in ToSet(map) : opt.key = "x"}
<1>1. x \in Seq(ToSet(map))
  <2>1. \A n \in DOMAIN map : map[n] \in ToSet(map)
    BY DEF ToSet
  <2>2. [n \in DOMAIN map |-> IF map[n].key = "x" THEN <<map[n]>> ELSE <<>>]
        = [n \in DOMAIN map |-> IF map[n] \in P THEN <<map[n]>> ELSE <<>>]
    BY <2>1
  <2>3. x = FlattenSeq([n \in DOMAIN map |-> IF map[n] \in P THEN <<map[n]>> ELSE <<>>])
    BY <2>2 DEF Chosen
  <2> HIDE DEF P, x
  <2> QED
    BY <2>3, ChosenParts
<1>2. ExtraIncludes = [n \in DOMAIN x |-> include(x[n].value)]
  BY DEF ExtraIncludes
<1> HIDE DEF x
<1> DEFINE S == {include(x[n].value) : n \in DOMAIN x}
<1>3. DOMAIN x = 1..Len(x) /\ Len(x) \in Nat
  BY <1>1
<1>4. \A n \in 1..Len(x) : include(x[n].value) \in S
  BY <1>3
<1> HIDE DEF S
<1>5. ExtraIncludes \in Seq(S)
  BY <1>2, <1>3, <1>4, IsASeq
<1> QED
  BY <1>5, TypedSequence

LEMMA HeaderTyped ==
    ASSUME ReadOK, IsSequence(map)
    PROVE  IsSequence(HeaderParts) /\ Len(HeaderParts) \in Nat /\ Len(HeaderParts) >= 1
<1> DEFINE a == <<Line("blank")>>
           b == <<Line("namespace")>>
           d == <<Line("end")>>
<1>1. IsSequence(a) /\ IsSequence(b) /\ IsSequence(d) /\ Len(d) = 1
  BY TupleSequences
<1>2. PICK p1 : p1 = ExtraIncludes
  OBVIOUS
<1>3. PICK p2 : p2 = ForEachButDisplay("c_forward")
  OBVIOUS
<1>4. PICK p3 : p3 = ForEachButDisplay("forward")
  OBVIOUS
<1>5. PICK p4 : p4 = ForEach("interface_header")
  OBVIOUS
<1>6. PICK p5 : p5 = ForEachButDisplay("class")
  OBVIOUS
<1>7. IsSequence(p1) /\ IsSequence(p2) /\ IsSequence(p3) /\ IsSequence(p4) /\ IsSequence(p5)
  BY <1>2, <1>3, <1>4, <1>5, <1>6, ExtraTyped, PartsTyped
<1>8. HeaderParts = p1 \o a \o p2 \o a \o b \o p3 \o a \o p4 \o p5 \o d
  BY <1>2, <1>3, <1>4, <1>5, <1>6 DEF HeaderParts
<1> HIDE DEF a, b, d
<1>9. \A s, t : IsSequence(s) /\ IsSequence(t) =>
         IsSequence(s \o t) /\ Len(s) \in Nat /\ Len(s \o t) = Len(s) + Len(t)
  BY ConcatSequences
<1>10. IsSequence(p1 \o a \o p2 \o a \o b)
  BY <1>1, <1>7, <1>9
<1>11. IsSequence(p1 \o a \o p2 \o a \o b \o p3 \o a)
  BY <1>1, <1>7, <1>9, <1>10
<1>12. IsSequence(p1 \o a \o p2 \o a \o b \o p3 \o a \o p4 \o p5)
  BY <1>1, <1>7, <1>9, <1>11
<1> QED
  BY <1>1, <1>8, <1>9, <1>12

\* A stream prints over what another has left behind its position, if that is
\* not longer.
LEMMA PrintsOver ==
    ASSUME NEW pre, IsSequence(pre), NEW mid, IsSequence(mid), NEW new, IsSequence(new),
           Len(mid) <= Len(new)
    PROVE  Overwritten(pre \o mid, Len(pre), new) = pre \o new
<1> DEFINE S == ToSet(pre) \cup ToSet(mid) \cup ToSet(new)
           old == pre \o mid
           len == Len(pre) + Len(new)
<1>1. pre \in Seq(S) /\ mid \in Seq(S) /\ new \in Seq(S)
  BY SeqMonotonic DEF IsSequence
<1> HIDE DEF S
<1>2. /\ Len(pre) \in Nat /\ Len(mid) \in Nat /\ Len(new) \in Nat
      /\ old \in Seq(S) /\ Len(old) = Len(pre) + Len(mid)
      /\ \A n \in 1..Len(pre) : old[n] = pre[n]
  BY <1>1, ConcatProperties, LenProperties
<1>3. Max({Len(old), len}) = len
  <2>1. len \in Nat /\ Len(old) \in Nat /\ Len(old) <= len
    BY <1>2
  <2>2. \A a, b \in Nat : a <= b => Max({a, b}) = b
    BY DEF Max
  <2> HIDE DEF len, old
  <2> QED
    BY <2>1, <2>2
<1> DEFINE F(n) == IF n \in Len(pre) + 1..Len(pre) + Len(new) THEN new[n - Len(pre)]
                   ELSE IF n <= Len(old) THEN old[n] ELSE Line("hole")
<1>4. Overwritten(old, Len(pre), new) = [n \in 1..len |-> F(n)]
  BY <1>3 DEF Overwritten
<1> HIDE DEF old
<1>5. /\ pre \o new \in Seq(S) /\ Len(pre \o new) = len
      /\ \A n \in 1..len : (pre \o new)[n] = IF n <= Len(pre) THEN pre[n] ELSE new[n - Len(pre)]
  BY <1>1, <1>2, ConcatProperties
<1>6. \A n \in 1..len : F(n) = (pre \o new)[n]
  <2> SUFFICES ASSUME NEW n \in 1..len PROVE F(n) = (pre \o new)[n]
    OBVIOUS
  <2>1. CASE n <= Len(pre)
    BY <1>2, <1>5, <2>1
  <2>2. CASE ~(n <= Len(pre))
    BY <1>2, <1>5, <2>2
  <2> QED
    BY <2>1, <2>2
<1> DEFINE result == [n \in 1..len |-> F(n)]
<1>7. pre \o new = [n \in 1..len |-> (pre \o new)[n]]
  <2>1. \A r \in Seq(S) : r = [n \in 1..Len(r) |-> r[n]]
    OBVIOUS
  <2> HIDE DEF len, F
  <2> QED
    BY <1>5, <2>1
<1> HIDE DEF len, F
<1> QED
  BY <1>4, <1>6, <1>7 DEF old
-----------------------------------------------------------------------------
(* No document makes the program throw *)

\* An argument that has an enumeration is an integer.
EnumerationsTyped ==
    \A x \in AllInterfaces : \A m \in ToSet(x.requests) \cup ToSet(x.events) : \A a \in ToSet(m.args) :
       a.enum # None => a.type \in {"int", "uint"}

ArgsTyped(messages) ==
    \A m \in ToSet(messages) : \A a \in ToSet(m.args) : a.enum # None => a.type \in {"int", "uint"}

LEMMA ParsedTyped ==
    ASSUME NEW x, NEW messages, IsSequence(messages),
           \A m \in ToSet(messages) : IsSequence(m.args),
           ArgsTyped(messages)
    PROVE  /\ ArgsTyped(ParsedMessages(x, messages))
           /\ IsSequence(ParsedMessages(x, messages))
           /\ \A m \in ToSet(ParsedMessages(x, messages)) : IsSequence(m.args) /\ "args" \in DOMAIN m
<1> DEFINE parsed == ParsedMessages(x, messages)
           A(m) == [a \in DOMAIN messages[m].args |-> ParsedArg(x, messages[m].args[a])]
<1>1. parsed = [m \in DOMAIN messages |-> [name |-> messages[m].name, args |-> A(m)]]
  BY DEF ParsedMessages
<1>2. DOMAIN messages = 1..Len(messages) /\ Len(messages) \in Nat
  BY DEF IsSequence
<1>3. ASSUME NEW m \in DOMAIN messages
      PROVE  /\ IsSequence(A(m))
             /\ \A a \in ToSet(A(m)) : a.enum # None => a.type \in {"int", "uint"}
  <2> DEFINE args == messages[m].args
  <2>1. messages[m] \in ToSet(messages)
    BY DEF ToSet
  <2>2. IsSequence(args)
    BY <2>1
  <2>3. DOMAIN args = 1..Len(args) /\ Len(args) \in Nat
    BY <2>2 DEF IsSequence
  <2> DEFINE S == {ParsedArg(x, args[a]) : a \in DOMAIN args}
  <2>4. A(m) \in Seq(S)
    <3>1. \A a \in 1..Len(args) : ParsedArg(x, args[a]) \in S
      BY <2>3
    <3>2. A(m) = [a \in 1..Len(args) |-> ParsedArg(x, args[a])]
      BY <2>3
    <3> HIDE DEF S, args, A
    <3> QED
      BY <2>3, <3>1, <3>2, IsASeq
  <2>5. IsSequence(A(m))
    <3> HIDE DEF S, A
    <3> QED
      BY <2>4, TypedSequence
  <2>6. ASSUME NEW b \in ToSet(A(m)), b.enum # None PROVE b.type \in {"int", "uint"}
    <3>1. PICK a \in DOMAIN args : b = ParsedArg(x, args[a])
      BY DEF ToSet
    <3>2. args[a].enum # None /\ b.type = args[a].type
      BY <2>6, <3>1 DEF ParsedArg
    <3>3. args[a] \in ToSet(args)
      BY DEF ToSet
    <3> QED
      BY <2>1, <3>2, <3>3 DEF ArgsTyped
  <2> QED
    BY <2>5, <2>6
<1> HIDE DEF A
<1>4. \A p \in ToSet(parsed) : "args" \in DOMAIN p /\ \E m \in DOMAIN messages : p.args = A(m)
  BY <1>1 DEF ToSet
<1>5. IsSequence(parsed)
  <2> DEFINE S == {[name |-> messages[m].name, args |-> A(m)] : m \in DOMAIN messages}
             F(m) == [name |-> messages[m].name, args |-> A(m)]
  <2>1. parsed = [m \in 1..Len(messages) |-> F(m)]
    BY <1>1, <1>2
  <2>2. \A m \in 1..Len(messages) : F(m) \in S
    BY <1>2
  <2> HIDE DEF S, F, parsed
  <2>3. parsed \in Seq(S)
    BY <1>2, <2>1, <2>2, IsASeq
  <2> QED
    BY <2>3, TypedSequence
<1> HIDE DEF parsed
<1>6. ArgsTyped(parsed) /\ \A p \in ToSet(parsed) : IsSequence(p.args) /\ "args" \in DOMAIN p
  BY <1>3, <1>4 DEF ArgsTyped
<1> QED
  BY <1>5, <1>6 DEF parsed

\* What is sent or received has no other arguments than what was read.
LEMMA SentArgs ==
    ASSUME NEW x, IsSequence(x.requests), IsSequence(x.events),
           \A m \in ToSet(x.events) : IsSequence(m.args) /\ "args" \in DOMAIN m
    PROVE  \A m \in ToSet(Sent(x)) \cup ToSet(Received(x)) : \A a \in ToSet(m.args) :
              \E q \in ToSet(x.requests) \cup ToSet(x.events) : a \in ToSet(q.args)
<1>1. ToSet(Received(x)) \subseteq ToSet(x.requests) \cup ToSet(x.events)
  BY DEF Received
<1>2. CASE ~server
  <2> DEFINE P == {m \in ToSet(x.requests) : m.name # "destroy"}
  <2>1. \A n \in DOMAIN x.requests : x.requests[n] \in ToSet(x.requests)
    BY DEF ToSet
  <2>2. [n \in DOMAIN x.requests |-> IF x.requests[n].name # "destroy" THEN <<x.requests[n]>> ELSE <<>>]
        = [n \in DOMAIN x.requests |-> IF x.requests[n] \in P THEN <<x.requests[n]>> ELSE <<>>]
    BY <2>1
  <2>3. Sent(x) = FlattenSeq([n \in DOMAIN x.requests |->
                                IF x.requests[n] \in P THEN <<x.requests[n]>> ELSE <<>>])
    BY <1>2, <2>2 DEF Sent, Chosen
  <2> HIDE DEF P
  <2>4. Sent(x) \in Seq(ToSet(x.requests))
    BY <2>3, ChosenParts
  <2>5. \A m \in ToSet(Sent(x)) : m \in ToSet(x.requests)
    BY <2>4 DEF ToSet
  <2> QED
    BY <1>1, <2>5
<1>3. CASE server
  <2>1. Sent(x) = [m \in DOMAIN x.events |-> NotNew(x.events[m])]
    BY <1>3 DEF Sent
  <2>2. ASSUME NEW m \in DOMAIN x.events
        PROVE  ToSet(NotNew(x.events[m]).args) \subseteq ToSet(x.events[m].args)
    <3> DEFINE args == x.events[m].args
               P == {b \in ToSet(args) : b.type # "new_id"}
    <3>1. x.events[m] \in ToSet(x.events)
      BY DEF ToSet
    <3>2. \A n \in DOMAIN args : args[n] \in ToSet(args)
      BY DEF ToSet
    <3>3. NotNew(x.events[m]).args
          = FlattenSeq([n \in DOMAIN args |-> IF args[n].type # "new_id" THEN <<args[n]>> ELSE <<>>])
      BY <3>1 DEF NotNew, Chosen
    <3>4. [n \in DOMAIN args |-> IF args[n].type # "new_id" THEN <<args[n]>> ELSE <<>>]
          = [n \in DOMAIN args |-> IF args[n] \in P THEN <<args[n]>> ELSE <<>>]
      BY <3>2
    <3>5. IsSequence(args)
      BY <3>1
    <3> HIDE DEF args, P
    <3>6. FlattenSeq([n \in DOMAIN args |-> IF args[n] \in P THEN <<args[n]>> ELSE <<>>]) \in Seq(ToSet(args))
      BY <3>5, ChosenParts
    <3>7. NotNew(x.events[m]).args \in Seq(ToSet(args))
      BY <3>3, <3>4, <3>6
    <3> QED
      BY <3>7 DEF ToSet, args
  <2>3. \A m \in ToSet(Sent(x)) : \E n \in DOMAIN x.events : m = NotNew(x.events[n])
    BY <2>1 DEF ToSet
  <2>4. \A n \in DOMAIN x.events : x.events[n] \in ToSet(x.events)
    BY DEF ToSet
  <2>5. \A m \in ToSet(Sent(x)) : \E q \in ToSet(x.events) : ToSet(m.args) \subseteq ToSet(q.args)
    BY <2>2, <2>3, <2>4
  <2> QED
    BY <1>1, <2>5
<1> QED
  BY <1>2, <1>3

\* An interface that was read has messages with typed arguments.
LEMMA ReadTyped ==
    ASSUME ReadOK, EnumerationsTyped, NEW n \in DOMAIN interfaces, NEW x, x = interfaces[n]
    PROVE  /\ ArgsTyped(x.requests) /\ IsSequence(x.requests)
           /\ ArgsTyped(x.events) /\ IsSequence(x.events)
           /\ \A m \in ToSet(x.events) : IsSequence(m.args) /\ "args" \in DOMAIN m
<1>1. interfaces[n] \in ReadInterfaces
  BY DEF ReadOK
<1>2. PICK y \in AllInterfaces, id \in Nat : interfaces[n] = Parsed(y, id)
  BY <1>1 DEF ReadInterfaces
<1>3. x.requests = ParsedMessages(y, y.requests) /\ x.events = ParsedMessages(y, y.events)
  BY <1>2 DEF Parsed
<1>4. /\ IsSequence(y.requests) /\ IsSequence(y.events)
      /\ \A m \in ToSet(y.requests) \cup ToSet(y.events) : IsSequence(m.args)
  BY DocumentsAssumption DEF AllInterfaces
<1>5. ArgsTyped(y.requests) /\ ArgsTyped(y.events)
  BY DEF EnumerationsTyped, ArgsTyped
<1> QED
  BY <1>3, <1>4, <1>5, ParsedTyped

LEMMA NobodyThrows ==
    ASSUME ReadOK, EnumerationsTyped, NEW n \in DOMAIN interfaces
    PROVE  ~Throws(interfaces[n])
<1>1. PICK x : x = interfaces[n]
  OBVIOUS
<1>2. /\ ArgsTyped(x.requests) /\ IsSequence(x.requests)
      /\ ArgsTyped(x.events) /\ IsSequence(x.events)
      /\ \A m \in ToSet(x.events) : IsSequence(m.args) /\ "args" \in DOMAIN m
  BY <1>1, ReadTyped
<1>3. \A m \in ToSet(Sent(x)) \cup ToSet(Received(x)) : \A a \in ToSet(m.args) :
         a.enum # None => a.type \in {"int", "uint"}
  BY <1>2, SentArgs DEF ArgsTyped
<1>4. ~Throws(x)
  BY <1>3 DEF Throws
<1> QED
  BY <1>1, <1>4

LEMMA AllPrinted ==
    ASSUME ReadOK, EnumerationsTyped
    PROVE  Printable = Complete
<1>1. Complete \in Seq({Part("class_body", n) : n \in DOMAIN interfaces})
  BY ForEachFacts DEF Complete
<1>2. \A n \in DOMAIN Complete : ~Throws(interfaces[Complete[n].k])
  <2> SUFFICES ASSUME NEW n \in DOMAIN Complete PROVE ~Throws(interfaces[Complete[n].k])
    OBVIOUS
  <2>1. PICK j \in DOMAIN interfaces : Complete[n] = Part("class_body", j)
    BY <1>1
  <2>2. Complete[n].k = j
    BY <2>1, PartFacts
  <2> QED
    BY <2>2, NobodyThrows
<1>3. {n \in DOMAIN Complete : Throws(interfaces[Complete[n].k])} = {}
  BY <1>2
<1> QED
  BY <1>3 DEF Printable
-----------------------------------------------------------------------------
(* The outputs are whole *)

BodyParts == BodyIntro \o ForEach("interface_body") \o Complete

\* What is in the files, and where the streams that will print are.
FilesOK ==
    /\ IsSequence(map)
    /\ DOMAIN files = {"hpp", "cpp"} /\ DOMAIN at = {"hpp", "cpp", "server_hpp", "server_cpp"}
    /\ phase \in {"args", "read", "usage", "server", "header", "body", "done", "aborted"}
    /\ phase \in {"args", "read", "usage", "aborted"} =>
          files.hpp = <<Line("old")>> /\ files.cpp = <<Line("old")>>
    /\ phase \in {"server", "header"} =>
          /\ at.hpp = Len(HeaderIntro)
          /\ \E mid \in {<<>>, <<Line("blank")>>} : files.hpp = HeaderIntro \o mid
    /\ phase \in {"server", "header", "body"} =>
          at.cpp = 0 /\ (files.cpp = <<>> \/ (server /\ files.cpp = ServerBodyIntro))
    /\ phase \in {"body", "done"} => files.hpp = HeaderIntro \o HeaderParts
    /\ phase = "done" => files.cpp = BodyParts
    /\ phase = "server" => server

LEMMA FilesInit == Init => FilesOK
<1> SUFFICES ASSUME Init PROVE FilesOK
  OBVIOUS
<1>1. IsSequence(map)
  BY TupleSequences DEF Init
<1>2. phase = "args" /\ files = [hpp |-> <<Line("old")>>, cpp |-> <<Line("old")>>]
      /\ at = [hpp |-> None, cpp |-> None, server_hpp |-> None, server_cpp |-> None]
  BY DEF Init
<1> QED
  BY <1>1, <1>2 DEF FilesOK

\* From the first opened file on, what is to be printed is settled.
LEMMA SettledFacts ==
    ASSUME UNCHANGED <<map, interfaces>>
    PROVE  /\ UNCHANGED <<server, HeaderIntro, ServerIntro, BodyIntro, ServerBodyIntro>>
           /\ UNCHANGED <<HeaderParts, BodyParts>>
<1>1. server' = server
  BY DEF server
<1>2. UNCHANGED <<HeaderIntro, ServerIntro, BodyIntro, ServerBodyIntro>>
  BY <1>1 DEF HeaderIntro, ServerIntro, BodyIntro, ServerBodyIntro, Library
<1>3. ASSUME NEW what PROVE ForEach(what)' = ForEach(what) /\ ForEachButDisplay(what)' = ForEachButDisplay(what)
  BY DEF ForEach, ForEachButDisplay, Chosen
<1>4. ExtraIncludes' = ExtraIncludes
  BY DEF ExtraIncludes, Chosen
<1>5. UNCHANGED <<ForEachButDisplay("c_forward"), ForEachButDisplay("forward"),
                  ForEach("interface_header"), ForEachButDisplay("class")>>
  BY <1>3
<1>6. UNCHANGED <<ForEach("interface_body"), ForEachButDisplay("class_body")>>
  BY <1>3
<1>7. HeaderParts' = HeaderParts
  BY <1>4, <1>5 DEF HeaderParts
<1>8. BodyParts' = BodyParts
  BY <1>2, <1>6 DEF BodyParts, Complete
<1> QED
  BY <1>1, <1>2, <1>7, <1>8

LEMMA SettledFiles ==
    ASSUME FilesOK, UNCHANGED <<map, interfaces, files, at>>,
           \/ phase' = phase
           \/ phase \in {"args", "read"} /\ phase' \in {"args", "read", "usage", "aborted"}
    PROVE  FilesOK'
<1>1. UNCHANGED <<server, HeaderIntro, ServerBodyIntro, HeaderParts, BodyParts>>
  BY SettledFacts
<1>2. IsSequence(map)'
  BY DEF FilesOK, IsSequence
<1> QED
  BY <1>1, <1>2 DEF FilesOK

\* A stream that prints over the end of its file.
LEMMA PrintsFacts ==
    ASSUME NEW s \in {"hpp", "cpp"}, NEW text, Prints(s, text),
           DOMAIN files = {"hpp", "cpp"}, DOMAIN at = {"hpp", "cpp", "server_hpp", "server_cpp"},
           NEW pre, NEW mid, files[s] = pre \o mid, at[s] = Len(pre),
           IsSequence(pre), IsSequence(mid), IsSequence(text), Len(mid) <= Len(text)
    PROVE  /\ files'[s] = pre \o text /\ \A f \in {"hpp", "cpp"} : f # s => files'[f] = files[f]
           /\ DOMAIN files' = {"hpp", "cpp"} /\ DOMAIN at' = {"hpp", "cpp", "server_hpp", "server_cpp"}
           /\ \A t \in {"hpp", "cpp"} : t # s => at'[t] = at[t]
<1>1. FileOf(s) = s
  BY DEF FileOf
<1>2. files' = [files EXCEPT ![s] = Overwritten(files[s], at[s], text)]
      /\ at' = [at EXCEPT ![s] = at[s] + Len(text)]
  BY <1>1 DEF Prints
<1>3. Overwritten(files[s], at[s], text) = pre \o text
  BY PrintsOver
<1> QED
  BY <1>2, <1>3

LEMMA FilesStep ==
    ASSUME EnumerationsTyped, ReadOK, FilesOK, [Next]_vars
    PROVE  FilesOK'
<1>1. CASE parse_args
  <2>1. phase = "args" /\ phase' = phase /\ UNCHANGED <<interfaces, files, at>>
    BY <1>1 DEF parse_args, readVars
  <2>2. IsSequence(map')
    <3>1. map' = map \/ \E e : map' = Append(map, e)
      BY <1>1 DEF parse_args
    <3>2. ASSUME NEW e PROVE IsSequence(Append(map, e))
      <4> DEFINE S == ToSet(map) \cup {e}
      <4>1. map \in Seq(S) /\ e \in S
        BY SeqMonotonic DEF FilesOK, IsSequence
      <4> HIDE DEF S
      <4>2. Append(map, e) \in Seq(S)
        BY <4>1
      <4> QED
        BY <4>2, TypedSequence
    <3> QED
      BY <3>1, <3>2 DEF FilesOK
  <2> QED
    BY <2>1, <2>2 DEF FilesOK, IsSequence
<1>2. CASE CheckUsage
  BY <1>2, SettledFiles DEF CheckUsage, argVars, readVars
<1>3. CASE ReadInterface
  <2>1. phase = "read" /\ phase' \in {"read", "aborted"} /\ UNCHANGED <<map, files, at>>
    BY <1>3 DEF ReadInterface, argVars
  <2>2. IsSequence(map)'
    BY <2>1 DEF FilesOK, IsSequence
  <2> QED
    BY <2>1, <2>2 DEF FilesOK
<1>4. CASE OpenFiles
  <2>1. /\ files' = [files EXCEPT !.hpp = HeaderIntro, !.cpp = <<>>]
        /\ at' = [at EXCEPT !.hpp = Len(HeaderIntro), !.cpp = Len(<<>>)]
        /\ phase' = (IF server THEN "server" ELSE "header") /\ UNCHANGED <<map, interfaces>>
    BY <1>4 DEF OpenFiles, Opens, argVars, readVars
  <2>2. UNCHANGED <<server, HeaderIntro>>
    BY <2>1, SettledFacts
  <2>3. IsSequence(map)'
    BY <2>1 DEF FilesOK, IsSequence
  <2>4. files'.hpp = HeaderIntro \o <<>> /\ files'.cpp = <<>>
    <3>1. HeaderIntro \o <<>> = HeaderIntro
      BY IntroFacts, ConcatEmptySeq DEF IsSequence
    <3> QED
      BY <2>1, <3>1 DEF FilesOK
  <2>5. at'.hpp = Len(HeaderIntro) /\ at'.cpp = 0
    BY <2>1 DEF FilesOK
  <2>6. DOMAIN files' = {"hpp", "cpp"} /\ DOMAIN at' = {"hpp", "cpp", "server_hpp", "server_cpp"}
    BY <2>1 DEF FilesOK
  <2> QED
    BY <2>1, <2>2, <2>3, <2>4, <2>5, <2>6 DEF FilesOK
<1>5. CASE OpenServerFiles
  <2>1. /\ files' = [files EXCEPT !.hpp = ServerIntro, !.cpp = ServerBodyIntro]
        /\ at' = [at EXCEPT !.server_hpp = Len(ServerIntro), !.server_cpp = Len(ServerBodyIntro)]
        /\ phase = "server" /\ phase' = "header" /\ UNCHANGED <<map, interfaces>>
    BY <1>5 DEF OpenServerFiles, Opens, argVars, readVars
  <2>2. UNCHANGED <<server, HeaderIntro, ServerBodyIntro>>
    BY <2>1, SettledFacts
  <2>3. IsSequence(map)'
    BY <2>1 DEF FilesOK, IsSequence
  <2>4. files'.hpp = HeaderIntro \o <<Line("blank")>> /\ files'.cpp = ServerBodyIntro
    BY <2>1, IntroFacts DEF FilesOK
  <2>5. at'.hpp = Len(HeaderIntro) /\ at'.cpp = 0 /\ server
    BY <2>1 DEF FilesOK
  <2>6. DOMAIN files' = {"hpp", "cpp"} /\ DOMAIN at' = {"hpp", "cpp", "server_hpp", "server_cpp"}
    BY <2>1 DEF FilesOK
  <2> QED
    BY <2>1, <2>2, <2>3, <2>4, <2>5, <2>6 DEF FilesOK
<1>6. CASE PrintHeader
  <2>1. phase = "header" /\ Prints("hpp", HeaderParts) /\ phase' = "body" /\ UNCHANGED <<map, interfaces>>
    BY <1>6 DEF PrintHeader, argVars, readVars
  <2>2. UNCHANGED <<server, HeaderIntro, HeaderParts, ServerBodyIntro>>
    BY <2>1, SettledFacts
  <2>3. IsSequence(map) /\ IsSequence(map)'
    BY <2>1 DEF FilesOK, IsSequence
  <2>4. PICK mid \in {<<>>, <<Line("blank")>>} : files.hpp = HeaderIntro \o mid
    BY <2>1 DEF FilesOK
  <2>5. IsSequence(mid) /\ Len(mid) <= Len(HeaderParts) /\ IsSequence(HeaderParts)
    <3>1. Len(mid) = 0 \/ Len(mid) = 1
      BY TupleSequences, EmptySeq
    <3>2. IsSequence(mid)
      BY TupleSequences
    <3>3. PICK n \in Nat : n = Len(HeaderParts) /\ n >= 1
      BY <2>3, HeaderTyped
    <3> QED
      BY <2>3, <3>1, <3>2, <3>3, HeaderTyped
  <2>6. at.hpp = Len(HeaderIntro) /\ at.cpp = 0
        /\ (files.cpp = <<>> \/ (server /\ files.cpp = ServerBodyIntro))
        /\ DOMAIN files = {"hpp", "cpp"} /\ DOMAIN at = {"hpp", "cpp", "server_hpp", "server_cpp"}
    BY <2>1 DEF FilesOK
  <2>7. /\ files'.hpp = HeaderIntro \o HeaderParts /\ files'.cpp = files.cpp /\ at'.cpp = at.cpp
        /\ DOMAIN files' = {"hpp", "cpp"} /\ DOMAIN at' = {"hpp", "cpp", "server_hpp", "server_cpp"}
    BY <2>1, <2>4, <2>5, <2>6, IntroFacts, PrintsFacts
  <2> QED
    BY <2>1, <2>2, <2>3, <2>6, <2>7 DEF FilesOK
<1>7. CASE PrintBody
  <2>1. phase = "body" /\ Prints("cpp", BodyParts) /\ phase' = "done" /\ UNCHANGED <<map, interfaces>>
    BY <1>7, AllPrinted DEF PrintBody, BodyParts, argVars, readVars
  <2>2. UNCHANGED <<server, HeaderIntro, HeaderParts, BodyParts>>
    BY <2>1, SettledFacts
  <2>3. IsSequence(map)'
    BY <2>1 DEF FilesOK, IsSequence
  <2>4. PICK mid : mid = files.cpp
    OBVIOUS
  <2>5. PICK text : text = BodyParts
    OBVIOUS
  <2>6. PICK rest : rest = ForEach("interface_body") \o Complete
    OBVIOUS
  <2>7. IsSequence(text) /\ IsSequence(mid) /\ Len(mid) <= Len(text)
    <3>1. PICK p, q : p = ForEach("interface_body") /\ q = Complete
      OBVIOUS
    <3>2. IsSequence(p) /\ IsSequence(q) /\ IsSequence(BodyIntro)
      BY <3>1, PartsTyped, IntroFacts DEF Complete
    <3>3. text = (BodyIntro \o p) \o q
      BY <2>5, <3>1 DEF BodyParts
    <3>4. /\ IsSequence(BodyIntro \o p) /\ Len(BodyIntro \o p) = Len(BodyIntro) + Len(p)
          /\ Len(BodyIntro) \in Nat /\ Len(p) \in Nat
      BY <3>2, ConcatSequences
    <3>5. IsSequence(text) /\ Len(text) = Len(BodyIntro \o p) + Len(q) /\ Len(q) \in Nat
      BY <3>2, <3>3, <3>4, ConcatSequences
    <3>6. Len(BodyIntro) <= Len(text) /\ Len(text) \in Nat
      BY <3>4, <3>5
    <3>7. CASE mid = <<>>
      <4>1. IsSequence(mid) /\ Len(mid) = 0
        BY <3>7, TupleSequences
      <4> QED
        BY <3>5, <3>6, <4>1
    <3>8. CASE server /\ mid = ServerBodyIntro
      <4>1. IsSequence(mid) /\ Len(mid) <= Len(BodyIntro)
        BY <3>8, IntroFacts
      <4>2. Len(mid) \in Nat
        BY <4>1 DEF IsSequence
      <4> QED
        BY <3>4, <3>5, <3>6, <4>1, <4>2
    <3>9. mid = <<>> \/ (server /\ mid = ServerBodyIntro)
      BY <2>1, <2>4 DEF FilesOK
    <3> QED
      BY <3>5, <3>7, <3>8, <3>9
  <2>8. /\ at.cpp = Len(<<>>) /\ mid = <<>> \o mid /\ IsSequence(<<>>) /\ <<>> \o text = text
        /\ DOMAIN files = {"hpp", "cpp"} /\ DOMAIN at = {"hpp", "cpp", "server_hpp", "server_cpp"}
        /\ files.hpp = HeaderIntro \o HeaderParts
    <3>1. IsSequence(<<>>) /\ Len(<<>>) = 0
      BY TupleSequences
    <3>2. <<>> \o mid = mid /\ <<>> \o text = text
      BY <2>7, ConcatEmptySeq DEF IsSequence
    <3> QED
      BY <2>1, <3>1, <3>2 DEF FilesOK
  <2>9. /\ files'.cpp = BodyParts /\ files'.hpp = files.hpp
        /\ DOMAIN files' = {"hpp", "cpp"} /\ DOMAIN at' = {"hpp", "cpp", "server_hpp", "server_cpp"}
    BY <2>1, <2>4, <2>5, <2>7, <2>8, PrintsFacts
  <2> QED
    BY <2>1, <2>2, <2>3, <2>8, <2>9 DEF FilesOK
<1>8. CASE UNCHANGED vars
  BY <1>8, SettledFiles DEF vars, argVars, readVars
<1> QED
  BY <1>1, <1>2, <1>3, <1>4, <1>5, <1>6, <1>7, <1>8 DEF Next

LEMMA FilesHold ==
    ASSUME EnumerationsTyped
    PROVE  Spec => [](ReadOK /\ FilesOK)
<1>1. Init => ReadOK /\ FilesOK
  BY ReadInit, FilesInit
<1>2. ReadOK /\ FilesOK /\ [Next]_vars => (ReadOK /\ FilesOK)'
  BY ReadStep, FilesStep
<1> QED
  BY <1>1, <1>2, PTL DEF Spec

\* When the program is done both files are whole, whatever the second pair of
\* streams has printed into them; when it stops early it has touched neither,
\* if every argument with an enumeration is an integer.
THEOREM OutputsWholeCorrect ==
    ASSUME EnumerationsTyped
    PROVE  Spec => []OutputsWhole
<1>1. FilesOK => OutputsWhole
  BY DEF FilesOK, OutputsWhole, BodyParts
<1> QED
  BY <1>1, FilesHold, PTL
-----------------------------------------------------------------------------
(* The command line *)

\* What FlattenSeq() has put together stays as it is.
Grows(f, N) ==
    \A k \in 0..N : \A j \in k..N :
       Len(f[k]) <= Len(f[j]) /\ \A p \in 1..Len(f[k]) : f[j][p] = f[k][p]

LEMMA RoundsGrow ==
    ASSUME NEW S, NEW s \in Seq(Seq(S)), NEW f, Rounds(f, s), \A n \in 0..Len(s) : f[n] \in Seq(S)
    PROVE  Grows(f, Len(s))
<1> SUFFICES ASSUME NEW k \in 0..Len(s), NEW j \in k..Len(s)
             PROVE  Len(f[k]) <= Len(f[j]) /\ \A p \in 1..Len(f[k]) : f[j][p] = f[k][p]
  BY DEF Grows
<1> DEFINE Same(m) == Len(f[k]) <= Len(f[m]) /\ \A p \in 1..Len(f[k]) : f[m][p] = f[k][p]
           T == {m \in k..Len(s) : ~Same(m)}
<1>0. Len(s) \in Nat /\ k \in Nat /\ j \in Nat
  OBVIOUS
<1> SUFFICES ASSUME T # {} PROVE FALSE
  OBVIOUS
<1>1. PICK m \in T : \A n \in T : m <= n
  <2>1. T \in SUBSET Nat
    BY <1>0
  <2> HIDE DEF T
  <2> QED
    BY <2>1, Least
<1>2. m \in k..Len(s) /\ ~Same(m)
  OBVIOUS
<1>3. m # k
  <2>1. Len(f[k]) \in Nat
    BY <1>0
  <2> QED
    BY <1>2, <2>1
<1>4. m \in 1..Len(s) /\ m - 1 \in k..Len(s) /\ m - 1 \in 0..Len(s) /\ ~(m <= m - 1)
  BY <1>0, <1>2, <1>3
<1>5. Same(m - 1)
  <2>1. m - 1 \notin T
    <3> HIDE DEF T
    <3> QED
      BY <1>1, <1>4
  <2> HIDE DEF Same
  <2> QED
    BY <1>4, <2>1
<1>6. f[m] = f[m-1] \o s[m]
  BY <1>4 DEF Rounds
<1>7. PICK x, y, z : x = f[k] /\ y = f[m-1] /\ z = s[m] /\ x \in Seq(S) /\ y \in Seq(S) /\ z \in Seq(S)
  <2>1. f[k] \in Seq(S) /\ f[m-1] \in Seq(S)
    BY <1>4
  <2>2. s[m] \in Seq(S)
    BY <1>4
  <2> QED
    BY <2>1, <2>2
<1>8. Len(x) <= Len(y) /\ \A p \in 1..Len(x) : y[p] = x[p]
  BY <1>5, <1>7
<1>9. /\ Len(y \o z) = Len(y) + Len(z) /\ Len(x) \in Nat /\ Len(y) \in Nat /\ Len(z) \in Nat
      /\ \A p \in 1..Len(y) : (y \o z)[p] = y[p]
  BY ConcatProperties
<1>10. Len(x) <= Len(y \o z) /\ \A p \in 1..Len(x) : (y \o z)[p] = x[p]
  BY <1>8, <1>9
<1> QED
  BY <1>2, <1>6, <1>7, <1>10

\* The elements of s[k + 1] follow what is there after k rounds.
Adds(f, s, k) ==
    /\ Len(f[k + 1]) = Len(f[k]) + Len(s[k + 1]) /\ Len(f[k]) \in Nat /\ Len(s[k + 1]) \in Nat
    /\ Len(f[k + 1]) <= Len(FlattenSeq(s))
    /\ \A p \in 1..Len(s[k + 1]) : FlattenSeq(s)[Len(f[k]) + p] = s[k + 1][p]

LEMMA RoundsElements ==
    ASSUME NEW S, NEW s \in Seq(Seq(S)), NEW f, Rounds(f, s), \A n \in 0..Len(s) : f[n] \in Seq(S)
    PROVE  \A k \in 0..Len(s) - 1 : Adds(f, s, k)
<1> SUFFICES ASSUME NEW k \in 0..Len(s) - 1 PROVE Adds(f, s, k)
  OBVIOUS
<1>0. Len(s) \in Nat /\ k \in Nat /\ k + 1 \in 1..Len(s) /\ (k + 1) - 1 = k /\ k \in 0..Len(s)
      /\ k + 1 \in 0..Len(s) /\ Len(s) \in k + 1..Len(s)
  OBVIOUS
<1>1. f[k + 1] = f[k] \o s[k + 1] /\ FlattenSeq(s) = f[Len(s)]
  BY <1>0 DEF Rounds
<1>2. Len(f[k + 1]) <= Len(f[Len(s)]) /\ \A p \in 1..Len(f[k + 1]) : f[Len(s)][p] = f[k + 1][p]
  <2>1. Grows(f, Len(s))
    BY RoundsGrow
  <2> QED
    BY <1>0, <2>1 DEF Grows
<1>3. PICK x, y, z, all :
         /\ x = f[k] /\ y = s[k + 1] /\ z = f[k + 1] /\ all = f[Len(s)]
         /\ x \in Seq(S) /\ y \in Seq(S) /\ z \in Seq(S) /\ all \in Seq(S)
  <2>1. \A n \in 0..Len(s) : f[n] \in Seq(S)
    OBVIOUS
  <2>2. k \in 0..Len(s) /\ k + 1 \in 0..Len(s) /\ Len(s) \in 0..Len(s)
    BY <1>0
  <2>3. s[k + 1] \in Seq(S)
    BY <1>0
  <2> QED
    BY <2>1, <2>2, <2>3
<1>4. z = x \o y /\ Len(z) <= Len(all) /\ \A p \in 1..Len(z) : all[p] = z[p]
  BY <1>1, <1>2, <1>3
<1>5. /\ Len(z) = Len(x) + Len(y) /\ Len(x) \in Nat /\ Len(y) \in Nat
      /\ \A p \in 1..Len(y) : z[Len(x) + p] = y[p]
  BY <1>4, ConcatProperties
<1>6. \A p \in 1..Len(y) : Len(x) + p \in 1..Len(z) /\ all[Len(x) + p] = y[p]
  <2> SUFFICES ASSUME NEW p \in 1..Len(y)
               PROVE  Len(x) + p \in 1..Len(z) /\ all[Len(x) + p] = y[p]
    OBVIOUS
  <2>1. Len(x) + p \in 1..Len(z)
    BY <1>5
  <2>2. z[Len(x) + p] = y[p]
    BY <1>5
  <2> QED
    BY <1>4, <2>1, <2>2
<1> QED
  BY <1>1, <1>3, <1>4, <1>5, <1>6 DEF Adds

\* What a command line's items are: tokens, and options or files.
TokenParts(cmd)  == [n \in DOMAIN cmd |-> Tokens(cmd[n])]
OptionParts(cmd) == [n \in DOMAIN cmd |-> IF cmd[n].kind = "option" THEN <<cmd[n]>> ELSE <<>>]
FileParts(cmd)   == [n \in DOMAIN cmd |-> IF cmd[n].kind = "file" THEN <<cmd[n]>> ELSE <<>>]
TokensOf(cmd)    ==
    UNION {{cmd[n].value, Word(cmd[n].value), Dash(cmd[n].key)} : n \in DOMAIN cmd}

Pairs(options) == [n \in DOMAIN options |-> [key |-> options[n].key, value |-> options[n].value]]
Names(fs)      == [n \in DOMAIN fs |-> fs[n].value]

LEMMA ItemFacts ==
    ASSUME NEW cmd \in Commands, NEW n \in DOMAIN cmd
    PROVE  \/ cmd[n].kind = "option" /\ cmd[n].key # "-" /\ cmd[n] # EndOfOptions
           \/ /\ cmd[n].kind = "file" /\ cmd[n] # EndOfOptions
              /\ cmd[n].value.dash => \E m \in 1..n - 1 : cmd[m] = EndOfOptions
           \/ cmd[n] = EndOfOptions /\ cmd[n].kind = "end" /\ cmd[n].key = "-" /\ cmd[n].value = None
<1>1. EndOfOptions.kind = "end" /\ EndOfOptions.key = "-" /\ EndOfOptions.value = None
  BY DEF EndOfOptions
<1>2. \/ cmd[n].kind = "option" /\ cmd[n].key # "-"
      \/ cmd[n].kind = "file" /\ (cmd[n].value.dash => \E m \in 1..n - 1 : cmd[m] = EndOfOptions)
      \/ cmd[n] = EndOfOptions
  BY CommandsAssumption
<1> QED
  BY <1>1, <1>2

\* The tokens of an item: one or two.
LEMMA TokenFacts ==
    ASSUME NEW item
    PROVE  /\ item.kind = "file" => Tokens(item) = <<item.value>>
           /\ item.kind # "file" /\ item.value = None => Tokens(item) = <<Dash(item.key)>>
           /\ item.kind # "file" /\ item.value # None => Tokens(item) = <<Dash(item.key), Word(item.value)>>
<1>1. \A x : <<>> \o <<x>> = <<x>> /\ <<x>> \o <<>> = <<x>>
  OBVIOUS
<1>2. ASSUME NEW x, NEW y PROVE <<x>> \o <<y>> = <<x, y>>
  <2> DEFINE S == {x, y}
  <2>1. <<x>> \in Seq(S) /\ y \in S
    OBVIOUS
  <2>2. Append(<<x>>, y) = <<x>> \o <<y>>
    BY <2>1, AppendIsConcat
  <2>3. Append(<<x>>, y) = <<x, y>>
    <3>1. PICK s, t : s = Append(<<x>>, y) /\ t = <<x, y>>
      OBVIOUS
    <3>2. s \in Seq(S) /\ t \in Seq(S) /\ Len(s) = 2 /\ Len(t) = 2
          /\ s[1] = x /\ s[2] = y /\ t[1] = x /\ t[2] = y
      BY <3>1
    <3> HIDE DEF S
    <3>3. s = t
      BY <3>2, SeqEqual
    <3> QED
      BY <3>1, <3>3
  <2> QED
    BY <2>2, <2>3
<1> QED
  BY <1>1, <1>2 DEF Tokens

LEMMA PartsOfCommand ==
    ASSUME NEW cmd \in Commands
    PROVE  /\ Len(cmd) \in Nat /\ DOMAIN cmd = 1..Len(cmd)
           /\ TokenParts(cmd) \in Seq(Seq(TokensOf(cmd))) /\ Len(TokenParts(cmd)) = Len(cmd)
           /\ OptionParts(cmd) \in Seq(Seq(ToSet(cmd))) /\ Len(OptionParts(cmd)) = Len(cmd)
           /\ FileParts(cmd) \in Seq(Seq(ToSet(cmd))) /\ Len(FileParts(cmd)) = Len(cmd)
<1>1. IsSequence(cmd)
  BY CommandsAssumption
<1>2. Len(cmd) \in Nat /\ DOMAIN cmd = 1..Len(cmd)
  BY <1>1 DEF IsSequence
<1>3. PICK S : S = Seq(TokensOf(cmd))
  OBVIOUS
<1>4. PICK R : R = Seq(ToSet(cmd))
  OBVIOUS
<1>5. \A n \in 1..Len(cmd) : Tokens(cmd[n]) \in S
  <2> SUFFICES ASSUME NEW n \in 1..Len(cmd) PROVE Tokens(cmd[n]) \in S
    OBVIOUS
  <2> DEFINE D == Dash(cmd[n].key)
             W == Word(cmd[n].value)
             V == cmd[n].value
  <2>1. D \in TokensOf(cmd) /\ W \in TokensOf(cmd) /\ V \in TokensOf(cmd)
    BY <1>2 DEF TokensOf
  <2>2. Tokens(cmd[n]) \in {<<D>>, <<V>>, <<D, W>>}
    BY <1>2, TokenFacts
  <2> HIDE DEF D, W, V
  <2>3. \A x, y \in TokensOf(cmd) : <<x>> \in Seq(TokensOf(cmd)) /\ <<x, y>> \in Seq(TokensOf(cmd))
    OBVIOUS
  <2> QED
    BY <1>3, <2>1, <2>2, <2>3
<1>6. \A n \in 1..Len(cmd) : <<cmd[n]>> \in R /\ <<>> \in R
  <2>1. \A n \in 1..Len(cmd) : cmd[n] \in ToSet(cmd)
    BY <1>2 DEF ToSet
  <2>2. \A x \in ToSet(cmd) : <<x>> \in Seq(ToSet(cmd))
    OBVIOUS
  <2> QED
    BY <1>4, <2>1, <2>2, EmptySeq
<1> DEFINE F(n) == Tokens(cmd[n])
           G(n) == IF cmd[n].kind = "option" THEN <<cmd[n]>> ELSE <<>>
           H(n) == IF cmd[n].kind = "file" THEN <<cmd[n]>> ELSE <<>>
<1>7. TokenParts(cmd) = [n \in 1..Len(cmd) |-> F(n)]
      /\ OptionParts(cmd) = [n \in 1..Len(cmd) |-> G(n)] /\ FileParts(cmd) = [n \in 1..Len(cmd) |-> H(n)]
  BY <1>2 DEF TokenParts, OptionParts, FileParts
<1>8. \A n \in 1..Len(cmd) : F(n) \in S /\ G(n) \in R /\ H(n) \in R
  BY <1>5, <1>6
<1> HIDE DEF F, G, H
<1>9. TokenParts(cmd) \in Seq(S) /\ OptionParts(cmd) \in Seq(R) /\ FileParts(cmd) \in Seq(R)
  BY <1>2, <1>7, <1>8, IsASeq
<1>10. Len(TokenParts(cmd)) = Len(cmd) /\ Len(OptionParts(cmd)) = Len(cmd) /\ Len(FileParts(cmd)) = Len(cmd)
  <2>1. \A s \in Seq(S) : DOMAIN s = 1..Len(cmd) => Len(s) = Len(cmd)
    BY <1>2, LenProperties
  <2>2. \A s \in Seq(R) : DOMAIN s = 1..Len(cmd) => Len(s) = Len(cmd)
    BY <1>2, LenProperties
  <2> QED
    BY <1>7, <1>9, <2>1, <2>2
<1> QED
  BY <1>2, <1>3, <1>4, <1>9, <1>10

\* How far a command line is read: k items.
ReadTo(k, f, g, h) ==
    /\ k \in 0..Len(command)
    /\ Rounds(f, TokenParts(command)) /\ \A n \in 0..Len(command) : f[n] \in Seq(TokensOf(command))
    /\ Rounds(g, OptionParts(command)) /\ \A n \in 0..Len(command) : g[n] \in Seq(ToSet(command))
    /\ Rounds(h, FileParts(command)) /\ \A n \in 0..Len(command) : h[n] \in Seq(ToSet(command))
    /\ c = Len(f[k]) + 1 /\ map = Pairs(g[k]) /\ extra = Names(h[k])
    /\ opts_end <=> \E n \in 1..k : command[n] = EndOfOptions

Understood ==
    map = Pairs(OptionsOf(command)) /\ extra = Names(FilesOf(command))

ArgsOK ==
    /\ command \in Commands
    /\ AsUsage(command) =>
          IF phase = "args" THEN \E k, f, g, h : ReadTo(k, f, g, h) ELSE Understood

LEMMA ArgsInit == Init => ArgsOK
<1> SUFFICES ASSUME Init PROVE ArgsOK
  OBVIOUS
<1>1. /\ command \in Commands /\ phase = "args" /\ c = 1 /\ opts_end = FALSE
      /\ map = <<>> /\ extra = <<>>
  BY DEF Init
<1>2. /\ Len(command) \in Nat /\ Len(TokenParts(command)) = Len(command)
      /\ Len(OptionParts(command)) = Len(command) /\ Len(FileParts(command)) = Len(command)
  BY <1>1, PartsOfCommand
<1>3. PICK f \in [0..Len(command) -> Seq(TokensOf(command))] : Rounds(f, TokenParts(command))
  BY <1>1, <1>2, PartsOfCommand, FlattenRounds
<1>4. PICK g \in [0..Len(command) -> Seq(ToSet(command))] : Rounds(g, OptionParts(command))
  BY <1>1, <1>2, PartsOfCommand, FlattenRounds
<1>5. PICK h \in [0..Len(command) -> Seq(ToSet(command))] : Rounds(h, FileParts(command))
  BY <1>1, <1>2, PartsOfCommand, FlattenRounds
<1>6. f[0] = <<>> /\ g[0] = <<>> /\ h[0] = <<>> /\ Len(<<>>) = 0
  BY <1>3, <1>4, <1>5, EmptySeq DEF Rounds
<1>7. Pairs(<<>>) = <<>> /\ Names(<<>>) = <<>>
  BY DEF Pairs, Names
<1>8. ReadTo(0, f, g, h)
  <2>1. 0 \in 0..Len(command)
    BY <1>2
  <2>2. opts_end <=> \E n \in 1..0 : command[n] = EndOfOptions
    BY <1>1
  <2>3. c = Len(f[0]) + 1 /\ map = Pairs(g[0]) /\ extra = Names(h[0])
    BY <1>1, <1>6, <1>7
  <2> QED
    BY <1>3, <1>4, <1>5, <2>1, <2>2, <2>3 DEF ReadTo
<1> QED
  BY <1>1, <1>8 DEF ArgsOK

\* What has been added to the options and to the files.
LEMMA PairsAppend ==
    ASSUME NEW S, NEW s \in Seq(S), NEW e \in S
    PROVE  /\ Pairs(s \o <<e>>) = Append(Pairs(s), [key |-> e.key, value |-> e.value])
           /\ Names(s \o <<e>>) = Append(Names(s), e.value)
<1>1. s \o <<e>> = Append(s, e)
  BY AppendIsConcat
<1> DEFINE t == Append(s, e)
<1>2. /\ Len(s) \in Nat /\ DOMAIN s = 1..Len(s) /\ DOMAIN t = 1..Len(s) + 1
      /\ t[Len(s) + 1] = e /\ \A n \in 1..Len(s) : t[n] = s[n]
  BY AppendProperties, LenProperties
<1> HIDE DEF t
<1>3. PICK P : P = {[key |-> t[n].key, value |-> t[n].value] : n \in 1..Len(s) + 1}
  OBVIOUS
<1>4. PICK N : N = {t[n].value : n \in 1..Len(s) + 1}
  OBVIOUS
<1> DEFINE F(n) == [key |-> t[n].key, value |-> t[n].value]
           G(n) == t[n].value
<1>5. \A n \in 1..Len(s) + 1 : F(n) \in P /\ G(n) \in N
  BY <1>3, <1>4
<1>6. Pairs(s) = [n \in 1..Len(s) |-> F(n)] /\ Pairs(t) = [n \in 1..Len(s) + 1 |-> F(n)]
  BY <1>2 DEF Pairs
<1>7. Names(s) = [n \in 1..Len(s) |-> G(n)] /\ Names(t) = [n \in 1..Len(s) + 1 |-> G(n)]
  BY <1>2 DEF Names
<1>8. F(Len(s) + 1) = [key |-> e.key, value |-> e.value] /\ G(Len(s) + 1) = e.value
  BY <1>2
<1> HIDE DEF F, G
<1>9. PICK m \in Nat : m = Len(s)
  BY <1>2
<1>10. [n \in 1..m |-> F(n)] \in Seq(P) /\ [n \in 1..m |-> G(n)] \in Seq(N)
  BY <1>5, <1>9, IsASeq
<1>11. Append([n \in 1..m |-> F(n)], F(m + 1)) = [n \in 1..m + 1 |-> F(n)]
  BY <1>5, <1>9, <1>10
<1>12. Append([n \in 1..m |-> G(n)], G(m + 1)) = [n \in 1..m + 1 |-> G(n)]
  BY <1>5, <1>9, <1>10
<1> QED
  BY <1>1, <1>6, <1>7, <1>8, <1>9, <1>11, <1>12 DEF t

\* Where the tokens of an item are.
LEMMA ItemTokens ==
    ASSUME command \in Commands, NEW f, Rounds(f, TokenParts(command)),
           \A n \in 0..Len(command) : f[n] \in Seq(TokensOf(command)),
           NEW k \in 0..Len(command) - 1
    PROVE  /\ Len(f[k]) \in Nat /\ Len(Tokens(command[k + 1])) \in Nat
           /\ Len(f[k + 1]) = Len(f[k]) + Len(Tokens(command[k + 1]))
           /\ Len(argv) \in Nat /\ Len(f[k + 1]) <= Len(argv)
           /\ \A p \in 1..Len(Tokens(command[k + 1])) : argv[Len(f[k]) + p] = Tokens(command[k + 1])[p]
<1>1. argv = FlattenSeq(TokenParts(command))
  BY DEF argv, Argv, TokenParts, Tokens
<1>2. PICK s, S : s = TokenParts(command) /\ S = TokensOf(command)
  OBVIOUS
<1>3. s \in Seq(Seq(S)) /\ Len(s) = Len(command) /\ Len(command) \in Nat
      /\ DOMAIN command = 1..Len(command)
  BY <1>2, PartsOfCommand
<1>4. k + 1 \in DOMAIN command /\ s[k + 1] = Tokens(command[k + 1])
  BY <1>2, <1>3 DEF TokenParts
<1>5. k \in 0..Len(s) - 1 /\ Rounds(f, s) /\ \A n \in 0..Len(s) : f[n] \in Seq(S)
  BY <1>2, <1>3
<1>6. Adds(f, s, k) /\ FlattenSeq(s) \in Seq(S)
  BY <1>3, <1>5, RoundsElements, FlattenTyped
<1>7. PICK all : all = argv
  OBVIOUS
<1>8. all \in Seq(S) /\ all = FlattenSeq(s)
  BY <1>1, <1>2, <1>6, <1>7
<1>9. Len(all) \in Nat
  BY <1>8
<1> QED
  BY <1>4, <1>6, <1>7, <1>8, <1>9 DEF Adds

\* The first token tells options, files and "--" apart.
LEMMA FirstToken ==
    ASSUME command \in Commands, NEW f, Rounds(f, TokenParts(command)),
           \A n \in 0..Len(command) : f[n] \in Seq(TokensOf(command)),
           NEW k \in 0..Len(command) - 1
    PROVE  /\ Len(f[k]) \in Nat /\ Len(argv) \in Nat /\ Len(f[k]) + 1 <= Len(argv)
           /\ command[k + 1].kind = "file" =>
                 argv[Len(f[k]) + 1] = command[k + 1].value /\ Len(f[k + 1]) = Len(f[k]) + 1
           /\ command[k + 1].kind # "file" => argv[Len(f[k]) + 1] = Dash(command[k + 1].key)
           /\ command[k + 1].kind # "file" /\ command[k + 1].value = None => Len(f[k + 1]) = Len(f[k]) + 1
           /\ command[k + 1].kind # "file" /\ command[k + 1].value # None =>
                 /\ Len(f[k + 1]) = Len(f[k]) + 2 /\ Len(f[k]) + 2 <= Len(argv)
                 /\ argv[Len(f[k]) + 2] = Word(command[k + 1].value)
<1>1. PICK item, toks : item = command[k + 1] /\ toks = Tokens(item)
  OBVIOUS
<1>2. /\ Len(f[k]) \in Nat /\ Len(toks) \in Nat /\ Len(argv) \in Nat
      /\ Len(f[k + 1]) = Len(f[k]) + Len(toks) /\ Len(f[k + 1]) <= Len(argv)
      /\ \A p \in 1..Len(toks) : argv[Len(f[k]) + p] = toks[p]
  BY <1>1, ItemTokens
<1>3. \A x, y : Len(<<x>>) = 1 /\ Len(<<x, y>>) = 2 /\ <<x>>[1] = x /\ <<x, y>>[1] = x /\ <<x, y>>[2] = y
  OBVIOUS
<1>4. CASE item.kind = "file"
  <2>1. Len(toks) = 1 /\ toks[1] = item.value
    BY <1>1, <1>3, <1>4, TokenFacts
  <2>2. argv[Len(f[k]) + 1] = toks[1]
    BY <1>2, <2>1
  <2> QED
    BY <1>1, <1>2, <1>4, <2>1, <2>2
<1>5. CASE item.kind # "file" /\ item.value = None
  <2>1. Len(toks) = 1 /\ toks[1] = Dash(item.key)
    BY <1>1, <1>3, <1>5, TokenFacts
  <2>2. argv[Len(f[k]) + 1] = toks[1]
    BY <1>2, <2>1
  <2> QED
    BY <1>1, <1>2, <1>5, <2>1, <2>2
<1>6. CASE item.kind # "file" /\ item.value # None
  <2>1. Len(toks) = 2 /\ toks[1] = Dash(item.key) /\ toks[2] = Word(item.value)
    BY <1>1, <1>3, <1>6, TokenFacts
  <2>2. argv[Len(f[k]) + 1] = toks[1] /\ argv[Len(f[k]) + 2] = toks[2]
    BY <1>2, <2>1
  <2> QED
    BY <1>1, <1>2, <1>6, <2>1, <2>2
<1> QED
  BY <1>4, <1>5, <1>6

\* Whether a value follows an option.
LEMMA ValueFollows ==
    ASSUME command \in Commands, AsUsage(command), NEW f, Rounds(f, TokenParts(command)),
           \A n \in 0..Len(command) : f[n] \in Seq(TokensOf(command)),
           NEW k \in 0..Len(command) - 1, command[k + 1].kind = "option", c = Len(f[k]) + 1
    PROVE  /\ HasValue(c) <=> command[k + 1].value # None
           /\ HasValue(c) => argv[c + 1].text = command[k + 1].value
<1>1. Len(command) \in Nat /\ DOMAIN command = 1..Len(command)
  BY PartsOfCommand
<1>2. PICK item : item = command[k + 1] /\ item.kind # "file"
  OBVIOUS
<1>3. Len(f[k]) \in Nat /\ Len(argv) \in Nat
  BY FirstToken
<1>4. CASE item.value # None
  <2>1. Len(f[k]) + 2 <= Len(argv) /\ argv[Len(f[k]) + 2] = Word(item.value)
    BY <1>2, <1>4, FirstToken
  <2>2. c + 1 = Len(f[k]) + 2
    BY <1>3
  <2>3. argv[c + 1].dash = FALSE /\ argv[c + 1].text = item.value
    BY <2>1, <2>2 DEF Word
  <2> QED
    BY <1>2, <1>4, <2>1, <2>2, <2>3 DEF HasValue
<1>5. CASE item.value = None
  <2>1. Len(f[k + 1]) = Len(f[k]) + 1
    BY <1>2, <1>5, FirstToken
  <2>2. CASE k + 1 = Len(command)
    <3>1. Len(argv) = Len(f[k + 1])
      <4>1. argv = FlattenSeq(TokenParts(command))
        BY DEF argv, Argv, TokenParts, Tokens
      <4>2. Len(TokenParts(command)) = k + 1
        BY <2>2, PartsOfCommand
      <4> QED
        BY <4>1, <4>2 DEF Rounds
    <3>2. ~(c + 1 <= Len(argv))
      BY <1>3, <2>1, <3>1
    <3> QED
      BY <1>2, <1>5, <3>2 DEF HasValue
  <2>3. CASE k + 1 # Len(command)
    <3>1. PICK j : j = k + 1 /\ j \in 0..Len(command) - 1 /\ j \in 1..Len(command) - 1
      <4>1. PICK m \in Nat : m = Len(command)
        BY <1>1
      <4>2. k \in 0..m - 1 /\ k + 1 # m
        BY <2>3, <4>1
      <4>3. k + 1 \in 0..m - 1 /\ k + 1 \in 1..m - 1
        BY <4>2
      <4> QED
        BY <4>1, <4>3
    <3>2. command[j + 1].kind # "file"
      BY <1>2, <1>5, <3>1 DEF AsUsage
    <3>3. argv[Len(f[j]) + 1] = Dash(command[j + 1].key)
      BY <3>1, <3>2, FirstToken
    <3>4. c + 1 = Len(f[j]) + 1
      BY <1>3, <2>1, <3>1
    <3>5. argv[c + 1].dash = TRUE
      BY <3>3, <3>4 DEF Dash
    <3> QED
      BY <1>2, <1>5, <3>5 DEF HasValue
  <2> QED
    BY <2>2, <2>3
<1> QED
  BY <1>4, <1>5

\* What a round of parse_args() does with the next item.
LEMMA RoundReads ==
    ASSUME command \in Commands, AsUsage(command), NEW k, NEW f, NEW g, NEW h, ReadTo(k, f, g, h),
           parse_args
    PROVE  ReadTo(k + 1, f, g, h)'
<1>1. /\ Len(command) \in Nat /\ DOMAIN command = 1..Len(command)
      /\ Len(TokenParts(command)) = Len(command) /\ Len(OptionParts(command)) = Len(command)
      /\ Len(FileParts(command)) = Len(command)
  BY PartsOfCommand
<1>2. /\ k \in 0..Len(command) /\ c = Len(f[k]) + 1 /\ map = Pairs(g[k]) /\ extra = Names(h[k])
      /\ Rounds(f, TokenParts(command)) /\ \A n \in 0..Len(command) : f[n] \in Seq(TokensOf(command))
      /\ Rounds(g, OptionParts(command)) /\ \A n \in 0..Len(command) : g[n] \in Seq(ToSet(command))
      /\ Rounds(h, FileParts(command)) /\ \A n \in 0..Len(command) : h[n] \in Seq(ToSet(command))
      /\ opts_end <=> \E n \in 1..k : command[n] = EndOfOptions
  BY DEF ReadTo
<1>3. k \in 0..Len(command) - 1
  <2>1. k # Len(command)
    <3>1. argv = FlattenSeq(TokenParts(command))
      BY DEF argv, Argv, TokenParts, Tokens
    <3>2. k = Len(command) => argv = f[k]
      BY <1>1, <1>2, <3>1 DEF Rounds
    <3>3. Len(f[k]) \in Nat
      BY <1>2
    <3>4. c <= Len(argv)
      BY DEF parse_args
    <3> QED
      BY <1>2, <3>2, <3>3, <3>4
  <2>2. k \in 0..Len(command) /\ Len(command) \in Nat
    BY <1>1, <1>2
  <2> QED
    BY <2>1, <2>2
<1>4. PICK item : item = command[k + 1]
  OBVIOUS
<1>5. k \in Nat /\ k + 1 \in 1..Len(command) /\ (k + 1) - 1 = k /\ k + 1 \in DOMAIN command
      /\ k + 1 \in 0..Len(command)
  BY <1>1, <1>3
<1>6. g[k + 1] = g[k] \o OptionParts(command)[k + 1] /\ h[k + 1] = h[k] \o FileParts(command)[k + 1]
  BY <1>1, <1>2, <1>5 DEF Rounds
<1>7. /\ OptionParts(command)[k + 1] = IF item.kind = "option" THEN <<item>> ELSE <<>>
      /\ FileParts(command)[k + 1] = IF item.kind = "file" THEN <<item>> ELSE <<>>
  BY <1>4, <1>5 DEF OptionParts, FileParts
<1>8. item \in ToSet(command) /\ g[k] \in Seq(ToSet(command)) /\ h[k] \in Seq(ToSet(command))
  BY <1>2, <1>4, <1>5 DEF ToSet
<1>9. /\ g[k + 1] = IF item.kind = "option" THEN g[k] \o <<item>> ELSE g[k]
      /\ h[k + 1] = IF item.kind = "file" THEN h[k] \o <<item>> ELSE h[k]
  BY <1>6, <1>7, <1>8, ConcatEmptySeq
<1>10. PICK str : str = argv[c]
  OBVIOUS
<1>11. /\ item.kind = "file" => str = item.value
       /\ item.kind # "file" => str = Dash(item.key)
       /\ Len(f[k]) \in Nat
  BY <1>2, <1>3, <1>4, <1>10, FirstToken
<1>12. \/ item.kind = "option" /\ item.key # "-" /\ item # EndOfOptions
       \/ /\ item.kind = "file" /\ item # EndOfOptions
          /\ item.value.dash => \E m \in 1..k : command[m] = EndOfOptions
       \/ item = EndOfOptions /\ item.kind = "end" /\ item.key = "-" /\ item.value = None
  BY <1>4, <1>5, ItemFacts
<1>13. opts_end => item.kind = "file"
  <2> SUFFICES ASSUME opts_end PROVE item.kind = "file"
    OBVIOUS
  <2>1. PICK n \in 1..k : command[n] = EndOfOptions
    BY <1>2
  <2>2. n \in DOMAIN command /\ n < k + 1
    BY <1>5, <1>1
  <2> QED
    BY <1>4, <1>5, <2>1, <2>2, CommandsAssumption
<1> DEFINE isFile == opts_end \/ ~str.dash
           isEnd  == ~isFile /\ str = Dash("-")
<1>14. /\ extra' = IF isFile THEN Append(extra, str) ELSE extra
       /\ opts_end' = (opts_end \/ isEnd)
       /\ map' = IF isFile \/ isEnd THEN map
                 ELSE Append(map, [key |-> str.text,
                                   value |-> IF HasValue(c) THEN argv[c + 1].text ELSE None])
       /\ c' = c + (IF isFile \/ isEnd THEN 1 ELSE Skipped(c))
       /\ command' = command
  BY <1>10 DEF parse_args
<1>15. isFile <=> item.kind = "file"
  <2>1. item.kind = "file" => ~str.dash \/ opts_end
    BY <1>2, <1>11, <1>12
  <2>2. item.kind # "file" => str.dash = TRUE
    BY <1>11 DEF Dash
  <2> QED
    BY <1>13, <2>1, <2>2
<1>16. isEnd <=> item = EndOfOptions
  <2>1. \A a, b : Dash(a) = Dash(b) => a = b
    <3> SUFFICES ASSUME NEW a, NEW b, Dash(a) = Dash(b) PROVE a = b
      OBVIOUS
    <3>1. Dash(a).text = a /\ Dash(b).text = b
      BY DEF Dash
    <3> QED
      BY <3>1
  <2>2. isEnd <=> item.kind # "file" /\ str = Dash("-")
    BY <1>15
  <2> HIDE DEF isEnd, isFile
  <2>3. item.kind = "option" => str # Dash("-")
    BY <1>11, <1>12, <2>1
  <2>4. item = EndOfOptions => item.kind # "file" /\ str = Dash("-")
    BY <1>11, <1>12
  <2> QED
    BY <1>12, <2>2, <2>3, <2>4
<1> HIDE DEF isFile, isEnd
<1>17. opts_end' <=> \E n \in 1..k + 1 : command[n] = EndOfOptions
  <2>1. \A n \in 1..k + 1 : n \in 1..k \/ n = k + 1
    BY <1>5
  <2>2. \A n \in 1..k : n \in 1..k + 1
    BY <1>5
  <2>3. k + 1 \in 1..k + 1
    BY <1>5
  <2> QED
    BY <1>2, <1>4, <1>14, <1>16, <2>1, <2>2, <2>3
<1>18. map' = Pairs(g[k + 1]) /\ extra' = Names(h[k + 1]) /\ c' = Len(f[k + 1]) + 1
  <2>1. CASE item.kind = "file"
    <3>1. map' = map /\ extra' = Append(extra, item.value) /\ c' = c + 1
      <4>1. str = item.value
        BY <1>11, <2>1
      <4> QED
        BY <1>14, <1>15, <2>1, <4>1
    <3>2. Len(f[k + 1]) = Len(f[k]) + 1
      BY <1>2, <1>3, <1>4, <2>1, FirstToken
    <3>3. Names(h[k + 1]) = Append(Names(h[k]), item.value)
      BY <1>8, <1>9, <2>1, PairsAppend
    <3> QED
      BY <1>2, <1>9, <1>11, <2>1, <3>1, <3>2, <3>3
  <2>2. CASE item = EndOfOptions
    <3>1. map' = map /\ extra' = extra /\ c' = c + 1
      BY <1>12, <1>14, <1>15, <1>16, <2>2
    <3>2. Len(f[k + 1]) = Len(f[k]) + 1
      BY <1>2, <1>3, <1>4, <1>12, <2>2, FirstToken
    <3> QED
      BY <1>2, <1>9, <1>11, <1>12, <2>2, <3>1, <3>2
  <2>3. CASE item.kind = "option" /\ item # EndOfOptions
    <3>1. /\ HasValue(c) <=> item.value # None
          /\ HasValue(c) => argv[c + 1].text = item.value
      BY <1>2, <1>3, <1>4, <2>3, ValueFollows
    <3>2. str.text = item.key
      BY <1>11, <2>3 DEF Dash
    <3>3. map' = Append(map, [key |-> item.key, value |-> item.value]) /\ extra' = extra
      BY <1>14, <1>15, <1>16, <2>3, <3>1, <3>2
    <3>4. Pairs(g[k + 1]) = Append(Pairs(g[k]), [key |-> item.key, value |-> item.value])
      BY <1>8, <1>9, <2>3, PairsAppend
    <3>5. Len(f[k + 1]) = Len(f[k]) + (IF item.value = None THEN 1 ELSE 2)
      BY <1>2, <1>3, <1>4, <2>3, FirstToken
    <3>6. c' = c + (IF item.value = None THEN 1 ELSE 2)
      BY <1>14, <1>15, <1>16, <2>3, <3>1 DEF Skipped
    <3>7. g[k + 1] = g[k] \o <<item>> /\ h[k + 1] = h[k]
      BY <1>9, <2>3
    <3>8. map' = Pairs(g[k + 1])
      BY <1>2, <3>3, <3>4, <3>7
    <3>9. extra' = Names(h[k + 1])
      BY <1>2, <3>3, <3>7
    <3>10. c' = Len(f[k + 1]) + 1
      <4>1. PICK d, m : d = (IF item.value = None THEN 1 ELSE 2) /\ m = Len(f[k])
        OBVIOUS
      <4>2. c = m + 1 /\ m \in Nat /\ d \in Nat /\ Len(f[k + 1]) = m + d /\ c' = c + d
        BY <1>2, <1>11, <3>5, <3>6, <4>1
      <4> QED
        BY <4>2
    <3> QED
      BY <3>8, <3>9, <3>10
  <2>4. item.kind = "file" \/ item = EndOfOptions \/ (item.kind = "option" /\ item # EndOfOptions)
    BY <1>12
  <2> QED
    BY <2>1, <2>2, <2>3, <2>4
<1>19. /\ TokenParts(command)' = TokenParts(command) /\ TokensOf(command)' = TokensOf(command)
       /\ OptionParts(command)' = OptionParts(command) /\ FileParts(command)' = FileParts(command)
       /\ ToSet(command)' = ToSet(command) /\ Len(command)' = Len(command)
  BY <1>14 DEF TokenParts, OptionParts, FileParts, TokensOf, Tokens, ToSet
<1>20. /\ Rounds(f, TokenParts(command))' /\ Rounds(g, OptionParts(command))'
       /\ Rounds(h, FileParts(command))'
  BY <1>2, <1>19 DEF Rounds
<1>21. /\ \A n \in 0..Len(command') : f[n] \in Seq(TokensOf(command'))
       /\ \A n \in 0..Len(command') : g[n] \in Seq(ToSet(command'))
       /\ \A n \in 0..Len(command') : h[n] \in Seq(ToSet(command'))
       /\ k + 1 \in 0..Len(command')
  BY <1>2, <1>5, <1>14
<1>22. opts_end' <=> \E n \in 1..k + 1 : command'[n] = EndOfOptions
  BY <1>14, <1>17
<1> QED
  BY <1>18, <1>20, <1>21, <1>22 DEF ReadTo

\* When parse_args() is through, everything is read.
LEMMA ReadingEnds ==
    ASSUME command \in Commands, AsUsage(command), NEW k, NEW f, NEW g, NEW h, ReadTo(k, f, g, h),
           c > Len(argv)
    PROVE  Understood
<1>1. /\ Len(command) \in Nat /\ Len(OptionParts(command)) = Len(command)
      /\ Len(FileParts(command)) = Len(command)
  BY PartsOfCommand
<1>2. /\ k \in 0..Len(command) /\ c = Len(f[k]) + 1 /\ map = Pairs(g[k]) /\ extra = Names(h[k])
      /\ Rounds(f, TokenParts(command)) /\ \A n \in 0..Len(command) : f[n] \in Seq(TokensOf(command))
      /\ Rounds(g, OptionParts(command)) /\ Rounds(h, FileParts(command))
  BY DEF ReadTo
<1>3. k = Len(command)
  <2> SUFFICES ASSUME k # Len(command) PROVE FALSE
    OBVIOUS
  <2>1. PICK m \in Nat : m = Len(command)
    BY <1>1
  <2>2. k \in 0..m - 1
    BY <1>2, <2>1
  <2>3. Len(f[k]) \in Nat /\ Len(argv) \in Nat /\ Len(f[k]) + 1 <= Len(argv)
    BY <1>2, <2>1, <2>2, FirstToken
  <2> QED
    BY <1>2, <2>3
<1>4. OptionsOf(command) = FlattenSeq(OptionParts(command))
      /\ FilesOf(command) = FlattenSeq(FileParts(command))
  BY DEF OptionsOf, FilesOf, Chosen, OptionParts, FileParts
<1>5. OptionsOf(command) = g[k] /\ FilesOf(command) = h[k]
  BY <1>1, <1>2, <1>3, <1>4 DEF Rounds
<1> QED
  BY <1>2, <1>5 DEF Understood

LEMMA ArgsStep == ArgsOK /\ [Next]_vars => ArgsOK'
<1> SUFFICES ASSUME ArgsOK, [Next]_vars PROVE ArgsOK'
  OBVIOUS
<1>1. command' = command
  BY DEF Next, vars, parse_args, CheckUsage, ReadInterface, OpenFiles, OpenServerFiles,
         PrintHeader, PrintBody
<1>2. command \in Commands /\ (AsUsage(command)' <=> AsUsage(command))
  BY <1>1 DEF ArgsOK, AsUsage
<1> SUFFICES ASSUME AsUsage(command)
    PROVE (IF phase = "args" THEN \E k, f, g, h : ReadTo(k, f, g, h) ELSE Understood)'
  BY <1>1, <1>2 DEF ArgsOK
<1>3. CASE parse_args
  <2>1. phase = "args" /\ phase' = "args"
    BY <1>3 DEF parse_args
  <2>2. PICK k, f, g, h : ReadTo(k, f, g, h)
    BY <2>1 DEF ArgsOK
  <2>3. ReadTo(k + 1, f, g, h)'
    BY <1>2, <1>3, <2>2, RoundReads
  <2> QED
    BY <2>1, <2>3
<1>4. CASE CheckUsage
  <2>1. phase = "args" /\ phase' # "args" /\ c > Len(argv) /\ map' = map /\ extra' = extra
    BY <1>4 DEF CheckUsage, argVars
  <2>2. PICK k, f, g, h : ReadTo(k, f, g, h)
    BY <2>1 DEF ArgsOK
  <2>3. Understood
    BY <1>2, <2>1, <2>2, ReadingEnds
  <2>4. Understood'
    BY <1>1, <2>1, <2>3 DEF Understood, OptionsOf, FilesOf, Chosen, Pairs, Names
  <2> QED
    BY <2>1, <2>4
<1>5. CASE ReadInterface \/ OpenFiles \/ OpenServerFiles \/ PrintHeader \/ PrintBody
  <2>1. phase # "args" /\ phase' # "args" /\ map' = map /\ extra' = extra
    BY <1>5 DEF ReadInterface, OpenFiles, OpenServerFiles, PrintHeader, PrintBody, argVars
  <2>2. Understood
    BY <2>1 DEF ArgsOK
  <2>3. Understood'
    BY <1>1, <2>1, <2>2 DEF Understood, OptionsOf, FilesOf, Chosen, Pairs, Names
  <2> QED
    BY <2>1, <2>3
<1>6. CASE UNCHANGED vars
  <2>1. /\ command' = command /\ phase' = phase /\ c' = c /\ opts_end' = opts_end
        /\ map' = map /\ extra' = extra
    BY <1>6 DEF vars, argVars
  <2>2. CASE phase = "args"
    <3>1. PICK k, f, g, h : ReadTo(k, f, g, h)
      BY <2>2 DEF ArgsOK
    <3>2. ReadTo(k, f, g, h)'
      <4>1. /\ TokenParts(command)' = TokenParts(command) /\ TokensOf(command)' = TokensOf(command)
            /\ OptionParts(command)' = OptionParts(command) /\ FileParts(command)' = FileParts(command)
        BY <2>1 DEF TokenParts, OptionParts, FileParts, TokensOf, Tokens
      <4>2. /\ Rounds(f, TokenParts(command))' /\ Rounds(g, OptionParts(command))'
            /\ Rounds(h, FileParts(command))'
        BY <3>1, <4>1 DEF ReadTo, Rounds
      <4>3. /\ \A n \in 0..Len(command') : f[n] \in Seq(TokensOf(command'))
            /\ \A n \in 0..Len(command') : g[n] \in Seq(ToSet(command'))
            /\ \A n \in 0..Len(command') : h[n] \in Seq(ToSet(command'))
            /\ k \in 0..Len(command')
        BY <2>1, <3>1 DEF ReadTo
      <4>4. /\ c' = Len(f[k]) + 1 /\ map' = Pairs(g[k]) /\ extra' = Names(h[k])
            /\ opts_end' <=> \E n \in 1..k : command'[n] = EndOfOptions
        BY <2>1, <3>1 DEF ReadTo
      <4> QED
        BY <4>2, <4>3, <4>4 DEF ReadTo
    <3> QED
      BY <2>1, <2>2, <3>2
  <2>3. CASE phase # "args"
    <3>1. Understood
      BY <2>3 DEF ArgsOK
    <3>2. Understood'
      BY <2>1, <3>1 DEF Understood, OptionsOf, FilesOf, Chosen, Pairs, Names
    <3> QED
      BY <2>1, <2>3, <3>2
  <2> QED
    BY <2>2, <2>3
<1> QED
  BY <1>3, <1>4, <1>5, <1>6 DEF Next

\* A command line that follows the usage is understood, however long it is:
\* parse_args() (scanner.cpp, main()) finds the options with their values and
\* the files, each in the order in which they are given.
THEOREM CommandUnderstoodCorrect == Spec => []CommandUnderstood
<1>1. ArgsOK => CommandUnderstood
  BY DEF ArgsOK, CommandUnderstood, Understood, Pairs, Names
<1> QED
  BY <1>1, ArgsInit, ArgsStep, PTL DEF Spec
-----------------------------------------------------------------------------
(* What comes before what *)

\* What is in front of the nth element.
Earlier(s, n) == {s[m] : m \in 1..n - 1}

LEMMA Follows ==
    ASSUME NEW s, IsSequence(s), NEW t, IsSequence(t), NEW n \in DOMAIN (s \o t)
    PROVE  \/ n \in DOMAIN s /\ (s \o t)[n] = s[n] /\ Earlier(s \o t, n) = Earlier(s, n)
           \/ (s \o t)[n] \in ToSet(t) /\ ToSet(s) \subseteq Earlier(s \o t, n)
<1> DEFINE S == ToSet(s) \cup ToSet(t)
<1>1. s \in Seq(S) /\ t \in Seq(S)
  BY SeqMonotonic DEF IsSequence
<1> HIDE DEF S
<1>2. PICK u, a, b : u = s \o t /\ a = Len(s) /\ b = Len(t)
  OBVIOUS
<1>3. /\ a \in Nat /\ b \in Nat /\ u \in Seq(S) /\ DOMAIN u = 1..a + b
      /\ DOMAIN s = 1..a /\ DOMAIN t = 1..b
      /\ \A m \in 1..a : u[m] = s[m]
      /\ \A m \in a + 1..a + b : u[m] = t[m - a]
  <2>1. /\ Len(s \o t) = Len(s) + Len(t) /\ s \o t \in Seq(S)
        /\ \A m \in 1..Len(s) + Len(t) : (s \o t)[m] = IF m <= Len(s) THEN s[m] ELSE t[m - Len(s)]
    BY <1>1, ConcatProperties
  <2>2. /\ a \in Nat /\ b \in Nat /\ Len(u) = a + b /\ u \in Seq(S)
        /\ \A m \in 1..a + b : u[m] = IF m <= a THEN s[m] ELSE t[m - a]
    BY <1>1, <1>2, <2>1
  <2>3. DOMAIN u = 1..a + b /\ DOMAIN s = 1..a /\ DOMAIN t = 1..b
    BY <1>1, <1>2, <2>2
  <2> QED
    BY <2>2, <2>3
<1>4. CASE n <= a
  <2>1. n \in 1..a /\ u[n] = s[n]
    BY <1>2, <1>3, <1>4
  <2>2. \A m \in 1..n - 1 : u[m] = s[m]
    BY <1>3, <2>1
  <2>3. Earlier(u, n) = Earlier(s, n)
    BY <2>2 DEF Earlier
  <2> QED
    BY <1>2, <1>3, <2>1, <2>3
<1>5. CASE ~(n <= a)
  <2>1. n \in a + 1..a + b /\ n - a \in 1..b
    BY <1>2, <1>3, <1>5
  <2>2. u[n] \in ToSet(t)
    BY <1>3, <2>1 DEF ToSet
  <2>3. \A m \in 1..a : m \in 1..n - 1 /\ u[m] = s[m]
    BY <1>3, <2>1
  <2>4. ToSet(s) \subseteq Earlier(u, n)
    BY <1>3, <2>3 DEF ToSet, Earlier
  <2> QED
    BY <1>2, <2>2, <2>4
<1> QED
  BY <1>4, <1>5

LEMMA ConcatElements ==
    ASSUME NEW s, IsSequence(s), NEW t, IsSequence(t)
    PROVE  ToSet(s \o t) = ToSet(s) \cup ToSet(t)
<1> DEFINE S == ToSet(s) \cup ToSet(t)
<1>1. s \in Seq(S) /\ t \in Seq(S)
  BY SeqMonotonic DEF IsSequence
<1> HIDE DEF S
<1>2. PICK u, a, b : u = s \o t /\ a = Len(s) /\ b = Len(t)
  OBVIOUS
<1>3. /\ a \in Nat /\ b \in Nat /\ DOMAIN u = 1..a + b
      /\ DOMAIN s = 1..a /\ DOMAIN t = 1..b
      /\ \A m \in 1..a + b : u[m] = IF m <= a THEN s[m] ELSE t[m - a]
  <2>1. /\ Len(s \o t) = Len(s) + Len(t) /\ s \o t \in Seq(S)
        /\ \A m \in 1..Len(s) + Len(t) : (s \o t)[m] = IF m <= Len(s) THEN s[m] ELSE t[m - Len(s)]
    BY <1>1, ConcatProperties
  <2>2. /\ a \in Nat /\ b \in Nat /\ Len(u) = a + b /\ u \in Seq(S)
        /\ \A m \in 1..a + b : u[m] = IF m <= a THEN s[m] ELSE t[m - a]
    BY <1>1, <1>2, <2>1
  <2>3. DOMAIN u = 1..a + b /\ DOMAIN s = 1..a /\ DOMAIN t = 1..b
    BY <1>1, <1>2, <2>2
  <2> QED
    BY <2>2, <2>3
<1>4. \A m \in 1..a : m \in 1..a + b /\ u[m] = s[m]
  BY <1>3
<1>5. \A m \in 1..b : a + m \in 1..a + b /\ u[a + m] = t[m]
  <2> SUFFICES ASSUME NEW m \in 1..b PROVE a + m \in 1..a + b /\ u[a + m] = t[m]
    OBVIOUS
  <2>1. a + m \in 1..a + b /\ ~(a + m <= a) /\ (a + m) - a = m
    BY <1>3
  <2> QED
    BY <1>3, <2>1
<1>6. \A m \in 1..a + b : m \in 1..a \/ (m - a \in 1..b /\ u[m] = t[m - a])
  BY <1>3
<1>7. ToSet(s) \cup ToSet(t) \subseteq ToSet(u)
  <2>1. \A m \in 1..a : s[m] \in ToSet(u)
    BY <1>3, <1>4 DEF ToSet
  <2>2. \A m \in 1..b : t[m] \in ToSet(u)
    <3> SUFFICES ASSUME NEW m \in 1..b PROVE t[m] \in ToSet(u)
      OBVIOUS
    <3>1. a + m \in DOMAIN u /\ u[a + m] = t[m]
      BY <1>3, <1>5
    <3> QED
      BY <3>1 DEF ToSet
  <2> QED
    BY <1>3, <2>1, <2>2 DEF ToSet
<1>8. ToSet(u) \subseteq ToSet(s) \cup ToSet(t)
  BY <1>3, <1>4, <1>6 DEF ToSet
<1> QED
  BY <1>2, <1>7, <1>8

\* Nothing but what fits is chosen, and all that does.
LEMMA ChosenElements ==
    ASSUME NEW s, IsSequence(s), NEW P
    PROVE  ToSet(FlattenSeq([n \in DOMAIN s |-> IF s[n] \in P THEN <<s[n]>> ELSE <<>>]))
             = ToSet(s) \cap P
<1> DEFINE S == ToSet(s) \cap P
           t == [n \in DOMAIN s |-> IF s[n] \in P THEN <<s[n]>> ELSE <<>>]
<1>1. Len(s) \in Nat /\ DOMAIN s = 1..Len(s) /\ \A n \in DOMAIN s : s[n] \in ToSet(s)
  BY DEF IsSequence, ToSet
<1>2. \A n \in 1..Len(s) : t[n] \in Seq(S)
  <2> SUFFICES ASSUME NEW n \in 1..Len(s) PROVE t[n] \in Seq(S)
    OBVIOUS
  <2>1. \/ s[n] \in S /\ t[n] = <<s[n]>>
        \/ t[n] = <<>>
    BY <1>1
  <2> HIDE DEF S, t
  <2>2. \A e \in S : <<e>> \in Seq(S)
    OBVIOUS
  <2> QED
    BY <2>1, <2>2, EmptySeq
<1>3. t = [n \in 1..Len(s) |-> t[n]]
  BY <1>1
<1>4. t \in Seq(Seq(S)) /\ Len(t) = Len(s)
  <2>1. Len(t) = Len(s)
    BY <1>1
  <2> HIDE DEF t, S
  <2> QED
    BY <1>1, <1>2, <1>3, <2>1, IsASeq
<1>5. \A n \in 1..Len(s) : s[n] \in P => Len(t[n]) = 1 /\ t[n][1] = s[n]
  BY <1>1
<1> HIDE DEF t
<1>6. PICK all : all = FlattenSeq(t) /\ all \in Seq(S)
  <2> HIDE DEF S
  <2> QED
    BY <1>4, FlattenTyped
<1>7. ToSet(all) \subseteq S
  <2> HIDE DEF S
  <2> QED
    BY <1>6 DEF ToSet
<1>8. ASSUME NEW n \in 1..Len(s), s[n] \in P PROVE s[n] \in ToSet(all)
  <2> HIDE DEF S
  <2>1. PICK f \in [0..Len(t) -> Seq(S)] : Rounds(f, t)
    BY <1>4, FlattenRounds
  <2>2. PICK k : k = n - 1 /\ k \in 0..Len(t) - 1 /\ k + 1 = n
    BY <1>1, <1>4
  <2>3. Adds(f, t, k)
    BY <1>4, <2>1, <2>2, RoundsElements
  <2>4. Len(t[n]) = 1 /\ t[n][1] = s[n]
    BY <1>5, <1>8
  <2>5. /\ Len(f[n]) = Len(f[k]) + 1 /\ Len(f[k]) \in Nat /\ Len(f[n]) <= Len(all)
        /\ all[Len(f[k]) + 1] = s[n]
    <3>1. 1 \in 1..Len(t[n])
      BY <2>4
    <3> QED
      BY <1>6, <2>2, <2>3, <2>4, <3>1 DEF Adds
  <2>6. Len(f[k]) + 1 \in DOMAIN all
    BY <1>6, <2>5
  <2> QED
    BY <2>5, <2>6 DEF ToSet
<1>9. S \subseteq ToSet(all)
  BY <1>1, <1>8 DEF ToSet
<1> QED
  BY <1>6, <1>7, <1>9 DEF t
-----------------------------------------------------------------------------
(* Names *)

\* The interfaces whose classes are printed.
Shown == {n \in DOMAIN interfaces : interfaces[n].name # <<"", "display">>}

LEMMA PartElements ==
    ASSUME ReadOK, NEW w
    PROVE  /\ ToSet(ForEach(w)) = {Part(w, n) : n \in DOMAIN interfaces}
           /\ ToSet(ForEachButDisplay(w)) = {Part(w, n) : n \in Shown}
<1> DEFINE s == ForEach(w)
           P == {Part(w, n) : n \in Shown}
<1>1. s = [n \in DOMAIN interfaces |-> Part(w, n)]
  BY DEF ForEach
<1>2. DOMAIN s = DOMAIN interfaces /\ \A n \in DOMAIN s : s[n] = Part(w, n) /\ s[n].k = n
  BY <1>1, PartFacts
<1> HIDE DEF s
<1>3. ToSet(s) = {Part(w, n) : n \in DOMAIN interfaces}
  BY <1>2 DEF ToSet
<1>4. \A n \in DOMAIN s : s[n] \in P <=> interfaces[s[n].k].name # <<"", "display">>
  <2> SUFFICES ASSUME NEW n \in DOMAIN s
               PROVE  s[n] \in P <=> interfaces[s[n].k].name # <<"", "display">>
    OBVIOUS
  <2>1. s[n] = Part(w, n) /\ s[n].k = n /\ n \in DOMAIN interfaces
    BY <1>2
  <2>2. s[n] \in P => n \in Shown
    <3> SUFFICES ASSUME NEW m \in Shown, s[n] = Part(w, m) PROVE n \in Shown
      OBVIOUS
    <3>1. Part(w, m).k = m
      BY PartFacts
    <3>2. m = n
      BY <2>1, <3>1
    <3> QED
      BY <3>2
  <2> QED
    BY <2>1, <2>2 DEF Shown
<1> DEFINE t == [n \in DOMAIN s |-> IF s[n] \in P THEN <<s[n]>> ELSE <<>>]
<1>5. ForEachButDisplay(w) = FlattenSeq(t)
  <2>1. ForEachButDisplay(w)
        = FlattenSeq([n \in DOMAIN s |->
             IF interfaces[s[n].k].name # <<"", "display">> THEN <<s[n]>> ELSE <<>>])
    BY DEF ForEachButDisplay, Chosen, s
  <2> HIDE DEF P
  <2>2. [n \in DOMAIN s |-> IF interfaces[s[n].k].name # <<"", "display">> THEN <<s[n]>> ELSE <<>>] = t
    BY <1>4
  <2> QED
    BY <2>1, <2>2
<1>6. IsSequence(s)
  BY PartsTyped DEF s
<1>7. ToSet(FlattenSeq(t)) = ToSet(s) \cap P
  <2> HIDE DEF P
  <2> QED
    BY <1>6, ChosenElements
<1>8. P \subseteq ToSet(s)
  BY <1>3 DEF Shown
<1> QED
  BY <1>3, <1>5, <1>7, <1>8 DEF s

\* What is sent and received names what the interface does.
LEMMA TypesFacts ==
    ASSUME ReadOK, EnumerationsTyped, NEW n \in DOMAIN interfaces, NEW x, x = interfaces[n]
    PROVE  TypesOf(Sent(x)) \cup TypesOf(Received(x)) \subseteq TypesOf(x.requests) \cup TypesOf(x.events)
<1>1. /\ IsSequence(x.requests) /\ IsSequence(x.events)
      /\ \A m \in ToSet(x.events) : IsSequence(m.args) /\ "args" \in DOMAIN m
  BY ReadTyped
<1>2. \A m \in ToSet(Sent(x)) \cup ToSet(Received(x)) : \A a \in ToSet(m.args) :
         \E q \in ToSet(x.requests) \cup ToSet(x.events) : a \in ToSet(q.args)
  BY <1>1, SentArgs
<1>3. \A a \in UNION {ToSet(m.args) : m \in ToSet(Sent(x)) \cup ToSet(Received(x))} :
         a \in UNION {ToSet(m.args) : m \in ToSet(x.requests) \cup ToSet(x.events)}
  BY <1>2
<1> QED
  BY <1>3 DEF TypesOf

\* What a part declares, defines, mentions and needs.
LEMMA NameFacts ==
    ASSUME NEW x, NEW w
    PROVE  /\ w = "c_forward" => DeclaresInside(x, w) = {Struct(x.orig_name)}
           /\ w = "forward" => DeclaresInside(x, w) = {Class(x.name)} \cup EnumsOf(x)
           /\ w = "interface_header" => DeclaresInside(x, w) = {Interface(x.name)}
           /\ w = "class" => DefinesInside(x, w) = {Class(x.name)} \cup EnumsOf(x)
           /\ w = "class" => MentionsInside(x, w) \subseteq
                 TypesOf(Sent(x)) \cup TypesOf(Received(x)) \cup {Struct(x.orig_name), Interface(x.name)}
           /\ w = "interface_body" => MentionsInside(x, w) = {Interface(n.name) : n \in
                 {t \in TypesOf(x.requests) \cup TypesOf(x.events) : t.kind = "class"}}
           /\ w = "class_body" => MentionsInside(x, w) =
                 {Interface(x.name), Struct(x.orig_name)} \cup {Interface(q) : q \in NewObjects(Sent(x))}
           /\ w \notin {"class", "interface_body", "class_body"} => MentionsInside(x, w) = {}
           /\ w # "class_body" => NeedsInside(x, w) = {}
           /\ w = "class_body" => NeedsInside(x, w) \subseteq
                 {Class(x.name)} \cup TypesOf(Sent(x)) \cup TypesOf(Received(x)) \cup EnumsOf(x)
<1>1. Errors(x) \subseteq EnumsOf(x)
  BY DEF Errors
<1>2. {Enum(x.name, e.name) : e \in {f \in ToSet(x.enums) : f.bitfield}} \subseteq EnumsOf(x)
  BY DEF EnumsOf
<1>3. w = "class_body" => NeedsInside(x, w) =
         {Class(x.name)} \cup TypesOf(Sent(x)) \cup TypesOf(Received(x)) \cup Errors(x)
         \cup {Enum(x.name, e.name) : e \in {f \in ToSet(x.enums) : f.bitfield}}
  BY DEF NeedsInside
<1>4. w # "class_body" => NeedsInside(x, w) = {}
  BY DEF NeedsInside
<1>5. /\ w = "c_forward" => DeclaresInside(x, w) = {Struct(x.orig_name)}
      /\ w = "forward" => DeclaresInside(x, w) = print_forward(x)
      /\ w = "interface_header" => DeclaresInside(x, w) = {Interface(x.name)}
  BY DEF DeclaresInside
<1>6. w = "class" => DefinesInside(x, w) = {Class(x.name)} \cup EnumsOf(x)
  BY DEF DefinesInside
<1>7. /\ w = "class" => MentionsInside(x, w) =
            TypesOf(Sent(x)) \cup TypesOf(Received(x)) \cup {Struct(x.orig_name)}
            \cup (IF server THEN {Interface(x.name)} ELSE {})
      /\ w = "interface_body" => MentionsInside(x, w) = {Interface(n.name) : n \in
                 {t \in TypesOf(x.requests) \cup TypesOf(x.events) : t.kind = "class"}}
      /\ w = "class_body" => MentionsInside(x, w) =
                 {Interface(x.name), Struct(x.orig_name)} \cup {Interface(q) : q \in NewObjects(Sent(x))}
      /\ w \notin {"class", "interface_body", "class_body"} => MentionsInside(x, w) = {}
  BY DEF MentionsInside
<1> QED
  BY <1>1, <1>2, <1>3, <1>4, <1>5, <1>6, <1>7 DEF print_forward

LEMMA TupleElements ==
    ASSUME NEW p, NEW q
    PROVE  ToSet(<<>>) = {} /\ ToSet(<<p>>) = {p} /\ ToSet(<<p, q>>) = {p, q}
<1>1. ToSet(<<>>) = {} /\ ToSet(<<p>>) = {p}
  BY DEF ToSet
<1>2. ToSet(<<p, q>>) = {p, q}
  <2>1. DOMAIN <<p, q>> = {1, 2}
    OBVIOUS
  <2> QED
    BY <2>1 DEF ToSet
<1> QED
  BY <1>1, <1>2

\* The lines around the parts.
LEMMA LineElements ==
    /\ \A p \in ToSet(HeaderIntro) \cup ToSet(BodyIntro) \cup ToSet(ExtraIncludes) : p.k = 0
    /\ \A w : \A p \in ToSet(<<Line(w)>>) : p.k = 0
<1>1. \A w : Line(w).k = 0 /\ include(w).k = 0
  BY DEF Line, include
<1>2. \A p \in ToSet(HeaderIntro) : p.k = 0
  BY <1>1 DEF HeaderIntro, ToSet
<1>3. \A p \in ToSet(ExtraIncludes) : p.k = 0
  BY <1>1 DEF ExtraIncludes, ToSet
<1>4. \A w : \A p \in ToSet(<<Line(w)>>) : p.k = 0
  BY <1>1 DEF ToSet
<1>5. \A p \in ToSet(BodyIntro) : p.k = 0
  <2> DEFINE a == <<include("hpp"), Line("blank"), Line("using"), Line("using detail")>>
             b == IF server THEN <<Line("using server"), Line("using server::detail")>> ELSE <<>>
             d == <<Line("blank")>>
  <2>1. IsSequence(a) /\ IsSequence(b) /\ IsSequence(d)
    BY TupleSequences
  <2>2. BodyIntro = a \o b \o d
    BY DEF BodyIntro
  <2>3. \A p \in ToSet(a) \cup ToSet(b) \cup ToSet(d) : p.k = 0
    <3>1. PICK p1, p2, p3, p4, p5, p6 :
             /\ p1 = include("hpp") /\ p2 = Line("blank") /\ p3 = Line("using")
             /\ p4 = Line("using detail") /\ p5 = Line("using server") /\ p6 = Line("using server::detail")
      OBVIOUS
    <3>2. p1.k = 0 /\ p2.k = 0 /\ p3.k = 0 /\ p4.k = 0 /\ p5.k = 0 /\ p6.k = 0
      BY <1>1, <3>1
    <3>3. a = <<p1, p2, p3, p4>> /\ d = <<p2>> /\ b = IF server THEN <<p5, p6>> ELSE <<>>
      BY <3>1
    <3> HIDE DEF a, b, d
    <3>4. ToSet(<<p1, p2, p3, p4>>) = {p1, p2, p3, p4}
      <4>1. DOMAIN <<p1, p2, p3, p4>> = {1, 2, 3, 4}
        OBVIOUS
      <4> QED
        BY <4>1 DEF ToSet
    <3>5. ToSet(<<p5, p6>>) = {p5, p6} /\ ToSet(<<>>) = {}
      BY TupleElements
    <3>6. ToSet(d) = {p2}
      BY <3>3, TupleElements
    <3> QED
      BY <3>2, <3>3, <3>4, <3>5, <3>6
  <2> HIDE DEF a, b, d
  <2>4. IsSequence(a \o b) /\ ToSet(a \o b) = ToSet(a) \cup ToSet(b)
    BY <2>1, ConcatSequences, ConcatElements
  <2>5. ToSet(BodyIntro) = ToSet(a) \cup ToSet(b) \cup ToSet(d)
    BY <2>1, <2>2, <2>4, ConcatElements
  <2> QED
    BY <2>3, <2>5
<1> QED
  BY <1>2, <1>3, <1>4, <1>5

Associative(s, t, u) == (s \o t) \o u = s \o (t \o u)

LEMMA ConcatThree ==
    ASSUME NEW s, IsSequence(s), NEW t, IsSequence(t), NEW u, IsSequence(u)
    PROVE  Associative(s, t, u)
<1> DEFINE S == ToSet(s) \cup ToSet(t) \cup ToSet(u)
<1>1. s \in Seq(S) /\ t \in Seq(S) /\ u \in Seq(S)
  BY SeqMonotonic DEF IsSequence
<1> HIDE DEF S
<1>2. (s \o t) \o u = s \o (t \o u)
  BY <1>1, ConcatAssociative
<1> QED
  BY <1>2 DEF Associative

\* What is in the header in front of the classes.
LeadsIn(pre) ==
    /\ IsSequence(pre)
    /\ \A p \in ToSet(pre) : p.k = 0 \/ \E n \in DOMAIN interfaces :
          \E w \in {"c_forward", "forward", "interface_header"} : p = Part(w, n)
    /\ \A w \in {"c_forward", "forward"} : \A n \in Shown : Part(w, n) \in ToSet(pre)
    /\ \A n \in DOMAIN interfaces : Part("interface_header", n) \in ToSet(pre)

LEMMA HeaderSplit ==
    ASSUME ReadOK, IsSequence(map)
    PROVE  \E pre : /\ LeadsIn(pre)
                    /\ HeaderIntro \o HeaderParts = (pre \o ForEachButDisplay("class")) \o <<Line("end")>>
<1> DEFINE a == <<Line("blank")>>
           b == <<Line("namespace")>>
           d == <<Line("end")>>
<1>1. IsSequence(a) /\ IsSequence(b) /\ IsSequence(d) /\ IsSequence(HeaderIntro)
  BY TupleSequences, IntroFacts
<1>2. \A p \in ToSet(a) \cup ToSet(b) \cup ToSet(HeaderIntro) : p.k = 0
  <2>1. \A p \in ToSet(a) : p.k = 0
    BY LineElements
  <2>2. \A p \in ToSet(b) : p.k = 0
    BY LineElements
  <2> QED
    BY <2>1, <2>2, LineElements
<1>3. PICK w2, w3, w4, w5 : w2 = "c_forward" /\ w3 = "forward" /\ w4 = "interface_header" /\ w5 = "class"
  OBVIOUS
<1>4. PICK p1, p2, p3, p4, p5 :
         /\ p1 = ExtraIncludes /\ p2 = ForEachButDisplay(w2) /\ p3 = ForEachButDisplay(w3)
         /\ p4 = ForEach(w4) /\ p5 = ForEachButDisplay(w5)
  OBVIOUS
<1>5. IsSequence(p1) /\ IsSequence(p2) /\ IsSequence(p3) /\ IsSequence(p4) /\ IsSequence(p5)
  BY <1>4, ExtraTyped, PartsTyped
<1>6. /\ \A p \in ToSet(p1) : p.k = 0
      /\ ToSet(p2) = {Part(w2, n) : n \in Shown} /\ ToSet(p3) = {Part(w3, n) : n \in Shown}
      /\ ToSet(p4) = {Part(w4, n) : n \in DOMAIN interfaces}
  BY <1>4, LineElements, PartElements
<1>7. HeaderParts = p1 \o a \o p2 \o a \o b \o p3 \o a \o p4 \o p5 \o d
  BY <1>3, <1>4 DEF HeaderParts
<1> HIDE DEF a, b, d
<1>8. PICK intro : intro = HeaderIntro /\ IsSequence(intro) /\ \A p \in ToSet(intro) : p.k = 0
  BY <1>1, <1>2
<1>9. PICK q1 : q1 = p1 \o a \o p2 /\ IsSequence(q1) /\ ToSet(q1) = ToSet(p1) \cup ToSet(a) \cup ToSet(p2)
  <2>1. IsSequence(p1 \o a) /\ ToSet(p1 \o a) = ToSet(p1) \cup ToSet(a)
    BY <1>1, <1>5, ConcatSequences, ConcatElements
  <2>2. IsSequence((p1 \o a) \o p2) /\ ToSet((p1 \o a) \o p2) = ToSet(p1 \o a) \cup ToSet(p2)
    BY <1>5, <2>1, ConcatSequences, ConcatElements
  <2> QED
    BY <2>1, <2>2
<1>10. PICK q2 : q2 = q1 \o a \o b \o p3 /\ IsSequence(q2)
                 /\ ToSet(q2) = ToSet(q1) \cup ToSet(a) \cup ToSet(b) \cup ToSet(p3)
  <2>1. IsSequence(q1 \o a) /\ ToSet(q1 \o a) = ToSet(q1) \cup ToSet(a)
    BY <1>1, <1>9, ConcatSequences, ConcatElements
  <2>2. IsSequence((q1 \o a) \o b) /\ ToSet((q1 \o a) \o b) = ToSet(q1 \o a) \cup ToSet(b)
    BY <1>1, <2>1, ConcatSequences, ConcatElements
  <2>3. IsSequence((q1 \o a \o b) \o p3) /\ ToSet((q1 \o a \o b) \o p3) = ToSet(q1 \o a \o b) \cup ToSet(p3)
    BY <1>5, <2>2, ConcatSequences, ConcatElements
  <2> QED
    BY <2>1, <2>2, <2>3
<1>11. PICK q3 : q3 = q2 \o a \o p4 /\ IsSequence(q3) /\ ToSet(q3) = ToSet(q2) \cup ToSet(a) \cup ToSet(p4)
  <2>1. IsSequence(q2 \o a) /\ ToSet(q2 \o a) = ToSet(q2) \cup ToSet(a)
    BY <1>1, <1>10, ConcatSequences, ConcatElements
  <2>2. IsSequence((q2 \o a) \o p4) /\ ToSet((q2 \o a) \o p4) = ToSet(q2 \o a) \cup ToSet(p4)
    BY <1>5, <2>1, ConcatSequences, ConcatElements
  <2> QED
    BY <2>1, <2>2
<1>12. PICK pre : pre = intro \o q3 /\ IsSequence(pre) /\ ToSet(pre) = ToSet(intro) \cup ToSet(q3)
  BY <1>8, <1>11, ConcatSequences, ConcatElements
<1>13. HeaderParts = (q3 \o p5) \o d
  BY <1>7, <1>9, <1>10, <1>11
<1>14. HeaderIntro \o HeaderParts = (pre \o p5) \o d
  <2>1. IsSequence(intro) /\ IsSequence(q3) /\ IsSequence(p5) /\ IsSequence(d)
    BY <1>1, <1>5, <1>8, <1>11
  <2>2. IsSequence(q3 \o p5)
    BY <2>1, ConcatSequences
  <2>3. Associative(intro, q3 \o p5, d)
    BY <2>1, <2>2, ConcatThree
  <2>4. Associative(intro, q3, p5)
    BY <2>1, ConcatThree
  <2> QED
    BY <1>8, <1>12, <1>13, <2>3, <2>4 DEF Associative
<1>15. ToSet(pre) = ToSet(intro) \cup ToSet(p1) \cup ToSet(a) \cup ToSet(b)
                    \cup ToSet(p2) \cup ToSet(p3) \cup ToSet(p4)
  BY <1>9, <1>10, <1>11, <1>12
<1>16. \A p \in ToSet(pre) : p.k = 0 \/ \E n \in DOMAIN interfaces : \E w \in {w2, w3, w4} : p = Part(w, n)
  <2>1. Shown \subseteq DOMAIN interfaces
    BY DEF Shown
  <2> QED
    BY <1>2, <1>6, <1>8, <1>15, <2>1
<1>17. /\ \A w \in {w2, w3} : \A n \in Shown : Part(w, n) \in ToSet(pre)
       /\ \A n \in DOMAIN interfaces : Part(w4, n) \in ToSet(pre)
  BY <1>6, <1>15
<1>18. LeadsIn(pre)
  BY <1>3, <1>12, <1>16, <1>17 DEF LeadsIn
<1> QED
  BY <1>3, <1>4, <1>14, <1>18 DEF d

LEMMA BodyElements ==
    ASSUME ReadOK
    PROVE  /\ IsSequence(BodyParts)
           /\ \A p \in ToSet(BodyParts) :
                 \/ p.k = 0
                 \/ \E n \in DOMAIN interfaces : p = Part("interface_body", n)
                 \/ \E n \in Shown : p = Part("class_body", n)
<1>1. PICK w1, w2 : w1 = "interface_body" /\ w2 = "class_body"
  OBVIOUS
<1>2. PICK p1, p2, intro : p1 = ForEach(w1) /\ p2 = ForEachButDisplay(w2) /\ intro = BodyIntro
  OBVIOUS
<1>3. /\ IsSequence(p1) /\ IsSequence(p2) /\ IsSequence(intro)
      /\ ToSet(p1) = {Part(w1, n) : n \in DOMAIN interfaces} /\ ToSet(p2) = {Part(w2, n) : n \in Shown}
      /\ \A p \in ToSet(intro) : p.k = 0
  BY <1>2, PartsTyped, PartElements, IntroFacts, LineElements
<1>4. BodyParts = (intro \o p1) \o p2
  BY <1>1, <1>2 DEF BodyParts, Complete
<1>5. IsSequence(intro \o p1) /\ ToSet(intro \o p1) = ToSet(intro) \cup ToSet(p1)
  BY <1>3, ConcatSequences, ConcatElements
<1>6. IsSequence(BodyParts) /\ ToSet(BodyParts) = ToSet(intro \o p1) \cup ToSet(p2)
  BY <1>3, <1>4, <1>5, ConcatSequences, ConcatElements
<1>7. \A p \in ToSet(BodyParts) : p.k = 0 \/ (\E n \in DOMAIN interfaces : p = Part(w1, n))
                                  \/ (\E n \in Shown : p = Part(w2, n))
  BY <1>3, <1>5, <1>6
<1> QED
  BY <1>1, <1>6, <1>7

Defined(E)  == UNION {Inside(DefinesInside, p) : p \in E}
Declared(E) == UNION {Inside(DeclaresInside, p) : p \in E}

\* After the lines of E the compiler knows what p names.
Resolved(p, E) ==
    /\ Inside(NeedsInside, p) \subseteq HeaderNames \cup Defined(E)
    /\ Inside(MentionsInside, p) \subseteq
          HeaderNames \cup Defined(E) \cup Declared(E) \cup Inside(DeclaresInside, p)

ClassNames(n) == {Class(interfaces[n].name)} \cup EnumsOf(interfaces[n])

\* Every name the protocols refer to is in one of them or in a header.
AllKnown == \A x \in ToSet(interfaces) : RefersTo(x) \subseteq Known

\* A header that defines a class declares its interface.
HeadersComplete ==
    \A h \in DOMAIN Provided : \A t \in Provided[h] : t.kind = "class" => Interface(t.name) \in Provided[h]

LEMMA KindFacts ==
    ASSUME NEW x, NEW n
    PROVE  /\ Class(n).kind = "class" /\ Class(n).name = n
           /\ \A t \in EnumsOf(x) : t.kind = "enum"
BY DEF Class, EnumsOf, Enum

LEMMA KnownFacts ==
    ASSUME ReadOK
    PROVE  Known = HeaderNames \cup UNION {ClassNames(n) : n \in Shown}
<1>1. {y \in ToSet(interfaces) : y.name # <<"", "display">>} = {interfaces[n] : n \in Shown}
  BY DEF ToSet, Shown
<1>2. PICK Y : Y = {y \in ToSet(interfaces) : y.name # <<"", "display">>}
  OBVIOUS
<1>3. Known = HeaderNames \cup UNION {{Class(x.name)} \cup EnumsOf(x) : x \in Y}
  BY <1>2 DEF Known
<1>4. UNION {{Class(x.name)} \cup EnumsOf(x) : x \in Y} = UNION {ClassNames(n) : n \in Shown}
  <2>1. Y = {interfaces[n] : n \in Shown}
    BY <1>1, <1>2
  <2> QED
    BY <2>1 DEF ClassNames
<1> QED
  BY <1>3, <1>4

\* What an interface refers to.
LEMMA ReferredFacts ==
    ASSUME ReadOK, AllKnown, NEW n \in DOMAIN interfaces, NEW x, x = interfaces[n],
           NEW t \in TypesOf(x.requests) \cup TypesOf(x.events)
    PROVE  /\ t \in HeaderNames \/ t \in EnumsOf(x) \/ \E m \in Shown : t \in ClassNames(m)
           /\ t.kind = "class" => t \in HeaderNames \/ \E m \in Shown : t = Class(interfaces[m].name)
<1>1. x \in ToSet(interfaces)
  BY DEF ToSet
<1>2. t \in EnumsOf(x) \/ t \in Known
  BY <1>1 DEF AllKnown, RefersTo
<1>3. t \in EnumsOf(x) \/ t \in HeaderNames \/ \E m \in Shown : t \in ClassNames(m)
  BY <1>2, KnownFacts
<1>4. \A m \in Shown : t \in ClassNames(m) => t = Class(interfaces[m].name) \/ t \in EnumsOf(interfaces[m])
  BY DEF ClassNames
<1>5. \A y : \A u \in EnumsOf(y) : u.kind # "class"
  BY KindFacts
<1> QED
  BY <1>3, <1>4, <1>5

LEMMA PartInside ==
    ASSUME NEW w, NEW n, n # 0
    PROVE  /\ Inside(DefinesInside, Part(w, n)) = DefinesInside(interfaces[n], w)
           /\ Inside(DeclaresInside, Part(w, n)) = DeclaresInside(interfaces[n], w)
           /\ Inside(MentionsInside, Part(w, n)) = MentionsInside(interfaces[n], w)
           /\ Inside(NeedsInside, Part(w, n)) = NeedsInside(interfaces[n], w)
BY PartFacts DEF Inside

LEMMA PartAmong ==
    ASSUME NEW w, NEW n, n # 0, NEW E, Part(w, n) \in E
    PROVE  /\ DefinesInside(interfaces[n], w) \subseteq Defined(E)
           /\ DeclaresInside(interfaces[n], w) \subseteq Declared(E)
<1>1. Inside(DefinesInside, Part(w, n)) \subseteq Defined(E)
  BY DEF Defined
<1>2. Inside(DeclaresInside, Part(w, n)) \subseteq Declared(E)
  BY DEF Declared
<1> QED
  BY <1>1, <1>2, PartInside

LEMMA ShownFacts ==
    ASSUME ReadOK
    PROVE  Shown \subseteq DOMAIN interfaces /\ 0 \notin DOMAIN interfaces
<1>1. DOMAIN interfaces = 1..Len(interfaces) /\ Len(interfaces) \in Nat
  BY DEF ReadOK
<1>2. 0 \notin 1..Len(interfaces)
  BY <1>1
<1> QED
  BY <1>1, <1>2 DEF Shown

\* What leads in declares whatever is in the classes.
LEMMA LeadDeclares ==
    ASSUME ReadOK, NEW pre, LeadsIn(pre), NEW E, ToSet(pre) \subseteq E
    PROVE  /\ \A m \in Shown : /\ ClassNames(m) \subseteq Declared(E)
                               /\ Struct(interfaces[m].orig_name) \in Declared(E)
           /\ \A m \in DOMAIN interfaces : Interface(interfaces[m].name) \in Declared(E)
<1>1. PICK w1, w2, w3 : w1 = "c_forward" /\ w2 = "forward" /\ w3 = "interface_header"
  OBVIOUS
<1>2. /\ \A m \in Shown : Part(w1, m) \in E /\ Part(w2, m) \in E
      /\ \A m \in DOMAIN interfaces : Part(w3, m) \in E
  BY <1>1 DEF LeadsIn
<1>3. Shown \subseteq DOMAIN interfaces /\ 0 \notin DOMAIN interfaces
  BY ShownFacts
<1>4. ASSUME NEW m \in Shown
      PROVE  ClassNames(m) \subseteq Declared(E) /\ Struct(interfaces[m].orig_name) \in Declared(E)
  <2>1. Part(w1, m) \in E /\ Part(w2, m) \in E /\ m # 0
    BY <1>2, <1>3
  <2>2. DeclaresInside(interfaces[m], w1) \subseteq Declared(E)
    BY <2>1, PartAmong
  <2>3. DeclaresInside(interfaces[m], w2) \subseteq Declared(E)
    BY <2>1, PartAmong
  <2>4. DeclaresInside(interfaces[m], w1) = {Struct(interfaces[m].orig_name)}
    BY <1>1, NameFacts
  <2>5. DeclaresInside(interfaces[m], w2) = ClassNames(m)
    BY <1>1, NameFacts DEF ClassNames
  <2> QED
    BY <2>2, <2>3, <2>4, <2>5
<1>5. ASSUME NEW m \in DOMAIN interfaces PROVE Interface(interfaces[m].name) \in Declared(E)
  <2>1. Part(w3, m) \in E /\ m # 0
    BY <1>2, <1>3
  <2>2. DeclaresInside(interfaces[m], w3) \subseteq Declared(E)
    BY <2>1, PartAmong
  <2>3. DeclaresInside(interfaces[m], w3) = {Interface(interfaces[m].name)}
    BY <1>1, NameFacts
  <2> QED
    BY <2>2, <2>3
<1> QED
  BY <1>4, <1>5

LEMMA ClassesDefine ==
    ASSUME ReadOK, NEW E, ToSet(ForEachButDisplay("class")) \subseteq E, NEW m \in Shown
    PROVE  ClassNames(m) \subseteq Defined(E)
<1>1. PICK w : w = "class"
  OBVIOUS
<1>2. Part(w, m) \in E
  BY <1>1, PartElements
<1>3. m # 0
  BY ShownFacts
<1>4. DefinesInside(interfaces[m], w) \subseteq Defined(E)
  BY <1>2, <1>3, PartAmong
<1> QED
  BY <1>1, <1>4, NameFacts DEF ClassNames

LEMMA ClassResolved ==
    ASSUME ReadOK, EnumerationsTyped, AllKnown, NEW pre, LeadsIn(pre), NEW E, ToSet(pre) \subseteq E,
           NEW n \in Shown, NEW w, w = "class"
    PROVE  Resolved(Part(w, n), E)
<1>1. PICK x : x = interfaces[n]
  OBVIOUS
<1>2. n \in DOMAIN interfaces /\ n # 0
  BY ShownFacts
<1>3. NeedsInside(x, w) = {}
      /\ MentionsInside(x, w) \subseteq
            TypesOf(Sent(x)) \cup TypesOf(Received(x)) \cup {Struct(x.orig_name), Interface(x.name)}
  BY NameFacts
<1>4. /\ \A m \in Shown : ClassNames(m) \subseteq Declared(E)
      /\ Struct(x.orig_name) \in Declared(E) /\ Interface(x.name) \in Declared(E)
  BY <1>1, <1>2, LeadDeclares
<1>5. EnumsOf(x) \subseteq Declared(E)
  BY <1>1, <1>4 DEF ClassNames
<1>6. TypesOf(Sent(x)) \cup TypesOf(Received(x)) \subseteq TypesOf(x.requests) \cup TypesOf(x.events)
  BY <1>1, <1>2, TypesFacts
<1>7. \A t \in TypesOf(x.requests) \cup TypesOf(x.events) :
         t \in HeaderNames \/ t \in EnumsOf(x) \/ \E m \in Shown : t \in ClassNames(m)
  BY <1>1, <1>2, ReferredFacts
<1>8. MentionsInside(x, w) \subseteq HeaderNames \cup Declared(E)
  BY <1>3, <1>4, <1>5, <1>6, <1>7
<1>9. Inside(NeedsInside, Part(w, n)) = NeedsInside(x, w)
      /\ Inside(MentionsInside, Part(w, n)) = MentionsInside(x, w)
  BY <1>1, <1>2, PartInside
<1> QED
  BY <1>3, <1>8, <1>9 DEF Resolved

\* The interface of a class that is referred to is declared beside the class.
LEMMA InterfaceKnown ==
    ASSUME ReadOK, AllKnown, HeadersComplete, NEW pre, LeadsIn(pre), NEW E, ToSet(pre) \subseteq E,
           NEW n \in DOMAIN interfaces, NEW x, x = interfaces[n],
           NEW t \in TypesOf(x.requests) \cup TypesOf(x.events), t.kind = "class"
    PROVE  Interface(t.name) \in HeaderNames \cup Declared(E)
<1>1. t \in HeaderNames \/ \E m \in Shown : t = Class(interfaces[m].name)
  BY ReferredFacts
<1>2. CASE t \in HeaderNames
  <2>1. PICK line \in ToSet(files.hpp) : line.what = "include" /\ t \in Includes(line.header)
    BY <1>2 DEF HeaderNames
  <2>2. Interface(t.name) \in Includes(line.header)
    BY <2>1 DEF Includes, HeadersComplete
  <2> QED
    BY <2>1, <2>2 DEF HeaderNames
<1>3. CASE \E m \in Shown : t = Class(interfaces[m].name)
  <2>1. PICK m \in Shown : t = Class(interfaces[m].name)
    BY <1>3
  <2>2. t.name = interfaces[m].name /\ Shown \subseteq DOMAIN interfaces
    BY <2>1, KindFacts, ShownFacts
  <2>3. Interface(interfaces[m].name) \in Declared(E)
    BY <2>1, <2>2, LeadDeclares
  <2> QED
    BY <2>2, <2>3
<1> QED
  BY <1>1, <1>2, <1>3

LEMMA TableResolved ==
    ASSUME ReadOK, AllKnown, HeadersComplete, NEW pre, LeadsIn(pre), NEW E, ToSet(pre) \subseteq E,
           NEW n \in DOMAIN interfaces, NEW w, w = "interface_body"
    PROVE  Resolved(Part(w, n), E)
<1>1. PICK x : x = interfaces[n]
  OBVIOUS
<1>2. n # 0 /\ Shown \subseteq DOMAIN interfaces
  BY ShownFacts
<1>3. NeedsInside(x, w) = {}
      /\ MentionsInside(x, w) = {Interface(u.name) : u \in
            {t \in TypesOf(x.requests) \cup TypesOf(x.events) : t.kind = "class"}}
  BY NameFacts
<1>4. ASSUME NEW t \in TypesOf(x.requests) \cup TypesOf(x.events), t.kind = "class"
      PROVE  Interface(t.name) \in HeaderNames \cup Declared(E)
  BY <1>1, <1>4, InterfaceKnown
<1>5. MentionsInside(x, w) \subseteq HeaderNames \cup Declared(E)
  BY <1>3, <1>4
<1>6. Inside(NeedsInside, Part(w, n)) = NeedsInside(x, w)
      /\ Inside(MentionsInside, Part(w, n)) = MentionsInside(x, w)
  BY <1>1, <1>2, PartInside
<1> QED
  BY <1>3, <1>5, <1>6 DEF Resolved

\* A new object is of a class that is referred to.
LEMMA NewFacts ==
    ASSUME ReadOK, EnumerationsTyped, NEW n \in DOMAIN interfaces, NEW x, x = interfaces[n],
           NEW q \in NewObjects(Sent(x))
    PROVE  Class(q) \in TypesOf(x.requests) \cup TypesOf(x.events)
<1>1. PICK a \in UNION {ToSet(m.args) : m \in ToSet(Sent(x))} : a.interface = q /\ a.interface # None
  BY DEF NewObjects
<1>2. print_type(a) = {Class(q)}
  BY <1>1 DEF print_type
<1>3. Class(q) \in TypesOf(Sent(x))
  BY <1>1, <1>2 DEF TypesOf
<1> QED
  BY <1>3, TypesFacts

LEMMA ClassBodyResolved ==
    ASSUME ReadOK, EnumerationsTyped, AllKnown, HeadersComplete, NEW pre, LeadsIn(pre), NEW E, ToSet(pre) \subseteq E,
           ToSet(ForEachButDisplay("class")) \subseteq E, NEW n \in Shown, NEW w, w = "class_body"
    PROVE  Resolved(Part(w, n), E)
<1>1. PICK x : x = interfaces[n]
  OBVIOUS
<1>2. n \in DOMAIN interfaces /\ n # 0
  BY ShownFacts
<1>3. /\ MentionsInside(x, w) =
            {Interface(x.name), Struct(x.orig_name)} \cup {Interface(q) : q \in NewObjects(Sent(x))}
      /\ NeedsInside(x, w) \subseteq
            {Class(x.name)} \cup TypesOf(Sent(x)) \cup TypesOf(Received(x)) \cup EnumsOf(x)
  BY NameFacts
<1>4. Struct(x.orig_name) \in Declared(E) /\ Interface(x.name) \in Declared(E)
  BY <1>1, <1>2, LeadDeclares
<1>5. \A m \in Shown : ClassNames(m) \subseteq Defined(E)
  BY ClassesDefine
<1>6. Class(x.name) \in Defined(E) /\ EnumsOf(x) \subseteq Defined(E)
  BY <1>1, <1>5 DEF ClassNames
<1>7. TypesOf(Sent(x)) \cup TypesOf(Received(x)) \subseteq TypesOf(x.requests) \cup TypesOf(x.events)
  BY <1>1, <1>2, TypesFacts
<1>8. \A t \in TypesOf(x.requests) \cup TypesOf(x.events) :
         t \in HeaderNames \/ t \in EnumsOf(x) \/ \E m \in Shown : t \in ClassNames(m)
  BY <1>1, <1>2, ReferredFacts
<1>9. NeedsInside(x, w) \subseteq HeaderNames \cup Defined(E)
  BY <1>3, <1>5, <1>6, <1>7, <1>8
<1>10. ASSUME NEW q \in NewObjects(Sent(x)) PROVE Interface(q) \in HeaderNames \cup Declared(E)
  <2>1. PICK t \in TypesOf(x.requests) \cup TypesOf(x.events) : t = Class(q)
    BY <1>1, <1>2, NewFacts
  <2>2. t.kind = "class" /\ t.name = q
    BY <2>1, KindFacts
  <2> QED
    BY <1>1, <1>2, <2>2, InterfaceKnown
<1>11. MentionsInside(x, w) \subseteq HeaderNames \cup Declared(E)
  BY <1>3, <1>4, <1>10
<1>12. Inside(NeedsInside, Part(w, n)) = NeedsInside(x, w)
       /\ Inside(MentionsInside, Part(w, n)) = MentionsInside(x, w)
  BY <1>1, <1>2, PartInside
<1> QED
  BY <1>9, <1>11, <1>12 DEF Resolved

LEMMA LineResolved ==
    ASSUME NEW p, p.k = 0, NEW E
    PROVE  Resolved(p, E)
BY DEF Resolved, Inside

LEMMA LeadResolved ==
    ASSUME ReadOK, NEW pre, LeadsIn(pre), NEW p \in ToSet(pre), NEW E
    PROVE  Resolved(p, E)
<1>1. CASE p.k = 0
  BY <1>1, LineResolved
<1>2. CASE \E n \in DOMAIN interfaces : \E w \in {"c_forward", "forward", "interface_header"} : p = Part(w, n)
  <2>1. PICK n \in DOMAIN interfaces : \E w \in {"c_forward", "forward", "interface_header"} : p = Part(w, n)
    BY <1>2
  <2>2. PICK w \in {"c_forward", "forward", "interface_header"} : p = Part(w, n)
    BY <2>1
  <2>3. w \notin {"class", "interface_body", "class_body"} /\ w # "class_body"
    OBVIOUS
  <2>4. n # 0
    BY ShownFacts
  <2>5. MentionsInside(interfaces[n], w) = {} /\ NeedsInside(interfaces[n], w) = {}
    BY <2>3, NameFacts
  <2>6. Inside(NeedsInside, p) = {} /\ Inside(MentionsInside, p) = {}
    BY <2>2, <2>4, <2>5, PartInside
  <2> QED
    BY <2>6 DEF Resolved
<1> QED
  BY <1>1, <1>2 DEF LeadsIn

\* In the whole text every name is known where it stands.
LEMMA TextResolved ==
    ASSUME ReadOK, EnumerationsTyped, AllKnown, HeadersComplete, IsSequence(map),
           files.hpp = HeaderIntro \o HeaderParts, files.cpp = BodyParts, NEW n \in DOMAIN Text
    PROVE  Resolved(Text[n], Earlier(Text, n))
<1>1. PICK pre : /\ LeadsIn(pre)
                 /\ HeaderIntro \o HeaderParts = (pre \o ForEachButDisplay("class")) \o <<Line("end")>>
  BY HeaderSplit
<1>2. PICK w1, w2, w3 : w1 = "class" /\ w2 = "interface_body" /\ w3 = "class_body"
  OBVIOUS
<1>3. PICK classes, last, hpp, cpp :
         /\ classes = ForEachButDisplay(w1) /\ last = <<Line("end")>> /\ cpp = BodyParts
         /\ hpp = (pre \o classes) \o last
  OBVIOUS
<1>4. files.hpp = hpp /\ files.cpp = cpp /\ Text = hpp \o cpp
  BY <1>1, <1>2, <1>3 DEF Text
<1>5. /\ IsSequence(pre) /\ IsSequence(classes) /\ IsSequence(last) /\ IsSequence(cpp)
      /\ \A p \in ToSet(last) : p.k = 0
      /\ ToSet(classes) = {Part(w1, m) : m \in Shown}
  <2>1. IsSequence(pre)
    BY <1>1 DEF LeadsIn
  <2>2. IsSequence(classes) /\ ToSet(classes) = {Part(w1, m) : m \in Shown}
    BY <1>3, PartsTyped, PartElements
  <2>3. IsSequence(last) /\ \A p \in ToSet(last) : p.k = 0
    BY <1>3, TupleSequences, LineElements
  <2> QED
    BY <1>3, <2>1, <2>2, <2>3, BodyElements
<1>6. PICK front : front = pre \o classes /\ IsSequence(front) /\ ToSet(front) = ToSet(pre) \cup ToSet(classes)
  BY <1>5, ConcatSequences, ConcatElements
<1>7. hpp = front \o last /\ IsSequence(hpp) /\ ToSet(hpp) = ToSet(front) \cup ToSet(last)
  BY <1>3, <1>5, <1>6, ConcatSequences, ConcatElements
<1>8. PICK p, E : p = Text[n] /\ E = Earlier(Text, n)
  OBVIOUS
<1>9. CASE p \in ToSet(cpp) /\ ToSet(hpp) \subseteq E
  <2>1. ToSet(pre) \subseteq E /\ ToSet(classes) \subseteq E
    BY <1>6, <1>7, <1>9
  <2>2. p.k = 0 \/ (\E m \in DOMAIN interfaces : p = Part(w2, m)) \/ (\E m \in Shown : p = Part(w3, m))
    BY <1>2, <1>3, <1>9, BodyElements
  <2>3. ASSUME p.k = 0 PROVE Resolved(p, E)
    BY <2>3, LineResolved
  <2>4. ASSUME NEW m \in DOMAIN interfaces PROVE Resolved(Part(w2, m), E)
    BY <1>1, <1>2, <2>1, TableResolved
  <2>5. ASSUME NEW m \in Shown PROVE Resolved(Part(w3, m), E)
    BY <1>1, <1>2, <1>3, <2>1, ClassBodyResolved
  <2> QED
    BY <1>8, <2>2, <2>3, <2>4, <2>5
<1>10. CASE p \in ToSet(last)
  BY <1>5, <1>8, <1>10, LineResolved
<1>11. CASE p \in ToSet(classes) /\ ToSet(pre) \subseteq E
  <2>1. PICK m \in Shown : p = Part(w1, m)
    BY <1>5, <1>11
  <2>2. Resolved(Part(w1, m), E)
    BY <1>1, <1>2, <1>11, ClassResolved
  <2> QED
    BY <1>8, <2>1, <2>2
<1>12. CASE p \in ToSet(pre)
  BY <1>1, <1>8, <1>12, LeadResolved
<1>13. \/ p \in ToSet(cpp) /\ ToSet(hpp) \subseteq E
       \/ n \in DOMAIN hpp /\ p = hpp[n] /\ E = Earlier(hpp, n)
  <2>1. n \in DOMAIN (hpp \o cpp)
    BY <1>4
  <2>2. \/ n \in DOMAIN hpp /\ (hpp \o cpp)[n] = hpp[n] /\ Earlier(hpp \o cpp, n) = Earlier(hpp, n)
        \/ (hpp \o cpp)[n] \in ToSet(cpp) /\ ToSet(hpp) \subseteq Earlier(hpp \o cpp, n)
    BY <1>5, <1>7, <2>1, Follows
  <2> QED
    BY <1>4, <1>8, <2>2
<1>14. ASSUME n \in DOMAIN hpp, p = hpp[n], E = Earlier(hpp, n)
       PROVE  p \in ToSet(last) \/ (n \in DOMAIN front /\ p = front[n] /\ E = Earlier(front, n))
  <2>1. n \in DOMAIN (front \o last)
    BY <1>7, <1>14
  <2>2. \/ n \in DOMAIN front /\ (front \o last)[n] = front[n] /\ Earlier(front \o last, n) = Earlier(front, n)
        \/ (front \o last)[n] \in ToSet(last) /\ ToSet(front) \subseteq Earlier(front \o last, n)
    BY <1>5, <1>6, <2>1, Follows
  <2> QED
    BY <1>7, <1>14, <2>2
<1>15. ASSUME n \in DOMAIN front, p = front[n], E = Earlier(front, n)
       PROVE  p \in ToSet(pre) \/ (p \in ToSet(classes) /\ ToSet(pre) \subseteq E)
  <2>1. n \in DOMAIN (pre \o classes)
    BY <1>6, <1>15
  <2>2. \/ n \in DOMAIN pre /\ (pre \o classes)[n] = pre[n] /\ Earlier(pre \o classes, n) = Earlier(pre, n)
        \/ (pre \o classes)[n] \in ToSet(classes) /\ ToSet(pre) \subseteq Earlier(pre \o classes, n)
    BY <1>5, <2>1, Follows
  <2>3. n \in DOMAIN pre => pre[n] \in ToSet(pre)
    BY DEF ToSet
  <2> QED
    BY <1>6, <1>15, <2>2, <2>3
<1> QED
  BY <1>9, <1>10, <1>11, <1>12, <1>13, <1>14, <1>15

\* The names of interfaces stay apart without their prefixes.
NamesApart ==
    \A x, y \in AllInterfaces : unprefix(x.name) = unprefix(y.name) => x.name = y.name

AllEnums == UNION {ToSet(x.enums) : x \in ToSet(interfaces)}

\* No id is given twice.
IdsOK ==
    /\ \A d \in AllEnums : d.id \in Nat /\ d.id < enum_id
    /\ \A d, e \in AllEnums : d.id = e.id => d = e

LEMMA IdsInit == Init => IdsOK
<1> SUFFICES ASSUME Init PROVE IdsOK
  OBVIOUS
<1>1. interfaces = <<>>
  BY DEF Init
<1>2. AllEnums = {}
  BY <1>1 DEF AllEnums, ToSet
<1> QED
  BY <1>2 DEF IdsOK

LEMMA IdsStep == ReadOK /\ IdsOK /\ [Next]_vars => IdsOK'
<1> SUFFICES ASSUME ReadOK, IdsOK, [Next]_vars PROVE IdsOK'
  OBVIOUS
<1>1. ASSUME UNCHANGED <<interfaces, enum_id>> PROVE IdsOK'
  BY <1>1 DEF IdsOK, AllEnums
<1>2. CASE ReadInterface
  <2> DEFINE doc == Content(extra[c])
             new == Parsed(doc[i], enum_id)
             ok  == i <= Len(doc) /\ ~Malformed(doc[i])
  <2>1. /\ interfaces' = IF ok THEN Append(interfaces, new) ELSE interfaces
        /\ enum_id' = IF ok THEN enum_id + Len(doc[i].enums) ELSE enum_id
    BY <1>2 DEF ReadInterface
  <2>2. CASE ~ok
    BY <1>1, <2>1, <2>2
  <2>3. CASE ok
    <3>1. PICK x : x = doc[i] /\ x \in AllInterfaces
      BY <2>3, DocFacts
    <3>2. PICK es : es = new.enums
      OBVIOUS
    <3>3. IsSequence(x.enums)
      BY <3>1, DocumentsAssumption DEF AllInterfaces
    <3>4. PICK L \in Nat : L = Len(x.enums) /\ DOMAIN x.enums = 1..L
      BY <3>3 DEF IsSequence
    <3>5. es = ParsedEnums(x, enum_id)
      BY <3>1, <3>2 DEF Parsed
    <3>6. DOMAIN es = 1..L /\ \A n \in 1..L : es[n].id = enum_id + n - 1
      BY <3>4, <3>5 DEF ParsedEnums
    <3>7. enum_id \in Nat /\ enum_id' = enum_id + L
      BY <2>1, <2>3, <3>1, <3>4 DEF ReadOK
    <3>8. \A d \in ToSet(es) : \E n \in 1..L : d = es[n]
      BY <3>6 DEF ToSet
    <3> HIDE DEF doc, ok
    <3>9. AllEnums' = AllEnums \cup ToSet(es)
      <4>1. PICK S, nw : S = ReadInterfaces \cup {nw} /\ nw = new
        OBVIOUS
      <4>2. PICK s \in Seq(S) : s = interfaces
        <5>1. interfaces \in Seq(ReadInterfaces) /\ ReadInterfaces \subseteq S
          BY <4>1 DEF ReadOK
        <5> QED
          BY <5>1, SeqMonotonic
      <4>3. interfaces' = Append(s, nw) /\ nw \in S
        BY <2>1, <2>3, <4>1, <4>2
      <4>4. ToSet(Append(s, nw)) = ToSet(s) \cup {nw}
        <5>1. /\ Len(s) \in Nat /\ DOMAIN s = 1..Len(s) /\ DOMAIN Append(s, nw) = 1..Len(s) + 1
              /\ Append(s, nw)[Len(s) + 1] = nw
              /\ \A n \in 1..Len(s) : Append(s, nw)[n] = s[n]
          BY <4>3, AppendProperties, LenProperties
        <5>2. \A n \in 1..Len(s) + 1 : n \in 1..Len(s) \/ n = Len(s) + 1
          BY <5>1
        <5>3. Len(s) + 1 \in 1..Len(s) + 1 /\ \A n \in 1..Len(s) : n \in 1..Len(s) + 1
          BY <5>1
        <5>4. ToSet(Append(s, nw)) \subseteq ToSet(s) \cup {nw}
          BY <5>1, <5>2 DEF ToSet
        <5>5. ToSet(s) \cup {nw} \subseteq ToSet(Append(s, nw))
          BY <5>1, <5>3 DEF ToSet
        <5> QED
          BY <5>4, <5>5
      <4>5. ToSet(interfaces') = ToSet(interfaces) \cup {nw} /\ nw.enums = es
        BY <3>2, <4>1, <4>2, <4>3, <4>4
      <4>6. AllEnums' = UNION {ToSet(y.enums) : y \in ToSet(interfaces')}
        BY DEF AllEnums
      <4> QED
        BY <4>5, <4>6 DEF AllEnums
    <3>10. \A d \in AllEnums : d.id \in Nat /\ d.id < enum_id
      BY DEF IdsOK
    <3>11. \A d \in ToSet(es) : d.id \in Nat /\ d.id < enum_id' /\ ~(d.id < enum_id)
      BY <3>6, <3>7, <3>8
    <3>12. \A d, e \in ToSet(es) : d.id = e.id => d = e
      <4> SUFFICES ASSUME NEW m \in 1..L, NEW n \in 1..L, es[m].id = es[n].id PROVE es[m] = es[n]
        BY <3>8
      <4>1. enum_id + m - 1 = enum_id + n - 1
        BY <3>6
      <4>2. m = n
        BY <3>7, <4>1
      <4> QED
        BY <4>2
    <3>13. \A d \in AllEnums' : d.id \in Nat /\ d.id < enum_id'
      BY <3>7, <3>9, <3>10, <3>11
    <3>14. \A d, e \in AllEnums' : d.id = e.id => d = e
      <4>1. \A d, e \in AllEnums : d.id = e.id => d = e
        BY DEF IdsOK
      <4> QED
        BY <3>9, <3>10, <3>11, <3>12, <4>1
    <3> QED
      BY <3>13, <3>14 DEF IdsOK
  <2> QED
    BY <2>2, <2>3
<1>3. CASE parse_args \/ CheckUsage \/ OpenFiles \/ OpenServerFiles \/ PrintHeader \/ PrintBody
           \/ UNCHANGED vars
  BY <1>1, <1>3 DEF parse_args, CheckUsage, OpenFiles, OpenServerFiles, PrintHeader, PrintBody, vars,
     readVars
<1> QED
  BY <1>2, <1>3 DEF Next

LEMMA NamesHold ==
    ASSUME EnumerationsTyped, NamesApart, HeadersComplete, ReadOK, FilesOK, IdsOK
    PROVE  NamesResolve
<1> SUFFICES ASSUME phase = "done" PROVE NamesResolve
  BY DEF NamesResolve
<1>1. \A x, y \in ToSet(interfaces) : x.name = y.name => x.orig_name = y.orig_name
  <2>1. \A x \in ToSet(interfaces) : x \in ReadInterfaces
    BY DEF ReadOK, ToSet
  <2>2. \A x \in ToSet(interfaces) : \E y \in AllInterfaces :
           x.name = unprefix(y.name) /\ x.orig_name = y.name
    BY <2>1 DEF ReadInterfaces, Parsed
  <2> QED
    BY <2>2 DEF NamesApart
<1>2. \A d, e \in Bitfields : <<d.width, d.id>> = <<e.width, e.id>> => d = e
  <2>1. Bitfields \subseteq AllEnums
    BY DEF Bitfields, AllEnums
  <2> QED
    BY <2>1 DEF IdsOK
<1>3. ASSUME AllKnown, NEW n \in DOMAIN Text
      PROVE  LET defined == HeaderNames \cup Before(n, DefinesInside) IN
                /\ Inside(NeedsInside, Text[n]) \subseteq defined
                /\ Inside(MentionsInside, Text[n]) \subseteq
                      defined \cup Before(n, DeclaresInside) \cup Inside(DeclaresInside, Text[n])
  <2>1. IsSequence(map) /\ files.hpp = HeaderIntro \o HeaderParts /\ files.cpp = BodyParts
    BY DEF FilesOK
  <2>2. Resolved(Text[n], Earlier(Text, n))
    BY <1>3, <2>1, TextResolved
  <2>3. Defined(Earlier(Text, n)) = Before(n, DefinesInside)
    BY DEF Defined, Earlier, Before
  <2>4. Declared(Earlier(Text, n)) = Before(n, DeclaresInside)
    BY DEF Declared, Earlier, Before
  <2> QED
    BY <2>2, <2>3, <2>4 DEF Resolved
<1> QED
  BY <1>1, <1>2, <1>3 DEF NamesResolve, AllKnown

\* Every name in the generated text denotes one thing, which the compiler has
\* seen where it is used, for any protocols whose names stay apart without
\* their prefixes: print_forward(), print_client_header(), print_server_header()
\* and print_*_body() in the order in which main() calls them (scanner.cpp).
THEOREM NamesResolveCorrect ==
    ASSUME EnumerationsTyped, NamesApart, HeadersComplete
    PROVE  Spec => []NamesResolve
<1>1. Init => ReadOK /\ IdsOK
  BY ReadInit, IdsInit
<1>2. (ReadOK /\ IdsOK) /\ [Next]_vars => (ReadOK /\ IdsOK)'
  BY ReadStep, IdsStep
<1>3. Spec => [](ReadOK /\ IdsOK)
  BY <1>1, <1>2, PTL DEF Spec
<1>4. ReadOK /\ IdsOK /\ FilesOK => NamesResolve
  BY NamesHold
<1> QED
  BY <1>3, <1>4, FilesHold, PTL
=============================================================================
