-------------------------------- MODULE Wire --------------------------------
(***************************************************************************)
(* Messages between a client and a server that both use waylandpp: what    *)
(* the scanner generates for each message of a protocol (signature, types, *)
(* opcode, call and dispatcher), what argument_t and the two c_dispatcher  *)
(* functions do with the arguments in between, and the versions of objects *)
(* along bind and creation.                                                *)
(*                                                                         *)
(* A value is an integer: a string, an array and a file are numbered, a    *)
(* fixed point number counts 1/512 in the program and 1/256 on the wire,   *)
(* an object is its id, and 0 is the null object.  libwayland appears as   *)
(* what it does with the messages: it reads the arguments by the           *)
(* signature, refuses what its checks refuse, keeps the order, and knows   *)
(* the objects of its side.                                                *)
(***************************************************************************)
EXTENDS Integers, Sequences, FiniteSets

CONSTANTS
  Interfaces,   \* the interfaces of the protocol
  Globals,      \* those that the server offers in its registry
  Protocol,     \* what the XML of the latest release says of an interface
  Releases,     \* the releases the two programs may have been built from
  MaxObjects,   \* bound: objects created by the client
  MaxInFlight,  \* bound: messages under way
  DataOf(_),    \* the values of an argument type that carries data
  Habits        \* usages beyond what a careful program does, see below

Sides   == {"client", "server"}
Objects == 1 .. MaxObjects
Peer(side) == IF side = "client" THEN "server" ELSE "client"

\* The attribute of the XML is not there.
NoInterface == ""

(***************************************************************************)
(* "trust_can":  the server asks can_X() of an object that a request       *)
(*               created, and of nothing else;                             *)
(* "null_typed": the client sends null where a request has an interface    *)
(*               and allows null;                                          *)
(* "offer":      the server sends an event that introduces an object.      *)
(***************************************************************************)
AllHabits == {"trust_can", "null_typed", "offer"}

(***************************************************************************)
(* The protocol: messages of an interface are only ever appended, each     *)
(* with the release it came with; a request creates one object at most,    *)
(* which is no global.  The one message whose new object has no interface  *)
(* is wl_registry.bind, which is BindMessage below.  A request "destroy"   *)
(* has no arguments and is as old as what introduces the objects it is     *)
(* for: proxy_release() sends it to all of them, with nothing in it.       *)
(***************************************************************************)
ObjectTypes == {"object", "new_id"}
DataTypes   == {"int", "uint", "fixed", "string", "array", "fd"}
Argument    == [type : DataTypes, interface : {NoInterface}, allow_null : BOOLEAN]
                 \cup [type : ObjectTypes, interface : Interfaces \cup {NoInterface},
                       allow_null : BOOLEAN]
Messages    == [name : STRING, since : Nat \ {0}, args : Seq(Argument)]

Carried(m, type) == {k \in DOMAIN m.args : m.args[k].type = type}

\* The messages of the protocol.
Lists  == {Protocol[i].requests : i \in Interfaces} \cup {Protocol[i].events : i \in Interfaces}
Spoken == UNION {{list[k] : k \in DOMAIN list} : list \in Lists}

\* Destruction takes place through the class destructor.
DestroyRequest(list) == {k \in DOMAIN list : list[k].name = "destroy"}

ASSUME ProtocolAssumption ==
  /\ Globals \subseteq Interfaces /\ NoInterface \notin Interfaces
  /\ Releases \subseteq Nat \ {0}
  /\ Protocol \in [Interfaces -> [version : Nat \ {0}, requests : Seq(Messages),
                                 events : Seq(Messages)]]
  /\ \A i \in Interfaces : \A list \in {Protocol[i].requests, Protocol[i].events} :
       \A k \in DOMAIN list :
         /\ list[k].since <= Protocol[i].version
         /\ \A j \in 1 .. k : list[j].since <= list[k].since
         /\ \A a, b \in Carried(list[k], "new_id") : a = b
         /\ \A a \in Carried(list[k], "new_id") :
              list[k].args[a].interface \in Interfaces \ Globals
  /\ \A i \in Interfaces : \A k \in DestroyRequest(Protocol[i].requests) :
       LET destroy == Protocol[i].requests[k]
       IN  /\ destroy.args = <<>>
           /\ i \in Globals => destroy.since = 1
           /\ \A m \in Spoken : \A a \in Carried(m, "new_id") :
                m.args[a].interface = i => destroy.since <= m.since

ASSUME DataAssumption == DataOf("fixed") \subseteq Int
ASSUME BoundsAssumption == MaxObjects \in Nat /\ MaxInFlight \in Nat
ASSUME HabitsAssumption == Habits \subseteq AllHabits

VARIABLES
  release,    \* the release each program was built from
  proxies,    \* the client's objects: interface and version, by id
  zombies,    \* those the client has destroyed, which libwayland remembers
  resources,  \* the server's objects
  under_way,  \* the messages to each side, in order
  status      \* what became of the connection

vars == <<release, proxies, zombies, resources, under_way, status>>

-----------------------------------------------------------------------------
(* What the scanner generates.                                             *)

\* The description that was compiled into a program of release r: of each list
\* the first part, as later releases only append.
Xml == [r \in Releases |-> [i \in Interfaces |->
  LET Then(list) == [k \in {k \in DOMAIN list : list[k].since <= r} |-> list[k]]
  IN  [version  |-> IF r < Protocol[i].version THEN r ELSE Protocol[i].version,
       requests |-> Then(Protocol[i].requests),
       events   |-> Then(Protocol[i].events)]]]

Described(side, i) == Xml[release[side]][i]

\* The messages an object of interface i receives at a side, in XML order.
Incoming(side, i) ==
  IF side = "server" THEN Described(side, i).requests ELSE Described(side, i).events

Outgoing(side, i) ==
  IF side = "client" THEN Described(side, i).requests ELSE Described(side, i).events

\* Mutant: only messages that get a function are counted.
Opcode_NoDestroy(list, k) == k - 1 - Cardinality({d \in DestroyRequest(list) : d < k})

\* Opcodes count the messages in XML order, "destroy" included.
Opcode(list, k) == k - 1

\* The switch of the generated dispatcher counts by itself.
Case(list, opcode) == list[opcode + 1]

print_short ==
  [int |-> "i", uint |-> "u", fixed |-> "f", string |-> "s",
   object |-> "o", new_id |-> "n", array |-> "a", fd |-> "h"]

\* A number counts as one character.
Digits == "digits"

\* The signature of a message, character by character: the release, if it is not
\* the first; then a letter for each argument, behind "?" if it may be null.
Prefix(m) == IF m.since > 1 THEN 1 ELSE 0

Nulls(m, k) == Cardinality({j \in 1 .. k : m.args[j].allow_null})

Place(m, k) == Prefix(m) + k + Nulls(m, k)

Signature == [m \in Spoken |->
  LET At(p) == {k \in DOMAIN m.args : Place(m, k) = p}
  IN  [p \in 1 .. Place(m, Len(m.args)) |->
        IF At(p) /= {} THEN print_short[m.args[CHOOSE k \in At(p) : TRUE].type]
        ELSE IF p <= Prefix(m) THEN Digits ELSE "?"]]

\* The table of types beside the signature: one entry for each argument.
TypeAt(m, c) == IF c \in DOMAIN m.args THEN m.args[c].interface ELSE NoInterface

\* The type the generated dispatcher asks of any::get (an fd is an int,
\* which is int32_t; an enumeration is cast from its wire type).
DispatchedType(arg) ==
  CASE arg.type \in {"int", "fd"}        -> "int32_t"
    [] arg.type = "uint"                 -> "uint32_t"
    [] arg.type = "fixed"                -> "double"
    [] arg.type = "string"               -> "string"
    [] arg.type = "array"                -> "array_t"
    [] arg.type \in {"object", "new_id"} -> "object"

-----------------------------------------------------------------------------
(* From the arguments of a call to the body of a message.                  *)

\* wl_fixed_from_double: rounds to 1/256.
FixedFromDouble(d) == (d + 1) \div 2
FixedToDouble(f) == 2 * f

\* argument_t for what the generated function passes on: the member of the
\* union that is set, and its value.
argument_t(arg, v) ==
  [field |-> print_short[arg.type],
   value |-> CASE arg.type = "new_id" -> 0
               [] arg.type = "fixed"  -> FixedFromDouble(v)
               [] OTHER               -> v]

CallArguments(m, args) == [k \in DOMAIN m.args |-> argument_t(m.args[k], args[k])]

\* The c-th of the places P, and what a signature has at them.
Nth(P, c) == CHOOSE p \in P : Cardinality({q \in P : q <= p}) = c

AtPlaces(sig, P) == [c \in 1 .. Cardinality(P) |-> sig[Nth(P, c)]]

\* How libwayland reads a signature: letters, each perhaps behind "?".
LetterPlaces(m) == {p \in DOMAIN Signature[m] : Signature[m][p] \notin {"?", Digits}}

Letters == [m \in Spoken |-> AtPlaces(Signature[m], LetterPlaces(m))]

Optional == [m \in Spoken |->
  {c \in DOMAIN Letters[m] :
     LET p == Nth(LetterPlaces(m), c) IN p > 1 /\ Signature[m][p - 1] = "?"}]

\* The null object where the signature does not allow it, as libwayland sees
\* it when it marshals.  A constructor has put the new object in already.
RefusesToSend(m, cargs, new) ==
  \E c \in DOMAIN cargs :
    \/ cargs[c].field = "n" /\ new = 0
    \/ cargs[c].field = "o" /\ cargs[c].value = 0 /\ c \notin Optional[m]

\* Reading another member of the union than was written, or beyond the end.
Garbage == -1

Body(m, cargs, new) ==
  [c \in DOMAIN Letters[m] |->
    CASE c \notin DOMAIN cargs -> Garbage
      [] c \in DOMAIN cargs /\ Letters[m][c] = "n" -> new
      [] OTHER -> IF cargs[c].field = Letters[m][c] THEN cargs[c].value ELSE Garbage]

-----------------------------------------------------------------------------
(* From the body of a message to the arguments of a handler.               *)

\* The cases of the switch in c_dispatcher.
AnyType ==
  [i |-> "int32_t", h |-> "int32_t", u |-> "uint32_t", f |-> "double",
   s |-> "string", o |-> "object", n |-> "object", a |-> "array_t"]

AnyOf(ch, value) ==
  IF ch \in DOMAIN AnyType
  THEN [type |-> AnyType[ch], value |-> IF ch = "f" THEN FixedToDouble(value) ELSE value]
  ELSE [type |-> "int32_t", value |-> 0]

\* Mutant: optional arguments are forgotten.
Skipped_Digits(ch) == ch = Digits

\* The loop: it skips "?" and digits and counts the rest.
Skipped(ch) == ch = "?" \/ ch = Digits

ReadPlaces(m) == {p \in DOMAIN Signature[m] : ~Skipped(Signature[m][p])}

Read == [m \in Spoken |-> AtPlaces(Signature[m], ReadPlaces(m))]

Decode(m, body) ==
  [c \in DOMAIN Read[m] |->
    AnyOf(Read[m][c], IF c \in DOMAIN body THEN body[c] ELSE Garbage)]

\* any::get throws std::bad_cast.
BadCast(m, vargs) ==
  \E c \in DOMAIN m.args :
    c \notin DOMAIN vargs \/ vargs[c].type /= DispatchedType(m.args[c])

Handed(m, vargs) == [c \in DOMAIN m.args |-> vargs[c].value]

-----------------------------------------------------------------------------
(* The two programs and libwayland between them.                           *)

NoObject == [interface |-> NoInterface, version |-> 0]

Table(side) == IF side = "client" THEN proxies ELSE resources

Exists(side, o) == Table(side)[o] /= NoObject

\* What a program holds: the server keeps what the client has destroyed.
Held(side) ==
  {o \in Objects : Exists(side, o) /\ (side = "client" => o \notin zombies)}

InFlight == Len(under_way["client"]) + Len(under_way["server"])

\* The id libwayland gives to the client's next object, none when the bound
\* is reached.
NextId == {o \in Objects : \A p \in Objects : p < o <=> Exists("client", p)}

\* print_body, availability: the version of the object.
can_(side, o, m) == Table(side)[o].version >= m.since

\* Values a program may pass for an argument.
ArgumentValues(side, arg) ==
  CASE arg.type = "new_id" -> {0}
    [] arg.type = "object" ->
         {o \in Held(side) : arg.interface \in {NoInterface, Table(side)[o].interface}}
         \cup {null \in {0} :
                 /\ arg.allow_null
                 /\ \/ side = "server" \/ arg.interface = NoInterface
                    \/ "null_typed" \in Habits}
    [] OTHER -> DataOf(arg.type)

ArgumentLists(side, m) ==
  LET values(k) == ArgumentValues(side, m.args[k])
  IN  {args \in [DOMAIN m.args -> UNION {values(k) : k \in DOMAIN m.args}] :
         \A k \in DOMAIN m.args : args[k] \in values(k)}

\* A message on its way: where to, its opcode and its body; and, for the
\* properties, the call it stands for.
Message(o, opcode, m, args, new) ==
  [object |-> o, opcode |-> opcode, body |-> Body(m, CallArguments(m, args), new),
   message |-> m, args |-> args, new |-> new]

\* Sending ends the connection if libwayland refuses to marshal.
Send(side, o, opcode, m, args, new) ==
  IF RefusesToSend(m, CallArguments(m, args), new)
  THEN /\ status' = "refused"
       /\ UNCHANGED under_way
  ELSE /\ under_way' = [under_way EXCEPT ![Peer(side)] =
                          Append(@, Message(o, opcode, m, args, new))]
       /\ UNCHANGED status

CanSend == status = "open" /\ InFlight < MaxInFlight

\* wl_registry.bind, of libwayland's own description, and the call of it: the
\* generated function puts the name of the interface and the version before the
\* new object.
BindMessage == [name |-> "bind", since |-> 1, args |-> <<>>]

Registry == 0

BindCall(i, version, o) ==
  [object |-> Registry, opcode |-> 0, body |-> <<1, i, version, o>>,
   message |-> BindMessage, args |-> <<>>, new |-> o]

\* registry_t::bind(name, proxy, version): the version is the one asked for.
Bind(i, version) ==
  /\ CanSend
  /\ version <= Described("client", i).version
  /\ version <= Described("server", i).version
  /\ \E o \in NextId :
       /\ proxies' = [proxies EXCEPT ![o] = [interface |-> i, version |-> version]]
       /\ under_way' = [under_way EXCEPT !["server"] = Append(@, BindCall(i, version, o))]
  /\ UNCHANGED <<release, zombies, resources, status>>

\* A generated request function: marshal or, with a new object, that inherits
\* the version, marshal_constructor.  There is none for "destroy".
Request(o, k) ==
  LET list == Outgoing("client", proxies[o].interface)
      m    == list[k]
  IN  /\ CanSend
      /\ k \notin DestroyRequest(list) /\ can_("client", o, m)
      /\ \E args \in ArgumentLists("client", m) :
           IF Carried(m, "new_id") = {}
           THEN /\ Send("client", o, Opcode(list, k), m, args, 0)
                /\ UNCHANGED proxies
           ELSE \E new \in NextId, a \in Carried(m, "new_id") :
                  /\ proxies' = [proxies EXCEPT ![new] =
                       [interface |-> m.args[a].interface, version |-> proxies[o].version]]
                  /\ Send("client", o, Opcode(list, k), m, args, new)
      /\ UNCHANGED <<release, zombies, resources>>

\* The last handle of a proxy goes: proxy_t sends the destroy request, if
\* the interface has one, and destroys the proxy.
Release(o) ==
  LET list == Outgoing("client", proxies[o].interface)
  IN  /\ CanSend
      /\ zombies' = zombies \cup {o}
      /\ IF DestroyRequest(list) = {}
         THEN UNCHANGED <<under_way, status>>
         ELSE \E k \in DestroyRequest(list) :
                Send("client", o, Opcode(list, k), list[k], <<>>, 0)
      /\ UNCHANGED <<release, proxies, resources>>

\* A generated event function; posting and queueing keep the same order.  A
\* careful server does not rely on can_X() alone, and leaves alone what
\* would introduce an object.
Event(o, k) ==
  LET list == Outgoing("server", resources[o].interface)
      m    == list[k]
  IN  /\ CanSend
      /\ can_("server", o, m)
      /\ "trust_can" \notin Habits => m.since <= proxies[o].version
      /\ "offer" \notin Habits => Carried(m, "new_id") = {}
      /\ \E args \in ArgumentLists("server", m) :
           Send("server", o, Opcode(list, k), m, args, 0)
      /\ UNCHANGED <<release, proxies, zombies, resources>>

\* What libwayland refuses when a message arrives: a target that is not there, an
\* opcode beyond the description, a request that is too new, an object that is
\* not there or of another interface.
Known(side, msg) ==
  /\ Exists(side, msg.object)
  /\ msg.opcode + 1 \in DOMAIN Incoming(side, Table(side)[msg.object].interface)

Received(side, msg) == Case(Incoming(side, Table(side)[msg.object].interface), msg.opcode)

Accepts(side, msg) ==
  /\ Known(side, msg)
  /\ LET m == Received(side, msg)
         read == Letters[m]
     IN  /\ side = "server" => m.since <= resources[msg.object].version
         /\ DOMAIN read = DOMAIN msg.body
         /\ \A c \in DOMAIN read :
              (read[c] = "o" /\ msg.body[c] /= 0) =>
                /\ msg.body[c] \in Objects /\ Exists(side, msg.body[c])
                /\ TypeAt(m, c) \in {NoInterface, Table(side)[msg.body[c]].interface}

\* An object that the client has destroyed meanwhile arrives as null.
AsSeen(side, m, body) ==
  [c \in DOMAIN body |->
    IF side = "client" /\ Letters[m][c] = "o" /\ body[c] \in zombies
    THEN 0 ELSE body[c]]

\* What c_dispatcher passes to the generated dispatcher.
Arguments(side, msg) ==
  LET m == Received(side, msg) IN Decode(m, AsSeen(side, m, msg.body))

\* resource_t(client, interface, version, id).
resource_t(i, version, id) ==
  [resources EXCEPT ![id] = [interface |-> i, version |-> version]]

\* Mutant: one of the two places is put right.
generated_t_Repaired(i, id, version) == resource_t(i, version, id)

\* The generated constructor declares (client, id, version) and hands its
\* arguments on in this order, to parameters in the other.
generated_t(i, id, version) == resource_t(i, id, version)

\* Mutant: the version is that of the description, as for new objects.
bind_func_Latest(i, version, id) == resource_t(i, Described("server", i).version, id)

\* global_t::bind_func passes the version first as well.
bind_func(i, version, id) == generated_t(i, version, id)

\* Mutant: version 1.
Created_One(msg) ==
  LET m == Received("server", msg)
      new == Carried(m, "new_id")
  IN  IF new = {} THEN resources
      ELSE LET c == CHOOSE c \in new : TRUE IN resource_t(TypeAt(m, c), 1, msg.body[c])

\* case 'n': the interface of the types table, in its latest version.
Created(msg) ==
  LET m == Received("server", msg)
      read == Letters[m]
      new == {c \in DOMAIN read : read[c] = "n"}
  IN  IF new = {} THEN resources
      ELSE LET c == CHOOSE c \in new : TRUE
           IN  resource_t(TypeAt(m, c), Described("server", TypeAt(m, c)).version,
                          msg.body[c])

\* The generated dispatcher gives a resource its class, which a null one does
\* not survive.
NullResource(m, vargs) ==
  \E c \in DOMAIN m.args :
    m.args[c].interface /= NoInterface /\ vargs[c].value = 0

\* What the call of a handler comes to; an event without handler is skipped.
Handled(side, msg, heard) ==
  LET m == Received(side, msg)
      vargs == Arguments(side, msg)
  IN  CASE ~heard                                      -> "open"
        [] heard /\ BadCast(m, vargs)                  -> "threw"
        [] heard /\ ~BadCast(m, vargs) ->
             IF side = "server" /\ NullResource(m, vargs) THEN "crashed" ELSE "open"

HandleBind ==
  /\ status = "open" /\ under_way["server"] /= <<>>
  /\ LET msg == Head(under_way["server"])
     IN  /\ msg.object = Registry
         /\ resources' = bind_func(msg.body[2], msg.body[3], msg.body[4])
  /\ under_way' = [under_way EXCEPT !["server"] = Tail(@)]
  /\ UNCHANGED <<release, proxies, zombies, status>>

HandleRequest ==
  /\ status = "open" /\ under_way["server"] /= <<>>
  /\ LET msg == Head(under_way["server"])
     IN  /\ msg.object /= Registry
         /\ IF Accepts("server", msg)
            THEN /\ resources' = Created(msg)
                 /\ \E heard \in BOOLEAN : status' = Handled("server", msg, heard)
            ELSE status' = "refused" /\ UNCHANGED resources
  /\ under_way' = [under_way EXCEPT !["server"] = Tail(@)]
  /\ UNCHANGED <<release, proxies, zombies>>

\* libwayland drops events for a proxy that was destroyed.
HandleEvent ==
  /\ status = "open" /\ under_way["client"] /= <<>>
  /\ LET msg == Head(under_way["client"])
     IN  CASE msg.object \in zombies -> UNCHANGED status
           [] msg.object \notin zombies /\ Accepts("client", msg) ->
                \E heard \in BOOLEAN : status' = Handled("client", msg, heard)
           [] OTHER -> status' = "refused"
  /\ under_way' = [under_way EXCEPT !["client"] = Tail(@)]
  /\ UNCHANGED <<release, proxies, zombies, resources>>

Init ==
  /\ release \in [Sides -> Releases]
  /\ proxies = [o \in Objects |-> NoObject]
  /\ zombies = {}
  /\ resources = [o \in Objects |-> NoObject]
  /\ under_way = [side \in Sides |-> <<>>]
  /\ status = "open"

Next ==
  \/ \E i \in Globals, v \in Releases : Bind(i, v)
  \/ \E o \in Held("client") :
       \/ \E k \in DOMAIN Outgoing("client", proxies[o].interface) : Request(o, k)
       \/ Release(o)
  \/ \E o \in Held("server") :
       \E k \in DOMAIN Outgoing("server", resources[o].interface) : Event(o, k)
  \/ HandleBind
  \/ HandleRequest
  \/ HandleEvent

Spec == Init /\ [][Next]_vars

-----------------------------------------------------------------------------
(* Properties.                                                             *)

\* Type invariant.
WireTypeOK ==
  LET Entry == [interface : Interfaces \cup {NoInterface}, version : Nat]
  IN  /\ release \in [Sides -> Releases]
      /\ proxies \in [Objects -> Entry] /\ resources \in [Objects -> Entry]
      /\ zombies \subseteq Objects
      /\ DOMAIN under_way = Sides /\ InFlight <= MaxInFlight
      /\ \A side \in Sides : \A p \in DOMAIN under_way[side] :
           under_way[side][p].object \in Objects \cup {Registry}
      /\ status \in {"open", "refused", "threw", "crashed"}

\* What programs do by the rules never makes libwayland refuse a message (it
\* would end the connection), makes any::get throw in a dispatcher, or makes
\* the server touch a resource that is not there: also when the programs were
\* built from different releases, ask for an older version than they could,
\* and name objects that were created or destroyed a moment ago.
ConnectionHolds == status = "open"

\* The message that a side handles next, unless it is for a dead proxy.
NextMessage(side) ==
  {Head(under_way[side]) : n \in {1} \cap DOMAIN under_way[side]}

ToHandler(side) ==
  {msg \in NextMessage(side) : /\ msg.object \notin {Registry} \cup
                                    (IF side = "client" THEN zombies ELSE {})
                               /\ Accepts(side, msg)}

\* What a handler gets for an argument that was sent.
Arrived(side, arg, sent, got, new) ==
  CASE arg.type = "fixed"  -> got - sent \in -1 .. 1
    [] arg.type = "new_id" -> got = new
    [] arg.type = "object" -> \/ got = sent
                              \/ side = "client" /\ sent \in zombies /\ got = 0
    [] OTHER               -> got = sent

\* The handler that runs is the one of the message that was called, although
\* opcodes are counted in three places and one request has no function; and it
\* gets the arguments of the call, each in its place: what the generated
\* function packs, what the signature says and what the dispatcher unpacks
\* agree for optional arguments, for new objects (which the caller does not
\* pass) and behind a digit.  A fixed point number may lose up to 1/512, and an
\* object that the client has destroyed is null.
ArgumentsArrive ==
  \A side \in Sides : \A msg \in ToHandler(side) :
    LET m == Received(side, msg)
        vargs == Arguments(side, msg)
    IN  /\ m = msg.message
        /\ ~BadCast(m, vargs) =>
             \A c \in DOMAIN m.args :
               Arrived(side, m.args[c], msg.args[c], Handed(m, vargs)[c], msg.new)

\* Both sides take an id for an object of the same interface, from when the
\* server knows it: creation gets it from the types table of the server, the
\* client from that of the client.  A bound object has the version that the
\* client asked for, although the version passes for an id and back on its way
\* to wl_resource_create.
ObjectsAgree ==
  \A o \in Objects : Exists("server", o) =>
    /\ proxies[o].interface = resources[o].interface
    /\ resources[o].interface \in Globals => resources[o].version = proxies[o].version

\* A request that is available to the client in its version of an object is
\* known to the server and not too new for its resource, whatever way the
\* object came to its version on each side.
RequestsKnown ==
  \A o \in Objects : Exists("server", o) =>
    LET sent == Outgoing("client", proxies[o].interface)
        known == Incoming("server", resources[o].interface)
    IN  \A k \in DOMAIN sent : can_("client", o, sent[k]) =>
          /\ k \in DOMAIN known /\ known[k].since = sent[k].since
          /\ known[k].since <= resources[o].version

\* What the documentation of can_X() promises a server: an event that it
\* found available is one of the version the client has bound.
EventsKnown ==
  \A msg \in NextMessage("client") :
    msg.object \notin zombies =>
      Known("client", msg) /\ msg.message.since <= proxies[msg.object].version
=============================================================================
