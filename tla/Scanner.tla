------------------------------ MODULE Scanner ------------------------------
(***************************************************************************)
(* wayland-scanner++ (scanner/scanner.cpp): it reads the command line and  *)
(* the protocols' XML and prints a C++ header and its body.  What the      *)
(* generated functions do with a message is in Wire; here it is what they  *)
(* are made of: which names a printed part declares, defines and needs, in *)
(* which order the parts are printed, through which streams; and the       *)
(* generated bitfields (include/wayland-util.hpp).                         *)
(*                                                                         *)
(* An interface's name is <<prefix, rest>>: "wl_surface" is                *)
(* <<"wl", "surface">>, a name without prefix <<"", "surface">>.  A number *)
(* of 32 bits is the set of the bits that are 1.                           *)
(***************************************************************************)
EXTENDS Integers, FiniteSetsExt, SequencesExt

CONSTANTS
    Commands,    \* command lines, see Argv
    Documents,   \* input file, by its token |-> what it may hold: sequences of interfaces
    Provided,    \* header |-> the names that including it defines
    LogOfZero,   \* what static_cast<uint32_t>(std::log2(0)) gives
    WideMask,    \* what (1 << size) - 1 gives when it overflows
    None

ASSUME LogAssumption == LogOfZero \in Nat
ASSUME WideAssumption == WideMask \subseteq 0..31

IsSequence(s) == s \in Seq(ToSet(s))

\* An entry is a number of 32 bits, or no number.
ASSUME DocumentsAssumption ==
    \A f \in DOMAIN Documents : \A doc \in Documents[f] :
       /\ IsSequence(doc)
       /\ \A x \in ToSet(doc) :
             /\ IsSequence(x.requests) /\ IsSequence(x.events) /\ IsSequence(x.enums)
             /\ \A m \in ToSet(x.requests) \cup ToSet(x.events) : IsSequence(m.args)
             /\ \A e \in ToSet(x.enums) : \A v \in ToSet(e.entries) : v = None \/ v \subseteq 0..31

VARIABLES
    command,     \* the command line, and as tokens in argv
    xml,         \* input file |-> its interfaces
    phase,       \* how far main() is
    c,           \* its loop counter
    i,           \* the next interface of file c
    opts_end,    \* parse_args: "--" was there
    map,         \* the options
    extra,       \* the file names
    interfaces,  \* what was read
    enum_id,     \* the next enumeration's id
    files,       \* the two outputs, each a sequence of lines (or of parts)
    at           \* the streams' positions, None if not open

argVars  == <<opts_end, map, extra>>
readVars == <<interfaces, enum_id>>
vars == <<command, xml, phase, c, i, argVars, readVars, files, at>>
-----------------------------------------------------------------------------
(* The command line *)

Word(t) == [dash |-> FALSE, text |-> t]
Dash(t) == [dash |-> TRUE, text |-> t]

\* A command line is a sequence of options, files (which are tokens) and "--".
Option(key, value) == [kind |-> "option", key |-> key, value |-> value]
File(f)  == [kind |-> "file", key |-> "", value |-> f]
EndOfOptions == [kind |-> "end", key |-> "-", value |-> None]

\* Nothing but files follow "--", whatever they look like, and none that begins
\* with a dash comes before.
ASSUME CommandsAssumption ==
    \A cmd \in Commands :
       /\ IsSequence(cmd)
       /\ \A n \in DOMAIN cmd :
             \/ cmd[n].kind = "option" /\ cmd[n].key # "-"
             \/ cmd[n].kind = "file" /\ (cmd[n].value.dash => \E m \in 1..n - 1 : cmd[m] = EndOfOptions)
             \/ cmd[n] = EndOfOptions
       /\ \A m, n \in DOMAIN cmd : m < n /\ cmd[m] = EndOfOptions => cmd[n].kind = "file"

\* SelectSeq(), in terms of FlattenSeq() as everything here that makes a
\* sequence of another.
Chosen(s, Test(_)) ==
    FlattenSeq([n \in DOMAIN s |-> IF Test(s[n]) THEN <<s[n]>> ELSE <<>>])

Tokens(item) ==
    IF item.kind = "file" THEN <<item.value>>
    ELSE <<Dash(item.key)>> \o (IF item.value = None THEN <<>> ELSE <<Word(item.value)>>)

Argv(cmd) == FlattenSeq([n \in DOMAIN cmd |-> Tokens(cmd[n])])

\* "[-s on] [-x extra_header.hpp]": an option has a value, or nothing follows
\* that could be taken for one.
AsUsage(cmd) ==
    \A n \in 1..Len(cmd) - 1 :
       cmd[n].kind = "option" /\ cmd[n].value = None => cmd[n + 1].kind # "file"

argv == Argv(command)

\* A line of a file, or a part of the text that belongs to an interface.
Line(what)    == [what |-> what, header |-> "", k |-> 0]
include(h)    == [what |-> "include", header |-> h, k |-> 0]
Part(what, n) == [what |-> what, header |-> "", k |-> n]

Init ==
    /\ command \in Commands
    /\ xml \in {x \in [DOMAIN Documents -> UNION {Documents[f] : f \in DOMAIN Documents}] :
                   \A f \in DOMAIN Documents : x[f] \in Documents[f]}
    /\ phase = "args" /\ c = 1 /\ i = 1
    /\ opts_end = FALSE /\ map = <<>> /\ extra = <<>>
    /\ interfaces = <<>> /\ enum_id = 0
    /\ files = [hpp |-> <<Line("old")>>, cpp |-> <<Line("old")>>]
    /\ at = [hpp |-> None, cpp |-> None, server_hpp |-> None, server_cpp |-> None]

HasValue(n) == n + 1 <= Len(argv) /\ ~argv[n + 1].dash

\* Mutant: the value is not skipped.
Skipped_One(n) == 1

Skipped(n) == IF HasValue(n) THEN 2 ELSE 1

\* One round of parse_args()'s loop.
parse_args ==
    /\ phase = "args" /\ c <= Len(argv)
    /\ LET str == argv[c]
           isFile == opts_end \/ ~str.dash
           isEnd  == ~isFile /\ str = Dash("-")
       IN /\ extra' = IF isFile THEN Append(extra, str) ELSE extra
          /\ opts_end' = (opts_end \/ isEnd)
          /\ map' = IF isFile \/ isEnd THEN map
                    ELSE Append(map, [key |-> str.text,
                                      value |-> IF HasValue(c) THEN argv[c + 1].text ELSE None])
          /\ c' = c + (IF isFile \/ isEnd THEN 1 ELSE Skipped(c))
    /\ UNCHANGED <<command, xml, phase, i, readVars, files, at>>

server == \E n \in DOMAIN map : map[n].key = "s"

CheckUsage ==
    /\ phase = "args" /\ c > Len(argv)
    /\ phase' = IF Len(extra) < 3 THEN "usage" ELSE "read"
    /\ c' = 1
    /\ UNCHANGED <<command, xml, i, argVars, readVars, files, at>>
-----------------------------------------------------------------------------
(* Reading *)

\* Mutant: every prefix is removed.
unprefix_All(name) == <<"", name[2]>>

\* unprefix()
unprefix(name) == IF name[1] \in {"wl", "wp"} THEN <<"", name[2]>> ELSE name

\* What an <arg> becomes: an enumeration without interface is the own one.
ParsedArg(x, arg) ==
    [type      |-> arg.type,
     interface |-> IF arg.interface = None THEN None ELSE unprefix(arg.interface),
     enum      |-> IF arg.enum = None THEN None
                   ELSE [iface |-> unprefix(IF arg.enum.iface = None THEN x.name
                                            ELSE arg.enum.iface),
                         name  |-> arg.enum.name]]

ParsedMessages(x, messages) ==
    [m \in DOMAIN messages |->
       [name |-> messages[m].name,
        args |-> [a \in DOMAIN messages[m].args |-> ParsedArg(x, messages[m].args[a])]]]

\* Mutant: log2 without "+ 1U".
Digits_Log(value) == IF value = {} THEN LogOfZero ELSE Max(value)

\* static_cast<uint32_t>(std::log2(value)) + 1U
Digits(value) == 1 + IF value = {} THEN LogOfZero ELSE Max(value)

ParsedEnums(x, id) ==
    [e \in DOMAIN x.enums |->
       [name |-> x.enums[e].name, bitfield |-> x.enums[e].bitfield,
        id |-> id + e - 1, entries |-> x.enums[e].entries,
        width |-> Max({0} \cup {Digits(v) : v \in ToSet(x.enums[e].entries)})]]

Parsed(x, id) ==
    [orig_name |-> x.name, name |-> unprefix(x.name),
     requests |-> ParsedMessages(x, x.requests), events |-> ParsedMessages(x, x.events),
     enums |-> ParsedEnums(x, id)]

\* std::stol throws if a value is no number; nobody catches it.
Malformed(x) == \E e \in DOMAIN x.enums : None \in ToSet(x.enums[e].entries)

\* A file that cannot be loaded counts as empty.
Content(f) == IF f \in DOMAIN xml THEN xml[f] ELSE <<>>

ReadInterface ==
    /\ phase = "read" /\ c <= Len(extra) - 2
    /\ LET doc == Content(extra[c])
           ok  == i <= Len(doc) /\ ~Malformed(doc[i])
       IN /\ phase' = IF i <= Len(doc) /\ ~ok THEN "aborted" ELSE phase
          /\ interfaces' = IF ok THEN Append(interfaces, Parsed(doc[i], enum_id)) ELSE interfaces
          /\ enum_id' = IF ok THEN enum_id + Len(doc[i].enums) ELSE enum_id
          /\ i' = IF i <= Len(doc) THEN i + 1 ELSE 1
          /\ c' = IF i <= Len(doc) THEN c ELSE c + 1
    /\ UNCHANGED <<command, xml, argVars, files, at>>
-----------------------------------------------------------------------------
(* Names *)

Class(n)     == [kind |-> "class", name |-> n, enum |-> ""]         \* surface_t
Struct(n)    == [kind |-> "struct", name |-> n, enum |-> ""]        \* wl_surface
Interface(n) == [kind |-> "wl_interface", name |-> n, enum |-> ""]  \* surface_interface
Enum(n, e)   == [kind |-> "enum", name |-> n, enum |-> e]           \* surface_error

EnumsOf(x) == {Enum(x.name, e.name) : e \in ToSet(x.enums)}

\* print_type(): the class of the interface, or the enumeration.
print_type(arg) ==
    IF arg.interface # None THEN {Class(arg.interface)}
    ELSE IF arg.enum # None THEN {Enum(arg.enum.iface, arg.enum.name)} ELSE {}

TypesOf(messages) == UNION {print_type(a) : a \in UNION {ToSet(m.args) : m \in ToSet(messages)}}

\* The interfaces of the new objects.
NewObjects(messages) ==
    {a.interface : a \in {b \in UNION {ToSet(m.args) : m \in ToSet(messages)} :
                             b.type = "new_id" /\ b.interface # None}}

NotNew(m) == [m EXCEPT !.args = Chosen(@, LAMBDA a : a.type # "new_id")]

\* The messages that are sent by a function of the class: the client's destroy
\* takes place in the destructor, a server's functions get no new objects.
Sent(x) ==
    IF server THEN [m \in DOMAIN x.events |-> NotNew(x.events[m])]
    ELSE Chosen(x.requests, LAMBDA m : m.name # "destroy")

\* Those that arrive in on_ functions.
Received(x) == IF server THEN x.requests ELSE x.events

Errors(x) == {e \in EnumsOf(x) : e.enum = "error"}
-----------------------------------------------------------------------------
(* What is printed *)

\* Mutant: enumerations are not declared beforehand.
print_forward_Class(x) == {Class(x.name)}

\* interface_t::print_forward(), enumeration_t::print_forward()
print_forward(x) == {Class(x.name)} \cup EnumsOf(x)

\* The enumerations follow the class that uses them.
DeclaresInside(x, what) ==
    CASE what = "c_forward"        -> {Struct(x.orig_name)}
      [] what = "forward"          -> print_forward(x)
      [] what = "interface_header" -> {Interface(x.name)}
      [] what = "class"            -> {Class(x.name)}
      [] OTHER                     -> {}

\* print_client_header(), print_server_header(), enumeration_t::print_header()
DefinesInside(x, what) ==
    CASE what = "class"          -> {Class(x.name)} \cup EnumsOf(x)
      [] what = "interface_body" -> {Interface(x.name)}
      [] OTHER                   -> {}

\* Names that have to be declared: in the signatures of the functions and of
\* their handlers, in the conversion to the C type, in the tables of types, in the
\* calls that make an object.
MentionsInside(x, what) ==
    CASE what = "class" -> TypesOf(Sent(x)) \cup TypesOf(Received(x)) \cup {Struct(x.orig_name)}
                           \cup (IF server THEN {Interface(x.name)} ELSE {})
      [] what = "interface_body" -> {Interface(n.name) : n \in
                                       {t \in TypesOf(x.requests) \cup TypesOf(x.events) : t.kind = "class"}}
      [] what = "class_body" -> {Interface(x.name), Struct(x.orig_name)}
                                \cup {Interface(n) : n \in NewObjects(Sent(x))}
      [] OTHER -> {}

\* Names that have to be defined: what is constructed, cast or a member's class.
NeedsInside(x, what) ==
    IF what # "class_body" THEN {}
    ELSE {Class(x.name)} \cup TypesOf(Sent(x)) \cup TypesOf(Received(x)) \cup Errors(x)
         \cup {Enum(x.name, e.name) : e \in {f \in ToSet(x.enums) : f.bitfield}}

Inside(Op(_, _), line) == IF line.k = 0 THEN {} ELSE Op(interfaces[line.k], line.what)

Includes(h) == IF h \in DOMAIN Provided THEN Provided[h] ELSE {}

\* One part for each interface; the display has its class elsewhere.
ForEach(what) ==
    [n \in DOMAIN interfaces |-> Part(what, n)]

ForEachButDisplay(what) ==
    Chosen(ForEach(what), LAMBDA p : interfaces[p.k].name # <<"", "display">>)

Library == IF server THEN "wayland-server.hpp" ELSE "wayland-client.hpp"

HeaderIntro == <<Line("pragma"), Line("blank"), Line("std"), Line("blank"), include(Library)>>

\* Mutant: a header more, in front.
ServerIntro_More == <<include("wayland-util.hpp")>> \o HeaderIntro \o <<Line("blank")>>

ServerIntro == HeaderIntro \o <<Line("blank")>>

ExtraIncludes ==
    LET x == Chosen(map, LAMBDA opt : opt.key = "x") IN [n \in DOMAIN x |-> include(x[n].value)]

HeaderParts ==
    ExtraIncludes \o <<Line("blank")>> \o ForEachButDisplay("c_forward") \o <<Line("blank")>>
    \o <<Line("namespace")>> \o ForEachButDisplay("forward") \o <<Line("blank")>>
    \o ForEach("interface_header") \o ForEachButDisplay("class") \o <<Line("end")>>

BodyIntro == <<include("hpp"), Line("blank"), Line("using"), Line("using detail")>>
             \o (IF server THEN <<Line("using server"), Line("using server::detail")>> ELSE <<>>)
             \o <<Line("blank")>>

ServerBodyIntro == <<include("hpp"), Line("blank"), Line("using detail"), Line("using server"),
                     Line("using server::detail"), Line("blank")>>

\* print_enum_wire_type() throws for an enumeration that is no integer, which
\* is found out when the body is printed.
Throws(x) ==
    \/ \E m \in ToSet(Sent(x)) : \E a \in ToSet(m.args) :
          a.enum # None /\ a.type \notin {"int", "uint", "new_id", "object", "fd"}
    \/ \E m \in ToSet(Received(x)) : \E a \in ToSet(m.args) :
          a.enum # None /\ a.type \notin {"int", "uint", "array"}

Complete == ForEachButDisplay("class_body")

\* The classes before the first one that throws.
Printable ==
    LET bad == {n \in DOMAIN Complete : Throws(interfaces[Complete[n].k])}
    IN IF bad = {} THEN Complete ELSE SubSeq(Complete, 1, Min(bad) - 1)
-----------------------------------------------------------------------------
(* Printing.  Two streams write to each file in server mode.  Every line ends *)
(* with std::endl, so nothing waits in a buffer.                              *)

FileOf(s) == IF s \in {"hpp", "server_hpp"} THEN "hpp" ELSE "cpp"

Overwritten(old, pos, new) ==
    [n \in 1..Max({Len(old), pos + Len(new)}) |->
       IF n \in pos + 1..pos + Len(new) THEN new[n - pos]
       ELSE IF n <= Len(old) THEN old[n] ELSE Line("hole")]

Opens(streams, texts) ==
    /\ files' = [files EXCEPT !.hpp = texts[1], !.cpp = texts[2]]
    /\ at' = [at EXCEPT ![streams[1]] = Len(texts[1]), ![streams[2]] = Len(texts[2])]

Prints(s, text) ==
    /\ files' = [files EXCEPT ![FileOf(s)] = Overwritten(@, at[s], text)]
    /\ at' = [at EXCEPT ![s] = @ + Len(text)]

\* Opening truncates the files; the header's intro is printed.
OpenFiles ==
    /\ phase = "read" /\ c > Len(extra) - 2
    /\ Opens(<<"hpp", "cpp">>, <<HeaderIntro, <<>>>>)
    /\ phase' = IF server THEN "server" ELSE "header"
    /\ UNCHANGED <<command, xml, c, i, argVars, readVars>>

\* The same files once more, through streams of their own.
OpenServerFiles ==
    /\ phase = "server"
    /\ Opens(<<"server_hpp", "server_cpp">>, <<ServerIntro, ServerBodyIntro>>)
    /\ phase' = "header"
    /\ UNCHANGED <<command, xml, c, i, argVars, readVars>>

PrintHeader ==
    /\ phase = "header"
    /\ Prints("hpp", HeaderParts)
    /\ phase' = "body"
    /\ UNCHANGED <<command, xml, c, i, argVars, readVars>>

\* The classes before one that throws are in the file when it does.
PrintBody ==
    /\ phase = "body"
    /\ Prints("cpp", BodyIntro \o ForEach("interface_body") \o Printable)
    /\ phase' = IF Printable = Complete THEN "done" ELSE "aborted"
    /\ UNCHANGED <<command, xml, c, i, argVars, readVars>>

Next ==
    \/ parse_args \/ CheckUsage \/ ReadInterface
    \/ OpenFiles \/ OpenServerFiles \/ PrintHeader \/ PrintBody

Spec == Init /\ [][Next]_vars
-----------------------------------------------------------------------------
(* bitfield<size, id> *)

\* (1 << size) - 1, computed with integers: 1 << 31 is none that 1 can be
\* subtracted from.
mask(size) == IF size <= 30 THEN 0..size - 1 ELSE WideMask

Or(a, b)        == a \cup b
And(a, b)       == a \cap b
Xor(size, a, b) == SymDiff(a, b) \cap mask(size)
Not(size, a)    == mask(size) \ a
-----------------------------------------------------------------------------
(* Properties *)

\* A command line that follows the usage is understood: every option with its
\* own value, and no file taken for one, wherever the options are (the build
\* puts them in front and behind) and whatever the files behind "--" look like.
OptionsOf(cmd) == Chosen(cmd, LAMBDA item : item.kind = "option")
FilesOf(cmd)   == Chosen(cmd, LAMBDA item : item.kind = "file")

CommandUnderstood ==
    phase # "args" /\ AsUsage(command) =>
       /\ map = [n \in DOMAIN OptionsOf(command) |->
                   [key |-> OptionsOf(command)[n].key, value |-> OptionsOf(command)[n].value]]
       /\ extra = [n \in DOMAIN FilesOf(command) |-> FilesOf(command)[n].value]

\* A run that ends well leaves both files whole, although two streams have
\* written to each; one that does not leaves what was there before, and not a
\* file that the next build takes for finished: unless a document has an
\* enumeration as the type of an argument that is no integer (Throws), with which
\* this is false.
OutputsWhole ==
    /\ phase = "done" =>
          /\ files.hpp = HeaderIntro \o HeaderParts
          /\ files.cpp = BodyIntro \o ForEach("interface_body") \o Complete
    /\ phase \in {"usage", "aborted"} =>
          files.hpp = <<Line("old")>> /\ files.cpp = <<Line("old")>>

\* Every name in the text denotes one thing, which the compiler has seen: each
\* class one interface, though prefixes are removed (wl_surface and xdg_surface,
\* but not wl_x and wp_x), each bitfield one enumeration; declared before it is
\* mentioned and defined before it is needed, also where interfaces refer to
\* each other in a circle or to enumerations of later ones, if every name the
\* protocols refer to is in one of them or in a header of another run.
RefersTo(x) == (TypesOf(x.requests) \cup TypesOf(x.events)) \ EnumsOf(x)

HeaderNames == UNION {Includes(line.header) : line \in {l \in ToSet(files.hpp) : l.what = "include"}}

Known ==
    HeaderNames \cup UNION {{Class(x.name)} \cup EnumsOf(x) :
                              x \in {y \in ToSet(interfaces) : y.name # <<"", "display">>}}

Text == files.hpp \o files.cpp

Before(n, Op(_, _)) == UNION {Inside(Op, Text[m]) : m \in 1..n - 1}

Bitfields == {e \in UNION {ToSet(x.enums) : x \in ToSet(interfaces)} : e.bitfield}

NamesResolve ==
    phase = "done" =>
       /\ \A x, y \in ToSet(interfaces) : x.name = y.name => x.orig_name = y.orig_name
       /\ \A d, e \in Bitfields : <<d.width, d.id>> = <<e.width, e.id>> => d = e
       /\ (\A x \in ToSet(interfaces) : RefersTo(x) \subseteq Known) =>
             \A n \in DOMAIN Text :
                LET defined == HeaderNames \cup Before(n, DefinesInside) IN
                /\ Inside(NeedsInside, Text[n]) \subseteq defined
                /\ Inside(MentionsInside, Text[n]) \subseteq
                      defined \cup Before(n, DeclaresInside) \cup Inside(DeclaresInside, Text[n])

\* The flags of a generated bitfield behave like sets of flags: the operators
\* that cut their result off at the width lose no flag, whatever values the
\* entries have in whatever order, 0 and several bits at once included, up to the
\* 30 bits from which on the mask overflows.
SetLike(size, entries) ==
    LET values == {UNION s : s \in SUBSET entries} IN
    \A a, b \in values :
       /\ Xor(size, a, b) = Or(And(a, Not(size, b)), And(Not(size, a), b))
       /\ And(a, Not(size, b)) = a \ b
       /\ Not(size, Not(size, a)) = a
       /\ Xor(size, Xor(size, a, b), b) = a

FlagsAreSets == \A e \in Bitfields : SetLike(e.width, ToSet(e.entries))

\* The library's own fd_event_mask_t has four flags and a width of 2: this is
\* false, and no run's property.
FdEventMaskIsSet == SetLike(2, {{0}, {1}, {2}, {3}})
=============================================================================
