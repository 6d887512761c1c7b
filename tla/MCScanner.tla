------------------------------ MODULE MCScanner ------------------------------
EXTENDS Scanner

\* Interfaces, as in wayland.xml and an extension of it.
Arg(type, interface, enum) == [type |-> type, interface |-> interface, enum |-> enum]
Obj(n)      == Arg("object", n, None)
New(n)      == Arg("new_id", n, None)
Num(ie, e)  == Arg("uint", None, [iface |-> ie, name |-> e])
Msg(n, as)  == [name |-> n, args |-> as]
Values(n, b, es) == [name |-> n, bitfield |-> b, entries |-> es]

display == <<"wl", "display">>
surface == <<"wl", "surface">>
output  == <<"wl", "output">>
shell   == <<"xdg", "surface">>

Display == [name |-> display, requests |-> <<Msg("sync", <<New(output)>>)>>,
            events |-> <<Msg("error", <<Arg("object", None, None)>>)>>,
            enums |-> <<Values("error", FALSE, <<{}, {0}>>)>>]

\* The surface and the output refer to each other and to each other's flags.
Surface == [name |-> surface,
            requests |-> <<Msg("destroy", <<>>), Msg("set", <<Num(output, "mode"), Obj(output)>>)>>,
            events |-> <<Msg("enter", <<Obj(output), Num(None, "error")>>)>>,
            enums |-> <<Values("error", FALSE, <<{}, {0}, {1}>>)>>]

Output == [name |-> output,
           requests |-> <<Msg("bind", <<New(surface), Arg("int", None, None)>>)>>,
           events |-> <<Msg("at", <<Obj(surface), Num(surface, "error")>>)>>,
           enums |-> <<Values("mode", TRUE, <<{2}, {}, {0}, {0, 1}>>)>>]

Malformed1 == [Output EXCEPT !.enums = <<Values("mode", TRUE, <<{0}, None>>)>>]

Shell == [name |-> shell,
          requests |-> <<Msg("get", <<New(surface), Obj(shell), Num(None, "edges")>>)>>,
          events |-> <<Msg("new", <<New(shell), Num(output, "mode")>>)>>,
          enums |-> <<Values("edges", TRUE, <<{}, {0}, {3}>>), Values("error", FALSE, <<{1}>>)>>]

Tag == [name |-> <<"wp", "tag">>, requests |-> <<Msg("tag", <<Obj(shell), Num(shell, "edges")>>)>>,
        events |-> <<>>, enums |-> <<Values("flag", TRUE, <<{}>>)>>]

MCDocuments ==
    [f \in {Word("a.xml"), Word("b.xml"), Dash("b.xml")} |->
       IF f = Word("a.xml") THEN {<<Display, Surface, Output>>, <<Output, Surface>>, <<Malformed1>>}
       ELSE IF f.dash THEN {<<Shell>>}
       ELSE {<<Shell>>, <<Tag, Shell>>, <<>>}]

NamesOf(n, enums) == {Class(n), Interface(n)} \cup {Enum(n, e) : e \in enums}

MCProvided ==
    [h \in {"core.hpp"} |->
       NamesOf(<<"", "surface">>, {"error"}) \cup NamesOf(<<"", "output">>, {"mode"})
       \cup {Struct(surface), Struct(output)}]

Items == {Option("s", "on"), Option("s", None), Option("x", "core.hpp"), EndOfOptions,
          File(Word("a.xml")), File(Word("b.xml")), File(Dash("b.xml"))}

\* Up to three items, and the outputs after or between them; nothing but files
\* follows "--", and a file that looks like an option only does.
Outputs == <<File(Word("out.hpp")), File(Word("out.cpp"))>>

MCCommands ==
    {cmd \in {s \o Outputs \o o : s \in BoundedSeq(Items, 3),
                                  o \in {<<>>, <<Option("x", "core.hpp")>>}} :
       /\ \A m, n \in DOMAIN cmd : m < n /\ cmd[m] = EndOfOptions => cmd[n].kind = "file"
       /\ \A n \in DOMAIN cmd :
             cmd[n] = File(Dash("b.xml")) => \E m \in 1..n - 1 : cmd[m] = EndOfOptions
       /\ \A m, n \in DOMAIN cmd : m # n /\ cmd[m].kind # "file" => cmd[m].key # cmd[n].key}
==============================================================================
