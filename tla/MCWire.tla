------------------------------- MODULE MCWire -------------------------------
(* A protocol with a global "seat" and two interfaces that its requests     *)
(* create.  Between them the messages have every type of argument, every    *)
(* type behind every kind of prefix ("?", a digit, a new object), objects   *)
(* with and without interface, a "destroy" in the middle, at the front and  *)
(* nowhere.                                                                 *)
EXTENDS Wire

Arg(type) == [type |-> type, interface |-> NoInterface, allow_null |-> FALSE]
Of(type, i) == [Arg(type) EXCEPT !.interface = i]
Nullable(arg) == [arg EXCEPT !.allow_null = TRUE]
Msg(name, since, args) == [name |-> name, since |-> since, args |-> args]

MCInterfaces == {"seat", "pad", "done"}
MCGlobals == {"seat"}
MCProtocol ==
  [seat |-> [version |-> 2,
     requests |-> <<Msg("destroy", 1, <<>>),
                    Msg("get_pad", 1, <<Of("new_id", "pad"), Arg("int")>>),
                    Msg("mode", 2, <<Arg("string"), Arg("uint")>>),
                    Msg("sync", 2, <<Nullable(Arg("object")), Of("new_id", "done"),
                                     Arg("fd")>>)>>,
     events |-> <<Msg("offer", 1, <<Of("new_id", "pad")>>),
                  Msg("enter", 1, <<Of("object", "pad"), Arg("fixed")>>),
                  Msg("keymap", 2, <<Arg("uint"), Arg("fd"), Arg("array")>>)>>],
   pad |-> [version |-> 2,
     requests |-> <<Msg("move", 1, <<Arg("fixed"), Arg("int")>>),
                    Msg("destroy", 1, <<>>),
                    Msg("attach", 2, <<Nullable(Of("object", "pad")), Arg("array")>>),
                    Msg("resize", 2, <<Arg("int"), Arg("uint"), Arg("int")>>)>>,
     events |-> <<Msg("axis", 1, <<Arg("int"), Arg("string")>>),
                  Msg("focus", 2, <<Nullable(Of("object", "seat")), Arg("int")>>)>>],
   done |-> [version |-> 1,
     requests |-> <<>>,
     events |-> <<Msg("done", 1, <<Arg("uint"), Nullable(Arg("object"))>>)>>]]

MCDataOf(type) == CASE type = "fixed" -> {2, 5}
                    [] type = "int"   -> {1, 2}
                    [] OTHER          -> {1}
=============================================================================
