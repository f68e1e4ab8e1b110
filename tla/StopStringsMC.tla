--------------------------- MODULE StopStringsMC ----------------------------
(* Small instances of StopStrings for TLC: "<" and ">" are the two bytes   *)
(* of one character.                                                       *)
EXTENDS StopStrings

TwoByte == [b \in {"a", "b", "<", ">"} |-> CASE b = "<" -> 2 [] b = ">" -> 0 [] OTHER -> 1]

Tokens == {<<"a">>, <<"b">>, <<"<">>, <<">">>, <<"a", "b">>, <<"b", "a", "a">>, <<"b", "<">>}

StopLists == {<<>>, << <<"a", "b">> >>, << <<"b", "a", "b">>, <<"a", "a">> >>,
              << <<"b", "<", ">">>, <<"b", "b">> >>}
Limits == {-1, 3}
=============================================================================
