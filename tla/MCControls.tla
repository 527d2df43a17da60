----------------------------- MODULE MCControls -----------------------------
(***************************************************************************)
(* Controls for TLC: every order of the fields of documented, mistaken and *)
(* incomplete commands, messages with repeated, unknown and nested fields, *)
(* and one with more tokens than the array holds.                          *)
(***************************************************************************)
EXTENDS Controls

Orders(path, command, value) ==
    LET p == <<"path", path>>
        c == <<"command", command>>
        v == <<"value", value>>
    IN  {p \o c \o v, p \o v \o c, c \o p \o v, c \o v \o p, v \o p \o c,
         v \o c \o p}

Fields == {<<"led", "red", "0">>, <<"led", "red", "1">>,
           <<"led", "red", "2">>, <<"led", "red", "other">>,
           <<"led", "yellow", "2">>, <<"led", "env", "1">>,
           <<"per", "pub", "5000">>, <<"per", "sub", "0">>,
           <<"per", "sub", "5000">>, <<"per", "other", "1">>,
           <<"sensor", "env", "0">>, <<"sensor", "env", "1">>,
           <<"sensor", "env", "2">>, <<"sensor", "red", "1">>,
           <<"other", "env", "0">>}
Flat == UNION {Orders(f[1], f[2], f[3]) : f \in Fields}
Incomplete == {SubSeq(m, 1, n) : m \in Flat, n \in {2, 4}}
Odd == {<<"path", "sensor", "command", "env", "other", "[", "value">>,
        <<"value", "1", "path", "led", "other", "[", "command">>,
        <<"command", "env", "value", "0", "other", "[", "path">>,
        <<"other", "value", "path", "led", "command", "red", "value", "1">>,
        <<"path", "led", "path", "other", "command", "red", "value", "1">>,
        <<"path", "led", "command", "red", "value", "0", "value", "1">>}
TooLong == {<<"path", "led", "command", "red", "value", "1", "a", "b", "c">>}

MCMessages == Flat \cup Incomplete \cup Odd \cup TooLong
==============================================================================
