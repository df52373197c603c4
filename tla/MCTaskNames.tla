------------------------------ MODULE MCTaskNames ------------------------------
(* Lengths 6, 11 and 8 for 53, 63 and 50, and ids that meet them on every side. *)
EXTENDS TaskNames

MCPlain == {"a", "b", "t", "s", "l", "h", "0", "1"}
MCCapitals == {"A", "S"}

\* "K~" stands for the Kelvin sign, "I~" for the dotted capital I, of which lower() makes two
\* characters, the second of them a dot.
MCForeign == {"/", " ", "K~", "I~", "~"}
MCLowerOf ==
    [c \in MCCapitals \cup {"K~", "I~"} |->
        CASE c = "A" -> <<"a">> [] c = "S" -> <<"s">>
          [] c = "K~" -> <<"b">> [] c = "I~" -> <<"a", "~">>]

A(n) == [k \in 1 .. n |-> "a"]

MCIds ==
    { <<"a">>, <<"A">>, <<"_">>, <<"-", "a">>, <<"a", "_">>, <<"a", "/", "-", "b">>,
      <<"s", "-", "0">>, <<"S", "-", "0">>, <<"s", "-", "0", "-", "0">>, <<"a", ".", "b">>,
      A(5) \o <<"-", "b">>, A(6) \o <<"b">>, A(6) \o <<"a">>, A(8) \o <<"_">>, A(8) \o <<"-", "b">>,
      A(10) \o <<"-">>, A(10) \o <<"-", "b">>, A(10) \o <<" ", "b">>, A(11) \o <<"-">>,
      <<"K~">>, A(10) \o <<"I~">>, <<"b", "I~", "I~", "I~", "I~", "I~", "I~">>}

MCDigitOf == [n \in 0 .. 1 |-> IF n = 0 THEN "0" ELSE "1"]
MCStandbyPrefix == <<"s", "-">>
================================================================================
