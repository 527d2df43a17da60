------------------------------ MODULE MCTopics ------------------------------
(***************************************************************************)
(* Topics for TLC: all names of up to four characters and all filters of   *)
(* up to five in the first slot; a second slot that is empty, or matches   *)
(* everything, or one topic.                                               *)
(***************************************************************************)
EXTENDS Topics

Strings(alphabet, n) == UNION {[1 .. k -> alphabet] : k \in 1 .. n}

MCNames == Strings({"a", "b", "/"}, 4)
MCSlotFilters ==
    <<{f \in Strings({"a", "/", "+", "#"}, 5) : InFormat(f)},
      {<<>>, <<"#">>, <<"a">>}>>
==============================================================================
