----------------------------- MODULE PacketLink -----------------------------
(***************************************************************************)
(* What the client is promised of a link that carries bytes.  The packets  *)
(* of the broker are read in their order, each once and not before it has  *)
(* come whole; that ends when the client leaves one in its middle.  A      *)
(* packet that is written goes out from its beginning: nothing of it, a    *)
(* part, all of it, or all of it and more; and the write is reported as a  *)
(* success exactly if all of it went out and nothing else.                 *)
(***************************************************************************)
EXTENDS Integers

VARIABLES
    come,   \* so many packets of the broker have come whole
    read,   \* and the client has read so many of them
    torn,   \* it has left one in its middle
    out,    \* what the write under way has put on the link
    rc      \* what the last write reported: 0, or -1

reading == <<come, read, torn>>
writing == <<out, rc>>

Init ==
    /\ come = 0 /\ read = 0 /\ torn = FALSE
    /\ out = "nothing" /\ rc = 0

Come ==
    /\ come' = come + 1
    /\ UNCHANGED <<read, torn, writing>>

Read ==
    /\ ~torn /\ read < come
    /\ read' = read + 1
    /\ UNCHANGED <<come, torn, writing>>

\* From then on nothing is promised of what is read.
Tear ==
    /\ torn' = TRUE
    /\ read' \in Nat
    /\ UNCHANGED <<come, writing>>

\* What is out is not taken back, and is not added to when it is all there is.
Put ==
    /\ \/ out = "nothing" /\ out' \in {"part", "packet"}
       \/ out = "part" /\ out' \in {"packet", "more"}
    /\ UNCHANGED <<reading, rc>>

Return ==
    /\ rc' = IF out = "packet" THEN 0 ELSE -1
    /\ out' = "nothing"
    /\ UNCHANGED reading

Next == Come \/ Read \/ Tear \/ Put \/ Return

Spec == Init /\ [][Next]_<<reading, writing>>
==============================================================================
