---------------------------- MODULE MCTransport ----------------------------
(***************************************************************************)
(* Transport for TLC: two packets each, with remaining lengths of one, two *)
(* and four bytes.                                                         *)
(***************************************************************************)
EXTENDS Transport

\* The encoding of a length: the last byte lacks the continuation bit.
Encode[n \in Nat] ==
    IF n < BASE THEN <<n>> ELSE <<(n % BASE) + BASE>> \o Encode[n \div BASE]

\* Header byte, remaining length, payload.  The payload looks like lengths
\* that go on, which is what a reader out of step would stumble over.
Bytes(n) == <<0>> \o Encode[n] \o [k \in 1 .. n |-> BASE + 1]

StreamOf(lengths) ==
    LET frames == [k \in DOMAIN lengths |-> Bytes(lengths[k])]
    IN  [bytes  |-> FlattenSeq(frames),
         length |-> lengths,
         width  |-> [k \in DOMAIN lengths |-> Len(Encode[lengths[k]])],
         begin  |-> [k \in 1 .. Len(lengths) + 1 |->
                       Len(FlattenSeq(SubSeq(frames, 1, k - 1)))]]

MCStreams == {StreamOf(lengths) : lengths \in [1 .. 2 -> {0, 2, 8}]}
==============================================================================
