--------------------------- MODULE TransportProofs ---------------------------
(***************************************************************************)
(* Proofs about Transport, for any base of the encoding, any well-formed   *)
(* stream, any lengths the client sends and any number of errors.          *)
(***************************************************************************)
EXTENDS Transport, SequenceTheorems, FiniteSetTheorems, TLAPS

\* The types, with what decodePacket and xdk_read are about.
Decoding ==
    /\ IF at = "length" THEN rem_len < multiplier
                        ELSE len = 0 /\ multiplier = 1
    /\ at \notin {"length", "rest"} => rem_len = 0
Needs ==
    /\ need <= Wanted + errors
    /\ at \in {"idle", "write"} => need = 0
Types == TypeOK /\ Decoding /\ Needs

\* What decodePacket has when it has read n bytes of the k-th length.
Decoded(s, k, n) ==
    LET Term(j) == IF j <= n THEN Digit(s, k, j) * Weight[j] ELSE 0
    IN  Term(1) + Term(2) + Term(3) + Term(4)

\* Where the reader is in the packet that comes, while none was left before
\* its end: before the header byte, at one of the bytes of its length, or in
\* its payload with as many bytes to read as there are to its end.
Asked == need \in {0, 1}

AtHeader ==
    /\ Asked
    /\ pos = stream.begin[packets + 1]
    /\ need = 1 => packets < Len(stream.length)
AtLength ==
    /\ Asked
    /\ packets < Len(stream.length)
    /\ len < stream.width[packets + 1]
    /\ pos = stream.begin[packets + 1] + 1 + len
    /\ rem_len = Decoded(stream, packets + 1, len)
AtRest ==
    /\ packets < Len(stream.length)
    /\ rem_len = stream.length[packets + 1]
    /\ pos + (IF need = 0 THEN rem_len ELSE need) = stream.begin[packets + 2]

Synchronised ==
    ~torn => /\ packets \in 0 .. Len(stream.length)
             /\ at \in {"idle", "write"} => pos = stream.begin[packets + 1]
             /\ at = "header" => AtHeader
             /\ at = "length" => AtLength
             /\ at = "rest" => AtRest

\* What sendPacket has written is the beginning of buf.
Writes ==
    /\ wire = [k \in 1 .. sent |-> k]
    /\ at # "write" => sent = 0 /\ length = 0
    /\ at = "write" => length \in SendLengths

------------------------------------------------------------------------------
\* The weights of the digits, each BASE times the one before it.
LEMMA Weights ==
    /\ \A j \in 1 .. 4 : Weight[j] \in Nat \ {0}
    /\ Weight[1] = 1
    /\ \A j \in 1 .. 3 : Weight[j] * BASE = Weight[j + 1]
    /\ \A j \in 1 .. 4 : Weight[j] * BASE <= MaxLength + 1
    /\ MaxLength \in Nat \ {0}
<1>1. BASE \in Nat /\ BASE >= 2
  BY TransportAssumption
<1> DEFINE B2 == BASE * BASE
           B3 == BASE * BASE * BASE
<1>2. /\ B2 \in Nat /\ B2 >= BASE
      /\ B3 \in Nat /\ B3 = B2 * BASE
  BY <1>1
<1>3. B3 >= B2 /\ B3 * BASE \in Nat /\ B3 * BASE >= B3
  <2>1. \A x \in Nat : x * BASE \in Nat /\ x * BASE >= x
    BY <1>1
  <2>2. QED
    BY <1>2, <2>1
<1>4. /\ Weight[1] = 1 /\ Weight[2] = BASE
      /\ Weight[3] = B2 /\ Weight[4] = B3
  BY DEF Weight
<1>5. MaxLength = B3 * BASE - 1
  <2>1. BASE * B3 = B3 * BASE
    BY <1>1, <1>2
  <2>2. QED
    BY <1>4, <2>1 DEF MaxLength, MAX_NO_OF_REMAINING_LENGTH_BYTES
<1>6. B2 = BASE * BASE
  OBVIOUS
<1> HIDE DEF B2, B3
<1>7. QED
  BY <1>1, <1>2, <1>3, <1>4, <1>5, <1>6

\* The stream is what WellFormed says, number by number.
LEMMA StreamTypes ==
    ASSUME NEW s \in Streams
    PROVE  /\ Len(s.length) \in Nat /\ Len(s.bytes) \in Nat
           /\ \A p \in 1 .. Len(s.bytes) : s.bytes[p] \in 0 .. 2 * BASE - 1
           /\ \A k \in 1 .. Len(s.length) :
                 /\ s.length[k] \in Nat /\ s.width[k] \in 1 .. 4
                 /\ s.begin[k + 1] =
                       s.begin[k] + 1 + s.width[k] + s.length[k]
           /\ \A k \in 1 .. Len(s.length) + 1 :
                 s.begin[k] \in 0 .. Len(s.bytes)
           /\ s.begin[1] = 0
           /\ s.begin[Len(s.length) + 1] = Len(s.bytes)
<1> DEFINE n == Len(s.length)
<1>1. /\ s.bytes \in Seq(0 .. 2 * BASE - 1) /\ s.length \in Seq(Nat)
      /\ s.width \in [1 .. n -> 1 .. 4]
      /\ s.begin \in [1 .. n + 1 -> 0 .. Len(s.bytes)]
      /\ s.begin[1] = 0 /\ s.begin[n + 1] = Len(s.bytes)
      /\ \A k \in 1 .. n :
            s.begin[k + 1] = s.begin[k] + 1 + s.width[k] + s.length[k]
  BY TransportAssumption DEF WellFormed, MAX_NO_OF_REMAINING_LENGTH_BYTES
<1>2. n \in Nat /\ Len(s.bytes) \in Nat
  BY <1>1, LenProperties
<1>3. \A p \in 1 .. Len(s.bytes) : s.bytes[p] \in 0 .. 2 * BASE - 1
  BY <1>1, ElementOfSeq
<1>4. \A k \in 1 .. n : s.length[k] \in Nat
  BY <1>1, ElementOfSeq
<1>5. QED
  BY <1>1, <1>2, <1>3, <1>4

\* A digit more, and the value stays below the next weight.
LEMMA OneDigitMore ==
    ASSUME NEW r \in Nat, NEW m \in Nat, r < m, NEW byte \in 0 .. 2 * BASE - 1
    PROVE  /\ r + (byte % BASE) * m \in Nat
           /\ r + (byte % BASE) * m < m * BASE
<1>1. BASE \in Nat /\ BASE >= 2
  BY TransportAssumption
<1>2. byte % BASE \in 0 .. BASE - 1
  BY <1>1
<1> DEFINE d == byte % BASE
<1> HIDE DEF d
<1>3. d \in Nat /\ d <= BASE - 1
  BY <1>1, <1>2 DEF d
<1>4. d * m <= (BASE - 1) * m
  BY <1>1, <1>3
<1>5. (BASE - 1) * m = m * BASE - m
  BY <1>1
<1>6. d * m \in Nat /\ m * BASE \in Nat
  BY <1>1, <1>3
<1>7. QED
  BY <1>4, <1>5, <1>6 DEF d

------------------------------------------------------------------------------
(***************************************************************************)
(* The types.                                                              *)
(***************************************************************************)

\* In the beginning,
LEMMA InitTypes == Init => Types
<1> SUFFICES ASSUME Init PROVE Types
  OBVIOUS
<1>1. Len(stream.bytes) \in Nat
  BY StreamTypes DEF Init
<1>2. MaxLength \in Nat /\ Weight[1] = 1 /\ MaxErrors \in Nat
  BY Weights, TransportAssumption
<1>3. wire \in Seq(Nat)
  BY DEF Init
<1>4. TypeOK
  <2>1. /\ arrived \in 0 .. Len(stream.bytes) /\ pos \in 0 .. arrived
        /\ need \in 0 .. MaxLength + MaxErrors /\ rem_len \in 0 .. MaxLength
        /\ len \in 0 .. 3 /\ multiplier = Weight[len + 1]
        /\ errors \in 0 .. MaxErrors
    BY <1>1, <1>2 DEF Init
  <2>2. /\ stream \in Streams /\ at = "idle" /\ packets \in Nat
        /\ torn \in BOOLEAN /\ length \in SendLengths \cup {0}
        /\ sent \in Nat /\ rc \in {SUCCESS, FAILURE}
    BY DEF Init
  <2>3. QED
    BY <1>3, <2>1, <2>2 DEF TypeOK, MAX_NO_OF_REMAINING_LENGTH_BYTES
<1>5. Decoding /\ Needs
  BY DEF Init, Decoding, Needs, Wanted
<1>6. QED
  BY <1>4, <1>5 DEF Types

\* while bytes arrive and are received,
LEMMA ReceivingTypes ==
    ASSUME Types, Readable \/ RecvPart \/ RecvFails \/ Arrive
    PROVE  Types'
<1>1. Len(stream.bytes) \in Nat /\ MaxErrors \in Nat /\ MaxLength \in Nat \ {0}
  BY StreamTypes, Weights, TransportAssumption DEF Types, TypeOK
<1>2. Wanted \in 0 .. MaxLength
  BY <1>1 DEF Types, TypeOK, Wanted
<1>3. /\ errors \in 0 .. MaxErrors /\ need <= Wanted + errors
      /\ need \in 0 .. MaxLength + MaxErrors
      /\ arrived \in 0 .. Len(stream.bytes) /\ pos \in 0 .. arrived
  BY DEF Types, TypeOK, Needs
<1> USE <1>1, <1>2, <1>3 DEF Types, TypeOK, Decoding, decode, writer
<1>4. CASE Readable
  BY <1>4 DEF Readable, Needs, Wanted
<1>5. CASE RecvPart
  <2>1. PICK n \in 1 .. need - 1 :
           pos + n <= arrived /\ pos' = pos + n /\ need' = need - n
    BY <1>5 DEF RecvPart
  <2>2. QED
    BY <1>5, <2>1 DEF RecvPart, Needs, Wanted
<1>6. CASE RecvFails
  BY <1>6 DEF RecvFails, Needs, Wanted
<1>7. CASE Arrive
  BY <1>7 DEF Arrive, Needs, Wanted
<1>8. QED
  BY <1>4, <1>5, <1>6, <1>7

\* when decodePacket has come to its end with n,
LEMMA LeftTypes ==
    ASSUME Types, NEW n \in 0 .. MaxLength, Left(n),
           need' = 0, pos' \in 0 .. arrived, torn' \in BOOLEAN,
           UNCHANGED <<stream, arrived, errors, writer>>
    PROVE  Types'
<1>1. /\ MaxErrors \in Nat /\ MaxLength \in Nat \ {0} /\ Weight[1] = 1
      /\ errors \in 0 .. MaxErrors /\ packets \in Nat
  BY Weights, TransportAssumption DEF Types, TypeOK
<1>2. /\ rem_len' = n /\ multiplier' = 1 /\ len' = 0
      /\ at' = (IF n > 0 THEN "rest" ELSE "idle")
      /\ packets' = (IF n > 0 THEN packets ELSE packets + 1)
  BY DEF Left
<1>3. TypeOK'
  <2>1. packets' \in Nat /\ at' \in {"rest", "idle"}
    BY <1>1, <1>2
  <2>2. /\ multiplier' = Weight[len' + 1] /\ rem_len' \in 0 .. MaxLength
        /\ len' \in 0 .. MAX_NO_OF_REMAINING_LENGTH_BYTES - 1
        /\ need' \in 0 .. MaxLength + MaxErrors
    BY <1>1, <1>2 DEF MAX_NO_OF_REMAINING_LENGTH_BYTES
  <2>3. QED
    BY <2>1, <2>2 DEF Types, TypeOK, writer
<1>4. Decoding' /\ Needs'
  BY <1>1, <1>2 DEF Decoding, Needs, Wanted
<1>5. QED
  BY <1>3, <1>4 DEF Types

\* as it does with LengthRead, unless there is another byte of the length,
LEMMA LengthReadTypes ==
    ASSUME Types, LengthRead
    PROVE  Types'
<1> DEFINE i == stream.bytes[pos']
           value == rem_len + (i % BASE) * multiplier
<1>1. /\ stream \in Streams /\ Len(stream.bytes) \in Nat
      /\ arrived \in 0 .. Len(stream.bytes) /\ pos \in 0 .. arrived
      /\ need \in Nat \ {0} /\ pos' = pos + need /\ pos + need <= arrived
      /\ need' = 0 /\ at = "length" /\ torn' \in BOOLEAN
      /\ UNCHANGED <<stream, arrived, errors, torn, writer>>
  BY StreamTypes DEF LengthRead, Received, Types, TypeOK
<1>2. i \in 0 .. 2 * BASE - 1
  <2>1. pos' \in 1 .. Len(stream.bytes)
    BY <1>1
  <2>2. QED
    BY <1>1, <2>1, StreamTypes
<1>3. /\ len \in 0 .. 3 /\ multiplier = Weight[len + 1]
      /\ rem_len \in Nat /\ rem_len < multiplier
      /\ multiplier \in Nat /\ multiplier * BASE <= MaxLength + 1
      /\ MaxLength \in Nat
  <2>1. len \in 0 .. 3 /\ multiplier = Weight[len + 1] /\ rem_len \in Nat
    BY Weights
    DEF Types, TypeOK, MAX_NO_OF_REMAINING_LENGTH_BYTES
  <2>2. rem_len < multiplier
    BY <1>1 DEF Types, Decoding
  <2>3. len + 1 \in 1 .. 4
    BY <2>1
  <2>4. QED
    BY <2>1, <2>2, <2>3, Weights
<1>4. value \in Nat /\ value < multiplier * BASE
  BY <1>2, <1>3, OneDigitMore
<1>5. value \in 0 .. MaxLength
  <2>1. multiplier * BASE \in Int
    BY <1>3, TransportAssumption
  <2>2. QED
    BY <1>3, <1>4, <2>1
<1>6. IF LengthGoesOn(i)
        THEN /\ rem_len' = value /\ multiplier' = multiplier * BASE
             /\ len' = len + 1 /\ UNCHANGED <<at, packets>>
        ELSE Left(value)
  BY DEF LengthRead
<1>7. pos' \in 0 .. arrived
  BY <1>1
<1> HIDE DEF i, value
<1>8. CASE LengthGoesOn(i)
  <2>1. len + 1 < 4
    BY <1>8 DEF LengthGoesOn, MAX_NO_OF_REMAINING_LENGTH_BYTES
  <2>2. multiplier' = Weight[len' + 1]
    <3>1. len + 1 \in 1 .. 3
      BY <1>3, <2>1
    <3>2. Weight[len + 1] * BASE = Weight[len + 1 + 1]
      BY <3>1, Weights
    <3>3. QED
      BY <1>3, <1>6, <1>8, <3>2
  <2>3. len' \in 0 .. 3 /\ rem_len' \in 0 .. MaxLength
    BY <1>3, <1>5, <1>6, <1>8, <2>1
  <2>4. need' \in 0 .. MaxLength + MaxErrors
    BY <1>1, <1>3, TransportAssumption
  <2>5. TypeOK'
    BY <1>1, <1>6, <1>7, <1>8, <2>2, <2>3, <2>4
    DEF Types, TypeOK, writer, MAX_NO_OF_REMAINING_LENGTH_BYTES
  <2>6. Decoding'
    BY <1>1, <1>4, <1>6, <1>8 DEF Decoding
  <2>7. errors' \in Nat
    BY <1>1, TransportAssumption DEF Types, TypeOK
  <2>8. Needs'
    BY <1>1, <1>6, <1>8, <2>7 DEF Needs, Wanted
  <2>9. QED
    BY <2>5, <2>6, <2>8 DEF Types
<1>9. CASE ~LengthGoesOn(i)
  BY <1>1, <1>5, <1>6, <1>7, <1>9, LeftTypes
<1>10. QED
  BY <1>8, <1>9

\* in the other steps of readPacket,
LEMMA ReadingTypes ==
    ASSUME Types,
           \/ readPacket \/ NoHeader \/ HeaderRead
           \/ LengthTimesOut \/ RestRead \/ RestTimesOut
    PROVE  Types'
<1>1. /\ Len(stream.bytes) \in Nat /\ MaxErrors \in Nat /\ MaxLength \in Nat
      /\ Weight[1] = 1 /\ MAX_NO_OF_REMAINING_LENGTH_BYTES = 4
  BY StreamTypes, Weights, TransportAssumption
  DEF Types, TypeOK, MAX_NO_OF_REMAINING_LENGTH_BYTES
<1>2. /\ errors \in 0 .. MaxErrors /\ rem_len \in 0 .. MaxLength
      /\ need \in 0 .. MaxLength + MaxErrors
      /\ arrived \in 0 .. Len(stream.bytes) /\ pos \in 0 .. arrived
  BY DEF Types, TypeOK
<1>3. CASE readPacket \/ NoHeader
  BY <1>1, <1>2, <1>3
  DEF readPacket, NoHeader, TimedOut, reader, decode, writer,
      Types, TypeOK, Decoding, Needs, Wanted
<1>4. CASE HeaderRead
  BY <1>1, <1>2, <1>4
  DEF HeaderRead, Received, decode, writer,
      Types, TypeOK, Decoding, Needs, Wanted
<1>5. CASE LengthTimesOut
  <2>1. /\ need' = 0 /\ pos' \in 0 .. arrived /\ torn' \in BOOLEAN
        /\ UNCHANGED <<stream, arrived, errors, writer>>
    BY <1>2, <1>5 DEF LengthTimesOut, TimedOut
  <2>2. QED
    BY <1>2, <1>5, <2>1, LeftTypes DEF LengthTimesOut
<1>6. CASE RestRead
  <2>1. /\ need' = 0 /\ pos' \in 0 .. arrived /\ torn' \in BOOLEAN
        /\ UNCHANGED <<stream, arrived, errors, writer>>
    BY <1>2, <1>6 DEF RestRead, Received, Types, TypeOK
  <2>2. QED
    BY <1>1, <1>6, <2>1, LeftTypes DEF RestRead
<1>7. CASE RestTimesOut
  BY <1>1, <1>2, <1>7
  DEF RestTimesOut, TimedOut, writer, Types, TypeOK, Decoding, Needs, Wanted
<1>8. QED
  BY <1>3, <1>4, <1>5, <1>6, <1>7

\* and while sendPacket writes.
LEMMA SendingTypes ==
    ASSUME Types, Sending \/ UNCHANGED vars
    PROVE  Types'
<1>1. /\ length \in Nat /\ sent \in Nat /\ wire \in Seq(Nat)
      /\ length \in SendLengths \cup {0}
  BY TransportAssumption DEF Types, TypeOK
<1>2. CASE sendPacket
  BY <1>2
  DEF sendPacket, reader, decode, Types, TypeOK, Decoding, Needs, Wanted
<1>3. CASE xdk_write
  <2>1. PICK n \in 1 .. length :
           /\ wire' = wire \o [k \in 1 .. n |-> sent + k]
           /\ sent' = sent + n
    BY <1>3 DEF xdk_write
  <2>2. sent' \in Nat
    BY <1>1, <2>1
  <2>3. [k \in 1 .. n |-> sent + k] \in Seq(Nat)
    <3>1. n \in Nat
      BY <1>1
    <3>2. [k \in 1 .. n |-> sent + k] \in [1 .. n -> Nat]
      BY <1>1, <3>1
    <3>3. QED
      BY <3>1, <3>2
  <2>4. wire' \in Seq(Nat)
    BY <1>1, <2>1, <2>3, ConcatProperties
  <2>5. QED
    BY <1>3, <2>2, <2>4
    DEF xdk_write, reader, decode, Types, TypeOK, Decoding, Needs, Wanted
<1>4. CASE Sent
  <2>1. wire' \in Seq(Nat) /\ rc' \in {SUCCESS, FAILURE}
    <3>1. wire' = <<>>
      BY <1>4 DEF Sent
    <3>2. rc' \in {SUCCESS, FAILURE}
      BY <1>4 DEF Sent
    <3>3. QED
      BY <3>1, <3>2
  <2>2. QED
    BY <1>4, <2>1
    DEF Sent, reader, decode, Types, TypeOK, Decoding, Needs, Wanted
<1>5. CASE UNCHANGED vars
  BY <1>5
  DEF vars, reader, writer, decode, Types, TypeOK, Decoding, Needs, Wanted
<1>6. QED
  BY <1>2, <1>3, <1>4, <1>5 DEF Sending

\* So every step preserves them.
LEMMA NextTypes == Types /\ [Next]_vars => Types'
BY ReceivingTypes, LengthReadTypes, ReadingTypes, SendingTypes
DEF Next, Reading, Failing

\* The types are right in every state: whatever bytes are received and lost,
\* decodePacket stays within the four bytes and the values they can count.
THEOREM TransportTypeCorrect == Spec => []TypeOK
<1>1. Types => TypeOK
  BY DEF Types
<1>2. QED
  BY InitTypes, NextTypes, <1>1, PTL DEF Spec

------------------------------------------------------------------------------
(***************************************************************************)
(* The writer.                                                             *)
(***************************************************************************)

\* Every byte that is written is the next one of buf.
LEMMA NextWrites ==
    ASSUME Types, Writes, [Next]_vars
    PROVE  Writes'
<1>1. /\ SendLengths \subseteq Nat /\ length \in SendLengths \cup {0}
      /\ sent \in Nat
  BY TransportAssumption DEF Types, TypeOK
<1>2. CASE sendPacket
  BY <1>2 DEF sendPacket, Writes
<1>3. CASE xdk_write
  <2>1. PICK n \in 1 .. length :
           /\ wire' = wire \o [k \in 1 .. n |-> sent + k]
           /\ sent' = sent + n
    BY <1>3 DEF xdk_write
  <2>2. n \in Nat /\ wire = [k \in 1 .. sent |-> k]
    BY <1>1 DEF Writes
  <2> DEFINE more == [k \in 1 .. n |-> sent + k]
  <2>3. wire \in Seq(Nat) /\ Len(wire) = sent
    BY <1>1, <2>2
  <2>4. more \in Seq(Nat) /\ Len(more) = n
    <3>1. more \in [1 .. n -> Nat]
      BY <1>1, <2>2
    <3>2. QED
      BY <2>2, <3>1
  <2>5. \A k \in 1 .. n : more[k] = sent + k
    OBVIOUS
  <2> HIDE DEF more
  <2>6. /\ Len(wire \o more) = Len(wire) + Len(more)
        /\ wire \o more \in Seq(Nat)
        /\ \A k \in 1 .. Len(wire) + Len(more) :
              (wire \o more)[k] = IF k <= Len(wire)
                                    THEN wire[k] ELSE more[k - Len(wire)]
    BY <2>3, <2>4, ConcatProperties
  <2>7. \A k \in 1 .. sent + n : (wire \o more)[k] = k
    <3> TAKE k \in 1 .. sent + n
    <3>1. k \in Int
      BY <1>1, <2>2
    <3>2. CASE k <= sent
      <4>1. (wire \o more)[k] = wire[k]
        BY <1>1, <2>2, <2>3, <2>4, <2>6, <3>2
      <4>2. k \in 1 .. sent
        BY <1>1, <2>2, <3>2
      <4>3. QED
        BY <2>2, <4>1, <4>2
    <3>3. CASE k > sent
      <4>1. (wire \o more)[k] = more[k - sent]
        BY <1>1, <2>2, <2>3, <2>4, <2>6, <3>3
      <4>2. k - sent \in 1 .. n
        BY <1>1, <2>2, <3>3
      <4>3. more[k - sent] = sent + (k - sent)
        BY <2>5, <4>2
      <4>4. sent + (k - sent) = k
        BY <1>1, <3>1
      <4>5. QED
        BY <4>1, <4>3, <4>4
    <3>4. k <= sent \/ k > sent
      BY <1>1, <3>1
    <3>5. QED
      BY <3>2, <3>3, <3>4
  <2>8. wire \o more = [k \in 1 .. sent + n |-> (wire \o more)[k]]
    <3>1. Len(wire \o more) = sent + n
      BY <2>3, <2>4, <2>6
    <3> DEFINE w == wire \o more
    <3>2. w \in Seq(Nat) /\ Len(w) = sent + n
      BY <2>6, <3>1
    <3> HIDE DEF w
    <3>3. w = [k \in 1 .. sent + n |-> w[k]]
      BY <3>2, LenProperties
    <3>4. QED
      BY <3>3 DEF w
  <2>9. wire' = [k \in 1 .. sent' |-> k]
    <3>1. wire' = wire \o more
      BY <2>1 DEF more
    <3>2. QED
      BY <2>1, <2>7, <2>8, <3>1
  <2>10. QED
    BY <1>3, <2>9 DEF xdk_write, Writes
<1>4. CASE Sent
  <2>1. wire' = <<>> /\ sent' = 0 /\ length' = 0 /\ at' = "idle"
    BY <1>4 DEF Sent
  <2>2. <<>> = [k \in 1 .. 0 |-> k]
    OBVIOUS
  <2>3. QED
    BY <2>1, <2>2 DEF Writes
<1>5. CASE readPacket \/ NoHeader \/ RestTimesOut
  BY <1>5
  DEF readPacket, NoHeader, TimedOut, RestTimesOut, writer, Writes
<1>6. CASE HeaderRead \/ RecvPart \/ RecvFails \/ Arrive \/ Readable
  BY <1>6
  DEF HeaderRead, Received, RecvPart, RecvFails, Arrive, Readable, writer,
      Types, Needs, Writes
<1>7. CASE LengthRead \/ LengthTimesOut \/ RestRead
  <2>1. UNCHANGED writer /\ at # "write"
    BY <1>7
    DEF LengthRead, LengthTimesOut, TimedOut, RestRead, Received
  <2>2. at' \in {"length", "rest", "idle"}
    BY <1>7
    DEF LengthRead, LengthTimesOut, RestRead, Received, Left
  <2>3. QED
    BY <2>1, <2>2 DEF writer, Writes
<1>8. CASE UNCHANGED vars
  BY <1>8 DEF vars, writer, Writes
<1>9. QED
  BY <1>2, <1>3, <1>4, <1>5, <1>6, <1>7, <1>8
  DEF Next, Reading, Failing, Sending

\* sendPacket reports success exactly when the packet went out whole: a step
\* that leaves "write" is Sent, and what it finds on the wire has a byte for
\* each that was counted.
THEOREM SuccessMeansWhole == Spec => SuccessIsWhole
<1> DEFINE A == at = "write" /\ at' # "write" =>
                    (rc' = SUCCESS <=> wire = [k \in 1 .. length |-> k])
<1>1. Init => Types /\ Writes
  <2>1. <<>> = [k \in 1 .. 0 |-> k]
    OBVIOUS
  <2>2. Init => Writes
    BY <2>1 DEF Init, Writes
  <2>3. QED
    BY <2>2, InitTypes
<1>2. ASSUME Types, Writes, [Next]_vars
      PROVE  [A]_vars
  <2> SUFFICES ASSUME at = "write", at' # "write"
               PROVE  rc' = SUCCESS <=> wire = [k \in 1 .. length |-> k]
    OBVIOUS
  <2>1. Sent
    BY <1>2
    DEF Next, Reading, Failing, Sending, readPacket, Readable, RecvPart,
        RecvFails, NoHeader, TimedOut, HeaderRead, Received, LengthRead,
        LengthTimesOut, RestRead, RestTimesOut, Arrive, sendPacket,
        xdk_write, vars, Types, Needs
  <2>2. /\ length \in Nat /\ sent \in Nat
        /\ wire = [k \in 1 .. sent |-> k]
    BY <1>2, TransportAssumption DEF Writes, Types, TypeOK
  <2>3. rc' = SUCCESS <=> sent = length
    BY <2>1 DEF Sent, SUCCESS, FAILURE
  <2>4. ASSUME wire = [k \in 1 .. length |-> k]
        PROVE  sent = length
    <3>1. Len(wire) = sent
      BY <2>2
    <3>2. Len(wire) = length
      BY <2>2, <2>4
    <3>3. QED
      BY <3>1, <3>2
  <2>5. QED
    BY <2>2, <2>3, <2>4
<1>3. Types /\ Writes /\ [Next]_vars => (Types /\ Writes)'
  BY NextTypes, NextWrites
<1>4. Types /\ Writes /\ [Next]_vars => [A]_vars
  BY <1>2
<1>5. QED
  BY <1>1, <1>3, <1>4, PTL DEF Spec, SuccessIsWhole

------------------------------------------------------------------------------
(***************************************************************************)
(* The reader.                                                             *)
(***************************************************************************)

\* The bytes of a length are read one by one: the continuation bit tells that
\* there is another, and after the last the value is the length.
LEMMA LengthIsDecoded ==
    ASSUME NEW s \in Streams, NEW k \in 1 .. Len(s.length)
    PROVE  /\ Decoded(s, k, 0) = 0
           /\ Decoded(s, k, s.width[k]) = s.length[k]
           /\ \A j \in 1 .. s.width[k] :
                 /\ LengthByte(s, k, j) >= BASE <=> j < s.width[k]
                 /\ Decoded(s, k, j) = Decoded(s, k, j - 1)
                       + (LengthByte(s, k, j) % BASE) * Weight[j]
<1> DEFINE w == s.width[k]
           T(j) == Digit(s, k, j) * Weight[j]
<1>1. /\ w \in 1 .. 4 /\ s.begin[k] \in Nat /\ Len(s.bytes) \in Nat
      /\ s.begin[k] + 1 + w <= Len(s.bytes)
  <2>1. /\ Len(s.length) \in Nat /\ Len(s.bytes) \in Nat
        /\ s.begin[k + 1] = s.begin[k] + 1 + w + s.length[k]
        /\ w \in 1 .. 4 /\ s.length[k] \in Nat
    BY StreamTypes
  <2>2. k \in 1 .. Len(s.length) + 1 /\ k + 1 \in 1 .. Len(s.length) + 1
    BY <2>1
  <2>3. /\ s.begin[k] \in 0 .. Len(s.bytes)
        /\ s.begin[k + 1] \in 0 .. Len(s.bytes)
    BY <2>2, StreamTypes
  <2> DEFINE b == s.begin[k]
             e == s.begin[k + 1]
             end == Len(s.bytes)
             l == s.length[k]
  <2>4. /\ end \in Nat /\ b \in 0 .. end /\ e \in 0 .. end
        /\ e = b + 1 + w + l /\ w \in 1 .. 4 /\ l \in Nat
    BY <2>1, <2>3
  <2> HIDE DEF w, b, e, end, l
  <2>5. w \in 1 .. 4 /\ b \in Nat /\ end \in Nat /\ b + 1 + w <= end
    BY <2>4
  <2>6. QED
    BY <2>5 DEF w, b, end
<1>2. /\ \A j \in 1 .. w : LengthByte(s, k, j) >= BASE <=> j < w
      /\ s.length[k] = T(1) + T(2) + T(3) + T(4)
  BY TransportAssumption DEF WellFormed
<1>3. BASE \in Nat /\ BASE >= 2
  BY TransportAssumption
<1>4. \A j \in 1 .. w : LengthByte(s, k, j) % BASE \in Nat
  <2> TAKE j \in 1 .. w
  <2> DEFINE b == s.begin[k]
             end == Len(s.bytes)
  <2>1. /\ w \in 1 .. 4 /\ b \in Nat /\ end \in Nat /\ b + 1 + w <= end
        /\ j \in 1 .. w
    BY <1>1
  <2>2. b + 1 + j \in 1 .. end
    <3> HIDE DEF w, b, end
    <3>1. QED
      BY <2>1
  <2>3. LengthByte(s, k, j) \in 0 .. 2 * BASE - 1
    BY <2>2, StreamTypes DEF LengthByte
  <2>4. QED
    BY <1>3, <2>3
<1>5. \A j \in 1 .. 4 : Digit(s, k, j) \in Nat /\ (j > w => Digit(s, k, j) = 0)
  BY <1>1, <1>4 DEF Digit
<1>6. \A j \in 1 .. 4 : T(j) \in Nat /\ (j > w => T(j) = 0)
  <2> TAKE j \in 1 .. 4
  <2> DEFINE d == Digit(s, k, j)
             v == Weight[j]
  <2>1. d \in Nat /\ v \in Nat /\ (j > w => d = 0)
    BY <1>5, Weights
  <2> HIDE DEF d, v, w
  <2>2. d * v \in Nat /\ (j > w => d * v = 0)
    BY <2>1
  <2>3. QED
    BY <2>2 DEF d, v
<1>7. \A j \in 1 .. w : T(j) = (LengthByte(s, k, j) % BASE) * Weight[j]
  BY <1>1 DEF Digit
<1> DEFINE D(j) == Decoded(s, k, j)
           B(j) == (LengthByte(s, k, j) % BASE) * Weight[j]
<1>8. \A j \in 0 .. 4 :
         D(j) = (IF 1 <= j THEN T(1) ELSE 0)
             + (IF 2 <= j THEN T(2) ELSE 0) + (IF 3 <= j THEN T(3) ELSE 0)
             + (IF 4 <= j THEN T(4) ELSE 0)
  BY DEF Decoded
<1>9. \A j \in 1 .. w : T(j) = B(j)
  BY <1>7
<1> HIDE DEF T, D, B, w
<1>10. /\ T(1) \in Nat /\ T(2) \in Nat /\ T(3) \in Nat /\ T(4) \in Nat
       /\ T(2) = 0 \/ 2 <= w
       /\ T(3) = 0 \/ 3 <= w
       /\ T(4) = 0 \/ 4 <= w
  <2>1. w \in 1 .. 4
    BY <1>1
  <2>2. QED
    BY <1>6, <2>1
<1>11. /\ D(0) = 0 /\ D(1) = T(1) /\ D(2) = T(1) + T(2)
       /\ D(3) = T(1) + T(2) + T(3) /\ D(4) = T(1) + T(2) + T(3) + T(4)
  <2>1. D(0) = 0 /\ D(1) = T(1) + 0 + 0 + 0
    BY <1>8
  <2>2. D(2) = T(1) + T(2) + 0 + 0 /\ D(3) = T(1) + T(2) + T(3) + 0
    BY <1>8
  <2>3. D(4) = T(1) + T(2) + T(3) + T(4)
    BY <1>8
  <2>4. QED
    BY <1>10, <2>1, <2>2, <2>3
<1>12. D(w) = s.length[k]
  <2>1. s.length[k] = T(1) + T(2) + T(3) + T(4)
    BY <1>2
  <2>2. CASE w = 1
    BY <1>10, <1>11, <2>1, <2>2
  <2>3. CASE w = 2
    BY <1>10, <1>11, <2>1, <2>3
  <2>4. CASE w = 3
    BY <1>10, <1>11, <2>1, <2>4
  <2>5. CASE w = 4
    BY <1>10, <1>11, <2>1, <2>5
  <2>6. w = 1 \/ w = 2 \/ w = 3 \/ w = 4
    BY <1>1
  <2>7. QED
    BY <2>2, <2>3, <2>4, <2>5, <2>6
<1>13. \A j \in 1 .. 4 : D(j) = D(j - 1) + T(j)
  BY <1>10, <1>11
<1>14. \A j \in 1 .. w : D(j) = D(j - 1) + B(j)
  BY <1>1, <1>9, <1>13
<1>15. QED
  BY <1>2, <1>11, <1>12, <1>14 DEF D, B, w

\* The packet that comes, if one does, in numbers.
LEMMA NextPacket ==
    ASSUME Types, packets \in 0 .. Len(stream.length)
    PROVE  /\ Len(stream.length) \in Nat /\ Len(stream.bytes) \in Nat
           /\ stream.begin[packets + 1] \in 0 .. Len(stream.bytes)
           /\ packets = Len(stream.length) =>
                 stream.begin[packets + 1] = Len(stream.bytes)
           /\ packets < Len(stream.length) =>
                 /\ packets + 1 \in 1 .. Len(stream.length)
                 /\ stream.width[packets + 1] \in 1 .. 4
                 /\ stream.length[packets + 1] \in Nat
                 /\ stream.begin[packets + 2] \in 0 .. Len(stream.bytes)
                 /\ stream.begin[packets + 2] =
                       stream.begin[packets + 1] + 1
                       + stream.width[packets + 1]
                       + stream.length[packets + 1]
<1>1. stream \in Streams
  BY DEF Types, TypeOK
<1> DEFINE n == Len(stream.length)
<1>2. /\ n \in Nat /\ Len(stream.bytes) \in Nat
      /\ stream.begin[n + 1] = Len(stream.bytes)
  BY <1>1, StreamTypes
<1>3. packets + 1 \in 1 .. n + 1
  BY <1>2
<1>4. stream.begin[packets + 1] \in 0 .. Len(stream.bytes)
  BY <1>1, <1>3, StreamTypes
<1>5. ASSUME packets < n
      PROVE  /\ packets + 1 \in 1 .. n
             /\ stream.width[packets + 1] \in 1 .. 4
             /\ stream.length[packets + 1] \in Nat
             /\ stream.begin[packets + 2] \in 0 .. Len(stream.bytes)
             /\ stream.begin[packets + 2] =
                   stream.begin[packets + 1] + 1
                   + stream.width[packets + 1] + stream.length[packets + 1]
  <2>1. /\ packets + 1 \in 1 .. n /\ packets + 2 \in 1 .. n + 1
        /\ packets + 1 + 1 = packets + 2
    BY <1>2, <1>5
  <2>2. stream.begin[packets + 2] \in 0 .. Len(stream.bytes)
    BY <1>1, <2>1, StreamTypes
  <2>3. QED
    BY <1>1, <2>1, <2>2, StreamTypes
<1>6. QED
  BY <1>2, <1>4, <1>5

\* Whether it waits, receives or is idle, the reader keeps its place,
LEMMA PlaceIsKept ==
    ASSUME Types, Synchronised, ~torn,
           \/ Readable \/ RecvPart \/ Arrive \/ readPacket \/ NoHeader
           \/ Sending \/ UNCHANGED vars
    PROVE  Synchronised'
<1>1. /\ packets \in 0 .. Len(stream.length)
      /\ at \in {"idle", "write"} => pos = stream.begin[packets + 1]
      /\ at = "header" => AtHeader
      /\ at = "length" => AtLength
      /\ at = "rest" => AtRest
  BY DEF Synchronised
<1>2. /\ need \in Nat /\ rem_len \in Nat
      /\ arrived \in 0 .. Len(stream.bytes) /\ pos \in 0 .. arrived
      /\ at \in {"idle", "write"} => need = 0
      /\ MaxLength \in Nat /\ MaxErrors \in Nat
  BY Weights, TransportAssumption DEF Types, TypeOK, Needs
<1>3. /\ Len(stream.bytes) \in Nat /\ Len(stream.length) \in Nat
      /\ packets = Len(stream.length) =>
            stream.begin[packets + 1] = Len(stream.bytes)
  BY <1>1, NextPacket
<1>4. CASE Readable
  <2>1. /\ UNCHANGED <<stream, packets, pos, len, rem_len, at>>
        /\ need = 0 /\ need' = Wanted /\ pos < Len(stream.bytes)
    BY <1>2, <1>3, <1>4 DEF Readable, decode
  <2>2. CASE at = "header"
    <3>1. need' = 1 /\ packets < Len(stream.length)
      BY <1>1, <1>2, <1>3, <2>1, <2>2 DEF AtHeader, Wanted
    <3>2. AtHeader'
      BY <1>1, <2>1, <2>2, <3>1 DEF AtHeader, Asked
    <3>3. QED
      BY <1>1, <2>1, <2>2, <3>2 DEF Synchronised
  <2>3. CASE at = "length"
    <3>1. need' = 1
      BY <2>1, <2>3 DEF Wanted
    <3>2. AtLength'
      BY <1>1, <2>1, <2>3, <3>1 DEF AtLength, Asked
    <3>3. QED
      BY <1>1, <2>1, <2>3, <3>2 DEF Synchronised
  <2>4. CASE at = "rest"
    <3>1. need' = rem_len
      BY <2>1, <2>4 DEF Wanted
    <3>2. AtRest'
      BY <1>1, <1>2, <2>1, <2>4, <3>1 DEF AtRest
    <3>3. QED
      BY <1>1, <2>1, <2>4, <3>2 DEF Synchronised
  <2>5. QED
    BY <1>4, <2>2, <2>3, <2>4 DEF Readable
<1>5. CASE RecvPart
  <2>1. PICK m \in 1 .. need - 1 : pos' = pos + m /\ need' = need - m
    BY <1>5 DEF RecvPart
  <2>2. UNCHANGED <<stream, packets, len, rem_len, at>>
    BY <1>5 DEF RecvPart, decode
  <2>3. need \notin {0, 1} /\ need' \in Nat \ {0}
    BY <1>2, <2>1
  <2>4. at = "rest"
    BY <1>1, <1>2, <2>3
    DEF AtHeader, AtLength, Asked, Types, TypeOK
  <2>5. AtRest'
    <3>1. pos' + need' = pos + need
      BY <1>2, <2>1
    <3>2. QED
      BY <1>1, <2>2, <2>3, <2>4, <3>1 DEF AtRest
  <2>6. QED
    BY <1>1, <2>2, <2>4, <2>5 DEF Synchronised
<1>6. CASE Arrive \/ UNCHANGED vars
  <2>1. UNCHANGED <<stream, packets, pos, need, len, rem_len, at>>
    BY <1>6 DEF Arrive, vars, reader, decode
  <2>2. QED
    BY <1>1, <2>1 DEF Synchronised, AtHeader, AtLength, AtRest, Asked
<1>7. CASE readPacket \/ NoHeader
  <2>1. UNCHANGED <<stream, packets, pos, need>> /\ need = 0
    BY <1>2, <1>7 DEF readPacket, NoHeader, TimedOut, reader
  <2>2. /\ at \in {"idle", "header"} /\ at' \in {"idle", "header"}
        /\ pos = stream.begin[packets + 1]
    BY <1>1, <1>7 DEF readPacket, NoHeader, TimedOut, AtHeader
  <2>3. QED
    BY <1>1, <2>1, <2>2 DEF Synchronised, AtHeader, Asked
<1>8. CASE Sending
  <2>1. UNCHANGED <<stream, packets, pos>>
    BY <1>8 DEF Sending, sendPacket, xdk_write, Sent, reader
  <2>2. at \in {"idle", "write"} /\ at' \in {"idle", "write"}
    BY <1>8 DEF Sending, sendPacket, xdk_write, Sent
  <2>3. QED
    BY <1>1, <2>1, <2>2 DEF Synchronised
<1>9. QED
  BY <1>4, <1>5, <1>6, <1>7, <1>8

\* it comes from the header byte to the length,
LEMMA HeaderKeepsStep ==
    ASSUME Types, Synchronised, ~torn, HeaderRead
    PROVE  Synchronised'
<1>1. /\ packets \in 0 .. Len(stream.length) /\ AtHeader
      /\ len = 0 /\ rem_len = 0 /\ need \in Nat \ {0}
  BY DEF Synchronised, HeaderRead, Received, Types, TypeOK, Decoding
<1>2. /\ UNCHANGED <<stream, packets, len, rem_len>>
      /\ at' = "length" /\ pos' = pos + need /\ need' = 0
  BY DEF HeaderRead, Received, decode
<1>3. need = 1 /\ packets < Len(stream.length)
  BY <1>1 DEF AtHeader, Asked
<1>4. /\ packets + 1 \in 1 .. Len(stream.length) /\ stream \in Streams
      /\ stream.width[packets + 1] \in 1 .. 4
      /\ stream.begin[packets + 1] \in Nat
  BY <1>1, <1>3, NextPacket DEF Types, TypeOK
<1>5. Decoded(stream, packets + 1, 0) = 0
  BY <1>4, LengthIsDecoded
<1>6. pos' = stream.begin[packets + 1] + 1 + 0 /\ 0 < stream.width[packets + 1]
  BY <1>1, <1>2, <1>3, <1>4 DEF AtHeader
<1>7. AtLength'
  BY <1>1, <1>2, <1>3, <1>5, <1>6 DEF AtLength, Asked
<1>8. QED
  BY <1>1, <1>2, <1>7 DEF Synchronised

\* from one byte of the length to the next, and from the last of them, with
\* the length, to the payload, or to the next packet if there is none,
LEMMA LengthKeepsStep ==
    ASSUME Types, Synchronised, ~torn, LengthRead
    PROVE  Synchronised'
<1> DEFINE k == packets + 1
           w == stream.width[k]
           b == stream.begin[k]
           l == stream.length[k]
           i == stream.bytes[pos']
           value == rem_len + (i % BASE) * multiplier
<1>1. /\ packets \in 0 .. Len(stream.length) /\ AtLength
      /\ len \in 0 .. 3 /\ need \in Nat \ {0}
      /\ multiplier = Weight[len + 1]
  BY DEF Synchronised, LengthRead, Received, Types, TypeOK,
         MAX_NO_OF_REMAINING_LENGTH_BYTES
<1>2. /\ UNCHANGED stream /\ pos' = pos + need /\ need' = 0
      /\ IF LengthGoesOn(i)
           THEN /\ rem_len' = value /\ len' = len + 1
                /\ UNCHANGED <<at, packets>>
           ELSE Left(value)
  BY DEF LengthRead, Received
<1>3. /\ need = 1 /\ packets < Len(stream.length) /\ len < w
      /\ pos = b + 1 + len /\ rem_len = Decoded(stream, k, len)
  BY <1>1 DEF AtLength, Asked
<1>4. /\ k \in 1 .. Len(stream.length) /\ stream \in Streams
      /\ w \in 1 .. 4 /\ b \in Nat /\ l \in Nat
      /\ stream.begin[packets + 2] = b + 1 + w + l
      /\ packets \in Nat /\ Len(stream.length) \in Nat
  BY <1>1, <1>3, NextPacket DEF Types, TypeOK
<1>5. /\ pos' = b + 1 + (len + 1)
      /\ len + 1 \in 1 .. w
  <2> HIDE DEF k, w, b, l, i, value
  <2>1. w \in Nat /\ b \in Nat /\ len \in Nat /\ len < w
    BY <1>1, <1>3, <1>4
  <2>2. pos' = pos + 1 /\ pos = b + 1 + len
    BY <1>2, <1>3
  <2>3. QED
    BY <2>1, <2>2
<1>6. i = LengthByte(stream, k, len + 1)
  BY <1>5 DEF LengthByte
<1>7. /\ i >= BASE <=> len + 1 < w
      /\ value = Decoded(stream, k, len + 1)
      /\ Decoded(stream, k, w) = l
  <2>1. len + 1 - 1 = len
    BY <1>1
  <2>2. /\ Decoded(stream, k, w) = l
        /\ \A j \in 1 .. w :
              /\ LengthByte(stream, k, j) >= BASE <=> j < w
              /\ Decoded(stream, k, j) = Decoded(stream, k, j - 1)
                    + (LengthByte(stream, k, j) % BASE) * Weight[j]
    BY <1>4, LengthIsDecoded
  <2> HIDE DEF k, w, b, l
  <2> DEFINE j == len + 1
  <2>3. /\ LengthByte(stream, k, j) >= BASE <=> j < w
        /\ Decoded(stream, k, j) = Decoded(stream, k, j - 1)
              + (LengthByte(stream, k, j) % BASE) * Weight[j]
    <3>1. j \in 1 .. w
      BY <1>5
    <3> HIDE DEF j
    <3>2. QED
      BY <2>2, <3>1, Zenon
  <2>4. value = Decoded(stream, k, len + 1)
    BY <1>1, <1>3, <1>6, <2>1, <2>3
  <2>5. i >= BASE <=> len + 1 < w
    BY <1>6, <2>3
  <2>6. QED
    BY <2>2, <2>4, <2>5
<1>8. LengthGoesOn(i) <=> len + 1 < w
  BY <1>1, <1>4, <1>7 DEF LengthGoesOn, MAX_NO_OF_REMAINING_LENGTH_BYTES
<1>9. at = "length"
  BY DEF LengthRead, Received
<1>10. CASE LengthGoesOn(i)
  <2>1. AtLength'
    BY <1>1, <1>2, <1>3, <1>5, <1>7, <1>8, <1>10 DEF AtLength, Asked
  <2>2. QED
    BY <1>1, <1>2, <1>9, <1>10, <2>1 DEF Synchronised
<1>11. CASE ~LengthGoesOn(i)
  <2>1. len + 1 = w /\ value = l /\ pos' = b + 1 + w /\ w \in Nat
    <3>1. len + 1 = w
      <4>1. w \in 1 .. 4 /\ len + 1 \in 1 .. w
        BY <1>4, <1>5
      <4>2. ~(len + 1 < w)
        BY <1>8, <1>11
      <4> HIDE DEF w
      <4>3. QED
        BY <4>1, <4>2
    <3>2. value = l /\ pos' = b + 1 + w
      BY <1>5, <1>7, <3>1
    <3>3. w \in 1 .. 4
      BY <1>4
    <3> HIDE DEF k, w, b, l, i, value
    <3>4. QED
      BY <3>1, <3>2, <3>3
  <2>2. Left(l)
    BY <1>2, <1>11, <2>1
  <2>3. CASE l > 0
    <3>1. /\ at' = "rest" /\ rem_len' = l /\ packets' = packets
      BY <2>2, <2>3 DEF Left
    <3>2. AtRest'
      BY <1>2, <1>3, <1>4, <2>1, <3>1 DEF AtRest
    <3>3. QED
      BY <1>1, <1>2, <3>1, <3>2 DEF Synchronised
  <2>4. CASE l = 0
    <3>1. at' = "idle" /\ packets' = packets + 1
      BY <2>2, <2>4 DEF Left
    <3>2. pos' = stream'.begin[packets' + 1]
      <4>1. packets' + 1 = packets + 2
        BY <1>4, <3>1
      <4>2. b + 1 + w + l = b + 1 + w
        <5>1. b \in Nat /\ w \in Nat /\ l = 0
          BY <1>4, <2>4
        <5> HIDE DEF b, w, l
        <5>2. QED
          BY <5>1
      <4>3. stream.begin[packets' + 1] = b + 1 + w
        BY <1>4, <4>1, <4>2
      <4>4. QED
        BY <1>2, <2>1, <4>3
    <3>3. packets' \in 0 .. Len(stream'.length)
      BY <1>2, <1>3, <1>4, <3>1
    <3>4. QED
      BY <3>1, <3>2, <3>3 DEF Synchronised
  <2>5. QED
    BY <1>4, <2>3, <2>4
<1>12. QED
  BY <1>10, <1>11

\* and from the end of the payload to the next packet.
LEMMA RestKeepsStep ==
    ASSUME Types, Synchronised, ~torn, RestRead
    PROVE  Synchronised'
<1>1. /\ packets \in 0 .. Len(stream.length) /\ AtRest
      /\ need \in Nat \ {0}
  BY DEF Synchronised, RestRead, Received, Types, TypeOK
<1>2. /\ UNCHANGED stream /\ pos' = pos + need
      /\ at' = "idle" /\ packets' = packets + 1
  BY DEF RestRead, Received, Left
<1>3. /\ packets < Len(stream.length)
      /\ pos' = stream.begin[packets + 2]
  BY <1>1, <1>2 DEF AtRest
<1>4. packets \in Nat /\ Len(stream.length) \in Nat
  BY <1>1, NextPacket DEF Types, TypeOK
<1>5. /\ packets' \in 0 .. Len(stream.length)
      /\ packets' + 1 = packets + 2
  BY <1>2, <1>3, <1>4
<1>6. QED
  BY <1>2, <1>3, <1>5 DEF Synchronised

\* A step that leaves a packet before its end does not count.
LEMMA NextSynchronised ==
    ASSUME Types, Synchronised, [Next]_vars
    PROVE  Synchronised'
<1> SUFFICES ASSUME ~torn' PROVE Synchronised'
  BY DEF Synchronised
<1>1. ~RecvFails /\ ~LengthTimesOut /\ ~RestTimesOut
  BY DEF RecvFails, LengthTimesOut, RestTimesOut
<1>2. ~torn
  BY <1>1
  DEF Next, Reading, Failing, Sending, readPacket, Readable, RecvPart,
      NoHeader, HeaderRead, LengthRead, RestRead, Arrive, sendPacket,
      xdk_write, Sent, vars, reader
<1>3. QED
  BY <1>1, <1>2, PlaceIsKept, HeaderKeepsStep, LengthKeepsStep,
     RestKeepsStep
  DEF Next, Reading, Failing

\* As long as no packet was left in its middle the reader is in step with the
\* broker: for every length the encoding can tell, however the bytes are cut
\* into segments and however many calls find nothing to read.
THEOREM ReaderInStep == Spec => []InStep
<1>1. Init => Synchronised
  <2> SUFFICES ASSUME Init PROVE Synchronised
    OBVIOUS
  <2>1. Len(stream.length) \in Nat /\ stream.begin[1] = 0
    BY StreamTypes DEF Init
  <2>2. QED
    BY <2>1 DEF Init, Synchronised
<1>2. ASSUME Types, Synchronised
      PROVE  InStep
  <2> SUFFICES ASSUME ~torn
               PROVE  /\ at \in {"idle", "write"} =>
                            pos = stream.begin[packets + 1]
                      /\ at = "rest" => rem_len = stream.length[packets + 1]
                      /\ pos + need <= Len(stream.bytes)
    BY DEF InStep
  <2>1. /\ packets \in 0 .. Len(stream.length)
        /\ at \in {"idle", "write"} => pos = stream.begin[packets + 1]
        /\ at = "header" => AtHeader
        /\ at = "length" => AtLength
        /\ at = "rest" => AtRest
    BY <1>2 DEF Synchronised
  <2> DEFINE b == stream.begin[packets + 1]
             e == stream.begin[packets + 2]
             w == stream.width[packets + 1]
             l == stream.length[packets + 1]
             n == Len(stream.length)
             end == Len(stream.bytes)
  <2>2. /\ n \in Nat /\ end \in Nat /\ b \in 0 .. end
        /\ packets < n =>
              w \in 1 .. 4 /\ l \in Nat /\ e \in 0 .. end /\ e = b + 1 + w + l
    BY <1>2, <2>1, NextPacket
  <2>3. /\ need \in Nat /\ pos \in Nat /\ rem_len \in Nat /\ len \in Nat
        /\ at \in {"idle", "header", "length", "rest", "write"}
        /\ at \in {"idle", "write"} => need = 0
    <3>1. /\ arrived \in Nat /\ MaxLength \in Nat /\ MaxErrors \in Nat
      BY <1>2, <2>2, Weights, TransportAssumption DEF Types, TypeOK
    <3>2. QED
      BY <1>2, <3>1
      DEF Types, TypeOK, Needs, MAX_NO_OF_REMAINING_LENGTH_BYTES
  <2>4. /\ at = "header" =>
              need \in {0, 1} /\ pos = b /\ (need = 1 => packets < n)
        /\ at = "length" =>
              /\ need \in {0, 1} /\ packets < n /\ len < w
              /\ pos = b + 1 + len
        /\ at = "rest" =>
              /\ packets < n /\ rem_len = l
              /\ pos + (IF need = 0 THEN rem_len ELSE need) = e
    BY <2>1 DEF AtHeader, AtLength, AtRest, Asked
  <2>5. pos + need <= end
    <3> HIDE DEF b, e, w, l, n, end
    <3>1. CASE at \in {"idle", "write"}
      BY <2>1, <2>2, <2>3, <3>1 DEF b
    <3>2. CASE at = "header"
      BY <2>2, <2>3, <2>4, <3>2
    <3>3. CASE at = "length"
      BY <2>2, <2>3, <2>4, <3>3
    <3>4. CASE at = "rest"
      BY <2>2, <2>3, <2>4, <3>4
    <3>5. QED
      BY <2>3, <3>1, <3>2, <3>3, <3>4
  <2>6. QED
    BY <2>1, <2>5 DEF AtRest
<1>3. Types /\ Synchronised /\ [Next]_vars => (Types /\ Synchronised)'
  BY NextTypes, NextSynchronised
<1>4. Types /\ Synchronised => InStep
  BY <1>2
<1>5. QED
  BY InitTypes, <1>1, <1>3, <1>4, PTL DEF Spec
------------------------------------------------------------------------------
(***************************************************************************)
(* PacketLink: what the client is promised.                                *)
(***************************************************************************)

\* A packet that follows another begins behind it.
LEMMA BeginsGrow ==
    ASSUME NEW s \in Streams, NEW j \in 1 .. Len(s.length) + 1,
           NEW k \in 1 .. Len(s.length) + 1, j < k
    PROVE  s.begin[j] < s.begin[k]
<1> DEFINE n == Len(s.length)
           T == {x \in 1 .. n + 1 : j < x /\ ~(s.begin[j] < s.begin[x])}
           R == {p \in Nat \X Nat : p[1] < p[2]}
<1>1. /\ n \in Nat /\ Len(s.bytes) \in Nat
      /\ \A x \in 1 .. n : /\ s.length[x] \in Nat /\ s.width[x] \in 1 .. 4
                           /\ s.begin[x + 1] =
                                 s.begin[x] + 1 + s.width[x] + s.length[x]
      /\ \A x \in 1 .. n + 1 : s.begin[x] \in 0 .. Len(s.bytes)
  BY StreamTypes
<1>2. \A x \in 1 .. n : /\ s.begin[x] \in Nat /\ s.begin[x + 1] \in Nat
                        /\ s.begin[x] < s.begin[x + 1]
  <2> TAKE x \in 1 .. n
  <2> DEFINE b == s.begin[x]
             e == s.begin[x + 1]
             w == s.width[x]
             l == s.length[x]
  <2>1. x \in 1 .. n + 1 /\ x + 1 \in 1 .. n + 1
    BY <1>1
  <2>2. b \in Nat /\ e \in Nat
    BY <1>1, <2>1
  <2>3. e = b + 1 + w + l /\ w \in 1 .. 4 /\ l \in Nat
    BY <1>1
  <2> HIDE DEF b, e, w, l
  <2>4. b < e
    BY <2>2, <2>3
  <2>5. QED
    BY <2>2, <2>4 DEF b, e
<1>3. SUFFICES ASSUME T # {} PROVE FALSE
  OBVIOUS
<1>4. PICK x \in T : \A y \in T : ~(<<y, x>> \in R)
  <2>1. T \subseteq Nat
    BY <1>1
  <2>2. IsWellFoundedOn(R, Nat)
    BY NatLessThanWellFounded, Zenon DEF OpToRel
  <2> HIDE DEF T, R
  <2>3. QED
    BY <1>3, <2>1, <2>2, WFMin
<1>5. /\ x \in 1 .. n + 1 /\ j < x /\ ~(s.begin[j] < s.begin[x])
      /\ x - 1 \in 1 .. n /\ x - 1 + 1 = x
  BY <1>1, <1>4
<1>6. s.begin[x - 1] < s.begin[x]
  BY <1>2, <1>5
<1>7. CASE j = x - 1
  BY <1>5, <1>6, <1>7
<1>8. CASE j < x - 1
  <2>1. x - 1 \notin T
    <3>1. <<x - 1, x>> \in R
      BY <1>1, <1>5
    <3> HIDE DEF T, R
    <3>2. QED
      BY <1>4, <3>1
  <2>2. s.begin[j] < s.begin[x - 1]
    BY <1>1, <1>5, <1>8, <2>1
  <2> DEFINE a == s.begin[j]
             b == s.begin[x - 1]
             c == s.begin[x]
  <2>3. a \in Nat /\ b \in Nat /\ c \in Nat /\ a < b /\ b < c /\ ~(a < c)
    BY <1>1, <1>2, <1>5, <1>6, <2>2
  <2> HIDE DEF a, b, c
  <2>4. QED
    BY <2>3
<1>9. QED
  BY <1>1, <1>5, <1>7, <1>8

\* The packets that have come whole can be counted,
LEMMA WholeIsFinite ==
    ASSUME stream \in Streams
    PROVE  IsFiniteSet(Whole) /\ Cardinality(Whole) \in Nat
<1>1. Len(stream.length) \in Nat
  BY StreamTypes
<1>2. IsFiniteSet(1 .. Len(stream.length))
  BY <1>1, FS_Interval
<1>3. Whole \in SUBSET (1 .. Len(stream.length))
  BY DEF Whole
<1>4. IsFiniteSet(Whole)
  BY <1>2, <1>3, FS_Subset
<1>5. QED
  BY <1>4, FS_CardinalityType

\* there are no gaps among them,
LEMMA WholeFromFirst ==
    ASSUME stream \in Streams, NEW k \in Whole, arrived \in Nat
    PROVE  k <= Cardinality(Whole)
<1>1. /\ Len(stream.length) \in Nat /\ k \in 1 .. Len(stream.length)
      /\ stream.begin[k + 1] <= arrived
  BY StreamTypes DEF Whole
<1>2. ASSUME NEW j \in 1 .. k
      PROVE  j \in Whole
  <2>1. CASE j = k
    BY <2>1
  <2>2. CASE j < k
    <3>1. /\ j + 1 \in 1 .. Len(stream.length) + 1
          /\ k + 1 \in 1 .. Len(stream.length) + 1 /\ j + 1 < k + 1
          /\ j \in 1 .. Len(stream.length)
      BY <1>1, <2>2
    <3>2. stream.begin[j + 1] < stream.begin[k + 1]
      BY <3>1, BeginsGrow
    <3>3. /\ stream.begin[j + 1] \in 0 .. Len(stream.bytes)
          /\ stream.begin[k + 1] \in 0 .. Len(stream.bytes)
          /\ Len(stream.bytes) \in Nat
      BY <3>1, StreamTypes
    <3> DEFINE b == stream.begin[j + 1]
               e == stream.begin[k + 1]
               end == Len(stream.bytes)
    <3>4. b \in 0 .. end /\ e \in 0 .. end /\ end \in Nat /\ b < e
          /\ e <= arrived
      BY <1>1, <3>2, <3>3
    <3> HIDE DEF b, e, end
    <3>5. b <= arrived
      BY <3>4
    <3>6. QED
      BY <3>1, <3>5 DEF Whole, b
  <2>3. j <= k
    BY <1>1
  <2>4. QED
    BY <1>1, <2>1, <2>2, <2>3
<1>3. 1 .. k \in SUBSET Whole
  BY <1>2
<1>4. Cardinality(1 .. k) = k
  BY <1>1, FS_Interval
<1>5. Cardinality(1 .. k) <= Cardinality(Whole)
  BY <1>3, WholeIsFinite, FS_Subset
<1>6. QED
  BY <1>4, <1>5

\* and one byte more completes one packet or none.
LEMMA ArriveIsCome ==
    ASSUME Types, Arrive
    PROVE  Cardinality(Whole') \in {Cardinality(Whole), Cardinality(Whole) + 1}
<1> DEFINE n == Len(stream.length)
           new == {k \in 1 .. n : stream.begin[k + 1] = arrived + 1}
<1>1. /\ stream \in Streams /\ stream' = stream
      /\ arrived \in Nat /\ arrived' = arrived + 1
      /\ n \in Nat /\ Len(stream.bytes) \in Nat
  BY StreamTypes DEF Arrive, Types, TypeOK
<1>2. \A k \in 1 .. n : stream.begin[k + 1] \in Nat
  <2> TAKE k \in 1 .. n
  <2>1. k + 1 \in 1 .. n + 1
    BY <1>1
  <2>2. QED
    BY <1>1, <2>1, StreamTypes
<1>3. Whole' = Whole \cup new
  <2>1. Whole' = {k \in 1 .. n : stream.begin[k + 1] <= arrived + 1}
    BY <1>1 DEF Whole
  <2>2. \A k \in 1 .. n : stream.begin[k + 1] <= arrived + 1
           <=> \/ stream.begin[k + 1] <= arrived
               \/ stream.begin[k + 1] = arrived + 1
    BY <1>1, <1>2
  <2>3. QED
    BY <2>1, <2>2 DEF Whole
<1>4. \A j, k \in new : j = k
  <2> SUFFICES ASSUME NEW j \in new, NEW k \in new, j < k
               PROVE  FALSE
    BY <1>1
  <2>1. /\ j + 1 \in 1 .. n + 1 /\ k + 1 \in 1 .. n + 1 /\ j + 1 < k + 1
        /\ stream.begin[j + 1] = arrived + 1
        /\ stream.begin[k + 1] = arrived + 1
    BY <1>1
  <2>2. stream.begin[j + 1] < stream.begin[k + 1]
    BY <1>1, <2>1, BeginsGrow
  <2>3. QED
    BY <1>1, <2>1, <2>2
<1>5. IsFiniteSet(Whole) /\ Cardinality(Whole) \in Nat
  BY <1>1, WholeIsFinite
<1>6. CASE new = {}
  BY <1>3, <1>6
<1>7. CASE new # {}
  <2>1. PICK k \in new : TRUE
    BY <1>7
  <2>2. Whole' = Whole \cup {k}
    BY <1>3, <1>4, <2>1
  <2>3. QED
    BY <1>5, <2>2, FS_AddElement
<1>8. QED
  BY <1>6, <1>7

\* The beginnings of buf: the longer the more.
LEMMA Beginnings ==
    ASSUME NEW a \in Nat, NEW b \in Nat
    PROVE  LET S(n) == [k \in 1 .. n |-> k]
           IN  /\ S(a) = S(b) <=> a = b
               /\ S(a) = <<>> <=> a = 0
               /\ IsStrictPrefix(S(a), S(b)) <=> a < b
<1> DEFINE S(n) == [k \in 1 .. n |-> k]
<1>1. ASSUME NEW n \in Nat
      PROVE  S(n) \in Seq(Nat) /\ Len(S(n)) = n
  <2>1. S(n) \in [1 .. n -> Nat]
    OBVIOUS
  <2>2. QED
    BY <2>1
<1>2. S(a) = S(b) => a = b
  <2>1. Len(S(a)) = a /\ Len(S(b)) = b
    BY <1>1
  <2> HIDE DEF S
  <2>2. QED
    BY <2>1
<1>3. S(a) = <<>> <=> a = 0
  <2>1. Len(S(a)) = a /\ Len(<<>>) = 0
    BY <1>1
  <2>2. a = 0 => S(a) = <<>>
    OBVIOUS
  <2> HIDE DEF S
  <2>3. QED
    BY <2>1, <2>2
<1>4. a <= b => SubSeq(S(b), 1, a) = S(a)
  OBVIOUS
<1>5. SubSeq(S(a), 1, a) = S(a)
  OBVIOUS
<1>6. IsStrictPrefix(S(a), S(b)) <=> a < b
  <2>1. Len(S(a)) = a /\ Len(S(b)) = b
    BY <1>1
  <2> HIDE DEF S
  <2>2. QED
    BY <1>2, <1>4, <1>5, <2>1 DEF IsStrictPrefix, IsPrefix
<1>7. QED
  BY <1>2, <1>3, <1>6

\* What is out, by the number of bytes that were sent.
OutBySent ==
    /\ sent = 0 => Out = "nothing"
    /\ 0 < sent /\ sent < length => Out = "part"
    /\ 0 < sent /\ sent = length => Out = "packet"
    /\ 0 < length /\ length < sent => Out = "more"

\* As all that was written is the beginning of buf.
LEMMA OutIs == Types /\ Writes => OutBySent
<1> SUFFICES ASSUME Types, Writes PROVE OutBySent
  OBVIOUS
<1> DEFINE S(n) == [k \in 1 .. n |-> k]
<1>1. sent \in Nat /\ length \in Nat
  BY TransportAssumption DEF Types, TypeOK
<1>2. wire = S(sent) /\ InBuf = S(length)
  BY DEF Writes, InBuf
<1>3. /\ S(sent) = S(length) <=> sent = length
      /\ S(sent) = <<>> <=> sent = 0
      /\ IsStrictPrefix(S(sent), S(length)) <=> sent < length
      /\ IsStrictPrefix(S(length), S(sent)) <=> length < sent
  BY <1>1, Beginnings
<1> HIDE DEF S
<1>4. QED
  BY <1>1, <1>2, <1>3 DEF Out, OutBySent

\* The state of the link changes with these variables only.
LinkState == <<Cardinality(Whole), packets, torn, Out, rc>>

\* What has come whole, and what is out, depend on these.
LEMMA LinkDependsOn ==
    /\ UNCHANGED <<stream, arrived>> => UNCHANGED Cardinality(Whole)
    /\ UNCHANGED <<length, wire>> => UNCHANGED Out
BY DEF Whole, Out, InBuf

\* While the reader waits and receives, nothing is read.
LEMMA ReceivingIsNoStep ==
    ASSUME Types, Writes,
           \/ Readable \/ RecvPart \/ readPacket \/ NoHeader \/ HeaderRead
           \/ sendPacket \/ UNCHANGED vars
    PROVE  UNCHANGED LinkState
<1>1. CASE Readable \/ RecvPart \/ readPacket \/ NoHeader \/ HeaderRead
  <2>1. UNCHANGED <<stream, arrived, packets, torn, length, wire, rc>>
    BY <1>1 DEF Readable, RecvPart, readPacket, NoHeader, HeaderRead,
       Received, reader, writer
  <2>2. QED
    BY <2>1, LinkDependsOn DEF LinkState
<1>2. CASE sendPacket
  <2>1. /\ UNCHANGED <<stream, arrived, packets, torn, wire, rc>>
        /\ at # "write"
    BY <1>2 DEF sendPacket, reader
  <2>2. wire = <<>>
    <3>1. wire = [k \in 1 .. 0 |-> k]
      BY <2>1 DEF Writes
    <3>2. [k \in 1 .. 0 |-> k] = <<>>
      BY Beginnings
    <3>3. QED
      BY <3>1, <3>2
  <2>3. UNCHANGED Out
    BY <2>1, <2>2 DEF Out
  <2>4. QED
    BY <2>1, <2>3, LinkDependsOn DEF LinkState
<1>3. CASE UNCHANGED vars
  <2>1. UNCHANGED <<stream, arrived, packets, torn, length, wire, rc>>
    BY <1>3 DEF vars, reader, writer
  <2>2. QED
    BY <2>1, LinkDependsOn DEF LinkState
<1>4. QED
  BY <1>1, <1>2, <1>3

\* A packet is read at its last byte, which has arrived then.
LEMMA ReadIsRead ==
    ASSUME Types, Synchronised, Types', Synchronised', LengthRead \/ RestRead
    PROVE  Link!Read \/ Link!Tear \/ UNCHANGED LinkState
<1>1. UNCHANGED <<stream, arrived, torn, length, wire, rc>>
  BY DEF LengthRead, RestRead, Received, writer
<1>2. \/ packets' = packets
      \/ packets' = packets + 1 /\ at' = "idle"
  BY DEF LengthRead, RestRead, Left
<1>3. packets \in Nat /\ packets' \in Nat /\ torn \in BOOLEAN
  BY DEF Types, TypeOK
<1>4. UNCHANGED <<Cardinality(Whole), Out>>
  BY <1>1, LinkDependsOn
<1>5. CASE packets' = packets
  BY <1>1, <1>4, <1>5 DEF LinkState
<1>6. CASE torn
  BY <1>1, <1>3, <1>4, <1>6 DEF Link!Tear, Link!writing
<1>7. CASE packets' = packets + 1 /\ at' = "idle" /\ ~torn
  <2>1. /\ packets + 1 \in 0 .. Len(stream.length)
        /\ pos' = stream.begin[packets + 1 + 1]
    BY <1>1, <1>7 DEF Synchronised
  <2>2. pos' <= arrived /\ arrived \in Nat /\ Len(stream.length) \in Nat
        /\ stream \in Streams
    <3>1. stream \in Streams /\ arrived \in 0 .. Len(stream.bytes)
          /\ pos' \in 0 .. arrived'
      BY DEF Types, TypeOK
    <3>2. Len(stream.bytes) \in Nat /\ Len(stream.length) \in Nat
      BY <3>1, StreamTypes
    <3>3. pos' \in 0 .. arrived
      BY <1>1, <3>1
    <3>4. QED
      BY <3>1, <3>2, <3>3
  <2>3. packets + 1 \in Whole
    BY <1>3, <2>1, <2>2 DEF Whole
  <2>4. packets + 1 <= Cardinality(Whole) /\ Cardinality(Whole) \in Nat
    BY <2>2, <2>3, WholeFromFirst, WholeIsFinite
  <2>5. packets < Cardinality(Whole)
    BY <1>3, <2>4
  <2>6. QED
    BY <1>1, <1>4, <1>7, <2>5 DEF Link!Read, Link!writing
<1>8. QED
  BY <1>2, <1>3, <1>5, <1>6, <1>7

\* What fails in its middle tears the link.
LEMMA FailingIsTear ==
    ASSUME Types, Types', Failing
    PROVE  Link!Tear
<1>1. UNCHANGED <<stream, arrived, length, wire, rc>> /\ torn' = TRUE
  BY DEF Failing, RecvFails, LengthTimesOut, RestTimesOut, writer
<1>2. packets' \in Nat
  BY DEF Types, TypeOK
<1>3. QED
  BY <1>1, <1>2, LinkDependsOn DEF Link!Tear, Link!writing

\* What the socket takes of the packet goes out behind what it has taken.
LEMMA WriteIsPut ==
    ASSUME Types, Writes, Types', Writes', xdk_write
    PROVE  Link!Put \/ UNCHANGED LinkState
<1>1. PICK n \in 1 .. length : sent' = sent + n
  BY DEF xdk_write
<1>2. /\ UNCHANGED <<stream, arrived, packets, torn, length, rc>>
      /\ sent < length
  BY DEF xdk_write, reader
<1>3. sent \in Nat /\ length \in Nat
  BY TransportAssumption DEF Types, TypeOK
<1>4. /\ sent = 0 => Out = "nothing"
      /\ 0 < sent => Out = "part"
  BY <1>2, OutIs DEF OutBySent
<1>5. OutBySent'
  BY OutIs, PTL
<1>6. \/ Out = "nothing" /\ Out' \in {"part", "packet"}
      \/ Out = "part" /\ Out' \in {"part", "packet", "more"}
  BY <1>1, <1>2, <1>3, <1>4, <1>5 DEF OutBySent
<1>7. QED
  BY <1>2, <1>6, LinkDependsOn DEF Link!Put, Link!reading, LinkState

\* The end of a write reports what is out.
LEMMA SentIsReturn ==
    ASSUME Types, Writes, Types', Writes', Sent
    PROVE  Link!Return
<1>1. /\ UNCHANGED <<stream, arrived, packets, torn>>
      /\ at = "write" /\ wire' = <<>>
      /\ rc' = IF sent = length THEN SUCCESS ELSE FAILURE
  BY DEF Sent, reader
<1>2. sent \in Nat /\ length \in Nat \ {0}
  BY <1>1, TransportAssumption DEF Types, TypeOK, Writes
<1>3. Out = "packet" <=> sent = length
  BY <1>2, OutIs DEF OutBySent
<1>4. Out' = "nothing"
  BY <1>1 DEF Out
<1>5. QED
  BY <1>1, <1>3, <1>4, LinkDependsOn
  DEF Link!Return, Link!reading, SUCCESS, FAILURE

\* In the beginning nothing has come and nothing is out.
LEMMA LinkInit == Init => Link!Init
<1> SUFFICES ASSUME Init PROVE Link!Init
  OBVIOUS
<1>1. Whole = {}
  <2> SUFFICES ASSUME NEW k \in 1 .. Len(stream.length),
                      stream.begin[k + 1] <= 0
               PROVE  FALSE
    BY DEF Whole, Init
  <2>1. stream \in Streams /\ Len(stream.length) \in Nat
        /\ stream.begin[1] = 0
    BY StreamTypes DEF Init
  <2>2. /\ 1 \in 1 .. Len(stream.length) + 1
        /\ k + 1 \in 1 .. Len(stream.length) + 1 /\ 1 < k + 1
    BY <2>1
  <2>3. stream.begin[1] < stream.begin[k + 1]
    BY <2>1, <2>2, BeginsGrow
  <2>4. stream.begin[k + 1] \in Nat
    BY <2>1, <2>2, StreamTypes
  <2>5. QED
    BY <2>1, <2>3, <2>4
<1>2. Cardinality(Whole) = 0
  BY <1>1, FS_EmptySet
<1>3. QED
  BY <1>2 DEF Init, Link!Init, Out, SUCCESS

\* Every step of the transport is one of the link, or none.
LEMMA LinkSteps ==
    ASSUME Types, Writes, Synchronised, Types', Writes', Synchronised',
           [Next]_vars
    PROVE  [Link!Next]_<<Link!reading, Link!writing>>
<1>1. ASSUME UNCHANGED LinkState
      PROVE  UNCHANGED <<Link!reading, Link!writing>>
  BY <1>1 DEF LinkState, Link!reading, Link!writing
<1>2. CASE Arrive
  <2>1. UNCHANGED <<packets, torn, length, wire, rc>>
    BY <1>2 DEF Arrive, writer
  <2>2. \/ Cardinality(Whole)' = Cardinality(Whole)
        \/ Cardinality(Whole)' = Cardinality(Whole) + 1
    BY <1>2, ArriveIsCome
  <2>3. QED
    BY <1>1, <2>1, <2>2, LinkDependsOn
    DEF LinkState, Link!Next, Link!Come, Link!writing
<1>3. CASE LengthRead \/ RestRead
  BY <1>1, <1>3, ReadIsRead DEF Link!Next
<1>4. CASE Failing
  BY <1>4, FailingIsTear DEF Link!Next
<1>5. CASE xdk_write
  BY <1>1, <1>5, WriteIsPut DEF Link!Next
<1>6. CASE Sent
  BY <1>6, SentIsReturn DEF Link!Next
<1>7. CASE \/ Readable \/ RecvPart \/ readPacket \/ NoHeader \/ HeaderRead
           \/ sendPacket \/ UNCHANGED vars
  BY <1>1, <1>7, ReceivingIsNoStep
<1>8. QED
  BY <1>2, <1>3, <1>4, <1>5, <1>6, <1>7 DEF Next, Reading, Sending

\* The invariant of the transport, in every state.
LEMMA TransportInvariant == Spec => [](Types /\ Writes /\ Synchronised)
<1>1. Init => Writes
  BY Beginnings DEF Init, Writes
<1>2. Init => Synchronised
  <2> SUFFICES ASSUME Init PROVE Synchronised
    OBVIOUS
  <2>1. Len(stream.length) \in Nat /\ stream.begin[1] = 0
    BY StreamTypes DEF Init
  <2>2. QED
    BY <2>1 DEF Init, Synchronised
<1>3. Types /\ Writes /\ Synchronised /\ [Next]_vars =>
         (Types /\ Writes /\ Synchronised)'
  BY NextTypes, NextWrites, NextSynchronised
<1>4. QED
  BY InitTypes, <1>1, <1>2, <1>3, PTL DEF Spec

\* The client is promised the link it is modelled on: whatever segments,
\* timeouts and short writes there are, packets are read in their order, once
\* and whole, until one is left in its middle, and what a write leaves on the
\* wire is nothing, a part, all or all and more, a success being exactly all.
THEOREM TransportIsPacketLink == Spec => ImplementsPacketLink
<1>1. Types /\ Writes /\ Synchronised /\ Types' /\ Writes' /\ Synchronised'
         /\ [Next]_vars => [Link!Next]_<<Link!reading, Link!writing>>
  BY LinkSteps
<1>2. QED
  BY TransportInvariant, LinkInit, <1>1, PTL
  DEF Spec, ImplementsPacketLink, Link!Spec
==============================================================================
