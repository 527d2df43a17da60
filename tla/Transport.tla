----------------------------- MODULE Transport -----------------------------
(***************************************************************************)
(* The bytes under the packets: sendPacket, readPacket and decodePacket of *)
(* src/src/MQTTClient.c over xdk_read and xdk_write of src/src/MQTTXDK.c.  *)
(*                                                                         *)
(* The client is used by one thread here, which reads or writes.  stream   *)
(* is all the broker will ever send; arrived and pos are positions in it.  *)
(* The remaining length is encoded with BASE values per byte, 128 in MQTT, *)
(* and what a byte means is decided by who reads it.                       *)
(***************************************************************************)
EXTENDS Integers, FiniteSets, SequencesExt

CONSTANTS
    BASE,            \* 128
    Streams,         \* what the broker may send: well-formed packets
    SendLengths,     \* the lengths of the packets the client sends
    MaxErrors        \* bound: how often sl_Recv fails

MAX_NO_OF_REMAINING_LENGTH_BYTES == 4
SUCCESS == 0
FAILURE == -1

\* What the digit in each byte of a remaining length counts.
Weight == <<1, BASE, BASE * BASE, BASE * BASE * BASE>>
MaxLength == BASE * Weight[MAX_NO_OF_REMAINING_LENGTH_BYTES] - 1

(***************************************************************************)
(* A stream has the bytes of packets that follow each other: the k-th one  *)
(* begins behind begin[k] bytes, with a header byte and its remaining      *)
(* length, length[k], in width[k] bytes of which all but the last have the *)
(* continuation bit, the value BASE.                                       *)
(***************************************************************************)
LengthByte(s, k, j) == s.bytes[s.begin[k] + 1 + j]
Digit(s, k, j) ==
    IF j <= s.width[k] THEN LengthByte(s, k, j) % BASE ELSE 0

WellFormed(s) ==
    LET n == Len(s.length)
    IN  /\ s.bytes \in Seq(0 .. 2 * BASE - 1)
        /\ s.length \in Seq(Nat)
        /\ s.width \in [1 .. n -> 1 .. MAX_NO_OF_REMAINING_LENGTH_BYTES]
        /\ s.begin \in [1 .. n + 1 -> 0 .. Len(s.bytes)]
        /\ s.begin[1] = 0 /\ s.begin[n + 1] = Len(s.bytes)
        /\ \A k \in 1 .. n :
              /\ s.begin[k + 1] =
                    s.begin[k] + 1 + s.width[k] + s.length[k]
              /\ \A j \in 1 .. s.width[k] :
                    LengthByte(s, k, j) >= BASE <=> j < s.width[k]
              /\ s.length[k] =
                    Digit(s, k, 1) * Weight[1] + Digit(s, k, 2) * Weight[2]
                    + Digit(s, k, 3) * Weight[3] + Digit(s, k, 4) * Weight[4]

ASSUME TransportAssumption ==
    /\ BASE \in Nat \ {0, 1}
    /\ \A s \in Streams : WellFormed(s)
    /\ SendLengths \subseteq Nat \ {0}
    /\ MaxErrors \in Nat

VARIABLES
    stream,           \* what the broker sends
    arrived,          \* bytes of the stream that can be received
    pos,              \* bytes of the stream that were received
    at,               \* where the thread is
    need,             \* xdk_read: bytes still to receive; 0 before sl_Select
    rem_len, multiplier, len,   \* decodePacket: value, factor, bytes read
    errors,           \* failures of sl_Recv so far
    packets,          \* readPacket has returned so many packet types
    torn,             \* history: a packet was left before its end
    length, sent,     \* sendPacket
    wire,             \* history: positions in buf of the bytes it has sent
    rc                \* what sendPacket returned last

decode == <<rem_len, multiplier, len>>
reader == <<stream, arrived, pos, need, decode, errors, packets, torn>>
writer == <<length, sent, wire, rc>>
vars   == <<reader, at, writer>>

Init ==
    /\ stream \in Streams
    /\ arrived = 0 /\ pos = 0
    /\ at = "idle" /\ need = 0
    /\ rem_len = 0 /\ multiplier = 1 /\ len = 0
    /\ errors = 0 /\ packets = 0 /\ torn = FALSE
    /\ length = 0 /\ sent = 0 /\ wire = <<>> /\ rc = SUCCESS

(***************************************************************************)
(* xdk_read, as its three callers in readPacket and decodePacket use it.   *)
(***************************************************************************)
Wanted == IF at = "rest" THEN rem_len ELSE 1

\* sl_Select times out only when no byte is there; the call returns 0.
TimedOut(where) == at = where /\ need = 0 /\ pos = arrived

\* sl_Select finds the socket readable.
Readable ==
    /\ at \in {"header", "length", "rest"}
    /\ need = 0 /\ pos < arrived
    /\ need' = Wanted
    /\ UNCHANGED <<stream, arrived, pos, decode, errors, packets, torn, at,
                   writer>>

\* A part of what is needed is received, and not the last of it.
RecvPart ==
    /\ \E n \in 1 .. need - 1 :
          /\ pos + n <= arrived
          /\ pos' = pos + n
          /\ need' = need - n
    /\ UNCHANGED <<stream, arrived, decode, errors, packets, torn, at,
                   writer>>

\* sl_Recv fails once with -1, which is added to the count as if it had
\* taken a byte back: one byte more than asked for will be received.
RecvFails ==
    /\ need > 0 /\ errors < MaxErrors
    /\ need' = need + 1
    /\ errors' = errors + 1
    /\ torn' = TRUE
    /\ UNCHANGED <<stream, arrived, pos, decode, packets, at, writer>>

\* A mutant: the loop goes on while recvLen <= len.
Received_OneMore(where) ==
    /\ at = where /\ need > 0
    /\ pos + need + 1 <= arrived
    /\ pos' = pos + need
    /\ need' = 0
    /\ UNCHANGED <<stream, arrived, errors>>

\* The last of it is received; buffer then ends with the byte at pos'.
Received(where) ==
    /\ at = where /\ need > 0
    /\ pos + need <= arrived
    /\ pos' = pos + need
    /\ need' = 0
    /\ UNCHANGED <<stream, arrived, errors>>

(***************************************************************************)
(* readPacket.                                                             *)
(***************************************************************************)
readPacket ==
    /\ at = "idle"
    /\ at' = "header"
    /\ UNCHANGED <<reader, writer>>

\* No header byte: FAILURE, and the next call begins where this one did.
NoHeader ==
    /\ TimedOut("header")
    /\ at' = "idle"
    /\ UNCHANGED <<reader, writer>>

HeaderRead ==
    /\ Received("header")
    /\ at' = "length"
    /\ UNCHANGED <<decode, packets, torn, writer>>

\* A mutant: the packet type is returned, and the payload is left.
Left_Payload(n) ==
    /\ rem_len' = 0 /\ multiplier' = 1 /\ len' = 0
    /\ at' = "idle"
    /\ packets' = packets + 1

\* With n bytes left to read; with none the packet type is returned.
Left(n) ==
    /\ rem_len' = n /\ multiplier' = 1 /\ len' = 0
    /\ at' = IF n > 0 THEN "rest" ELSE "idle"
    /\ packets' = IF n > 0 THEN packets ELSE packets + 1

\* Mutants: the limit is one byte lower; there is none.
LengthGoesOn_Early(i) ==
    i >= BASE /\ len + 1 < MAX_NO_OF_REMAINING_LENGTH_BYTES - 1
LengthGoesOn_NoLimit(i) == i >= BASE

\* Behind the fourth byte decodePacket stops in any case.
LengthGoesOn(i) == i >= BASE /\ len + 1 < MAX_NO_OF_REMAINING_LENGTH_BYTES

LengthRead ==
    LET i == stream.bytes[pos']
        value == rem_len + (i % BASE) * multiplier
    IN  /\ Received("length")
        /\ IF LengthGoesOn(i)
             THEN /\ rem_len' = value
                  /\ multiplier' = multiplier * BASE
                  /\ len' = len + 1
                  /\ UNCHANGED <<at, packets>>
             ELSE Left(value)
        /\ UNCHANGED <<torn, writer>>

\* Nothing to read in time: readPacket does not look at what decodePacket
\* returns and goes on with the value so far.
LengthTimesOut ==
    /\ TimedOut("length")
    /\ Left(rem_len)
    /\ torn' = TRUE
    /\ UNCHANGED <<stream, arrived, pos, need, errors, writer>>

RestRead ==
    /\ Received("rest")
    /\ Left(0)
    /\ UNCHANGED <<torn, writer>>

\* FAILURE, in the middle of a packet.
RestTimesOut ==
    /\ TimedOut("rest")
    /\ at' = "idle" /\ rem_len' = 0
    /\ torn' = TRUE
    /\ UNCHANGED <<stream, arrived, pos, need, multiplier, len, errors,
                   packets, writer>>

\* More bytes of the stream arrive.
Arrive ==
    /\ arrived < Len(stream.bytes)
    /\ arrived' = arrived + 1
    /\ UNCHANGED <<stream, pos, at, need, decode, errors, packets, torn,
                   writer>>

(***************************************************************************)
(* sendPacket.                                                             *)
(***************************************************************************)
sendPacket ==
    /\ at = "idle"
    /\ at' = "write"
    /\ length' \in SendLengths
    /\ UNCHANGED <<reader, sent, wire, rc>>

\* A mutant: what is written is always the beginning of buf.
xdk_write_FromStart ==
    /\ at = "write" /\ sent < length
    /\ \E n \in 1 .. length :
          /\ wire' = wire \o [k \in 1 .. n |-> k]
          /\ sent' = sent + n
    /\ UNCHANGED <<reader, at, length, rc>>

\* The socket takes some of the bytes it is given, which are length bytes
\* from &buf[sent] and not the rest of the packet.
xdk_write ==
    /\ at = "write" /\ sent < length
    /\ \E n \in 1 .. length :
          /\ wire' = wire \o [k \in 1 .. n |-> sent + k]
          /\ sent' = sent + n
    /\ UNCHANGED <<reader, at, length, rc>>

\* All is sent; or there was an error, or the timer has expired, or more
\* bytes are sent than there are.
Sent ==
    /\ at = "write"
    /\ rc' = IF sent = length THEN SUCCESS ELSE FAILURE
    /\ at' = "idle"
    /\ length' = 0 /\ sent' = 0 /\ wire' = <<>>
    /\ UNCHANGED reader

------------------------------------------------------------------------------
Reading == Readable \/ RecvPart \/ NoHeader \/ HeaderRead \/ LengthRead
           \/ RestRead
Failing == RecvFails \/ LengthTimesOut \/ RestTimesOut
Sending == sendPacket \/ xdk_write \/ Sent

Next == readPacket \/ Reading \/ Failing \/ Sending \/ Arrive

Spec == Init /\ [][Next]_vars

\* The thread reads again and again, what the broker sent arrives in the end,
\* and the socket comes to an end with what it was given.
FairSpec ==
    /\ Spec
    /\ WF_vars(Arrive)
    /\ WF_vars(Sent)
    /\ WF_vars(Reading)
    /\ SF_vars(readPacket)

------------------------------------------------------------------------------
(***************************************************************************)
(* Properties.                                                             *)
(***************************************************************************)
\* The type invariant.
TypeOK ==
    /\ stream \in Streams
    /\ arrived \in 0 .. Len(stream.bytes) /\ pos \in 0 .. arrived
    /\ at \in {"idle", "header", "length", "rest", "write"}
    /\ need \in 0 .. MaxLength + MaxErrors
    /\ rem_len \in 0 .. MaxLength
    /\ len \in 0 .. MAX_NO_OF_REMAINING_LENGTH_BYTES - 1
    /\ multiplier = Weight[len + 1]
    /\ errors \in 0 .. MaxErrors
    /\ packets \in Nat /\ torn \in BOOLEAN
    /\ length \in SendLengths \cup {0} /\ sent \in Nat
    /\ wire \in Seq(Nat) /\ rc \in {SUCCESS, FAILURE}

\* As long as no packet was left in its middle, the reader is in step with the
\* broker, for every length the encoding allows, however the bytes are cut into
\* segments and however many calls find nothing: it is between two packets
\* when no call is under way, knows the length of the packet that comes when it
\* asks for its payload, and never asks for a byte more than comes.  (There
\* is no timeout once a byte has arrived: it would not come back.)
InStep ==
    ~torn => /\ at \in {"idle", "write"} => pos = stream.begin[packets + 1]
             /\ at = "rest" => rem_len = stream.length[packets + 1]
             /\ pos + need <= Len(stream.bytes)

\* sendPacket reports success exactly if the packet went out, whole and with
\* nothing behind it, although a short write is followed by one of length
\* bytes again.
SuccessIsWhole ==
    [][at = "write" /\ at' # "write" =>
          (rc' = SUCCESS <=> wire = [k \in 1 .. length |-> k])]_vars

\* What of the packet is out, by the bytes on the wire.
InBuf == [k \in 1 .. length |-> k]
Out == IF wire = <<>> THEN "nothing"
       ELSE IF wire = InBuf THEN "packet"
       ELSE IF IsStrictPrefix(wire, InBuf) THEN "part"
       ELSE IF IsStrictPrefix(InBuf, wire) THEN "more"
       ELSE "something else"

\* The packets of which all bytes have arrived.
Whole == {k \in 1 .. Len(stream.length) : stream.begin[k + 1] <= arrived}

Link == INSTANCE PacketLink WITH come <- Cardinality(Whole), read <- packets,
                                 out <- Out

\* Over any segments, timeouts and short writes the client is promised what
\* PacketLink says: no packet is read twice, out of its order or before it
\* has come whole, and a write that fails leaves on the wire nothing, a part
\* of the packet or more than it, as MQTTClient has it in FailsToWrite.
ImplementsPacketLink == Link!Spec

\* Every packet of the broker is read, unless one is left in its middle.
EveryPacketIsRead == <>(torn \/ packets = Len(stream.length))
==============================================================================
