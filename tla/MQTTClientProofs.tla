-------------------------- MODULE MQTTClientProofs --------------------------
(***************************************************************************)
(* Proofs about MQTTClient.                                                *)
(***************************************************************************)
EXTENDS MQTTClient, FiniteSetTheorems, FunctionTheorems, SequenceTheorems,
        TLAPS

Codes == {0, 1, 2, 5, 128}

\* The type invariant, but for the results of the calls: with several threads
\* a call may take its result from the packet that another one has read.
ThreadTypes ==
    /\ at \in [Threads -> {"idle", "send", "wait", "ack", "keepalive", "ping",
                           "cycled", "spin"}]
    /\ call \in [Threads -> Operations \cup {"none"}]
    /\ request \in [Threads -> Packets]
    /\ cycleRc \in [Threads -> PacketTypes \cup {"none", "65535"}]
    /\ expired \in [Threads -> BOOLEAN]
    /\ result \in [Threads -> Codes \cup {FAILURE}]

ClientTypes ==
    /\ buf \in Packets /\ readbuf \in Packets
    /\ isconnected \in BOOLEAN
    /\ next_packetid \in 0 .. MAX_PACKET_ID
    /\ ping_outstanding \in BOOLEAN /\ pingDue \in BOOLEAN
    /\ handlers \in [1 .. MAX_MESSAGE_HANDLERS -> Filters \cup {NoFilter}]

NetTypes ==
    /\ link \in {"none", "open", "lost"}
    /\ toServer \in Seq(Packets) /\ Len(toServer) <= QueueBound
    /\ toClient \in Seq(Packets) /\ Len(toClient) <= QueueBound
    /\ session \in {"none", "accepted", "refused"}
    /\ subs \subseteq Filters

\* A SUBSCRIBE names a filter: subs would not be a set of filters without.
Named(p) == p.type = "SUBSCRIBE" => p.topic \in Filters
SubscriptionsAreNamed ==
    Named(buf) /\ \A i \in 1 .. Len(toServer) : Named(toServer[i])

Types == ThreadTypes /\ ClientTypes /\ NetTypes /\ SubscriptionsAreNamed

------------------------------------------------------------------------------
(***************************************************************************)
(* What the operators return.                                              *)
(***************************************************************************)

\* The packets the model builds are packets.
LEMMA PacketsAreBuilt ==
    ASSUME NEW type \in PacketTypes, NEW id \in 0 .. MAX_PACKET_ID,
           NEW code \in Codes, NEW topic \in Filters \cup {NoFilter}
    PROVE  /\ Packet(type, id, code, topic) \in Packets
           /\ Plain(type) \in Packets
           /\ Ack(type, id) \in Packets
BY BoundAssumption DEF Packet, Plain, Ack, PacketTypes, Packets, Codes

\* So are the constant ones.
LEMMA ConstantPackets ==
    NoPacket \in Packets /\ PINGREQ \in Packets /\ GARBLED \in Packets
<1>1. 0 \in 0 .. MAX_PACKET_ID
  BY BoundAssumption
<1>2. QED
  BY <1>1 DEF NoPacket, PINGREQ, GARBLED, Plain, Packet, PacketTypes, Packets

\* A reply is an acknowledgement with the identifier of the packet, or there
\* is none.
LEMMA ReplyTypes ==
    ASSUME NEW p \in Packets
    PROVE  /\ Reply(p) \in Packets
           /\ Reply(p).type \in {"PUBREL", "PUBACK", "PUBREC", "NONE"}
           /\ p.type \notin {"PUBREC", "PUBLISH"} => Reply(p) = NoPacket
<1>1. p.id \in 0 .. MAX_PACKET_ID
  BY DEF Packets
<1>2. \/ Reply(p) = NoPacket
      \/ /\ p.type \in {"PUBREC", "PUBLISH"}
         /\ \E type \in {"PUBREL", "PUBACK", "PUBREC"} :
               Reply(p) = Ack(type, p.id)
  BY DEF Reply
<1>3. \A type \in {"PUBREL", "PUBACK", "PUBREC"} :
         Ack(type, p.id) \in Packets /\ Ack(type, p.id).type = type
  BY <1>1 DEF Ack, Packet, PacketTypes, Packets
<1>4. NoPacket.type = "NONE"
  BY DEF NoPacket, Plain, Packet
<1>5. QED
  BY <1>2, <1>3, <1>4, ConstantPackets

\* The identifiers stay within their range, and are never 0.
LEMMA PacketIdTypes ==
    ASSUME next_packetid \in 0 .. MAX_PACKET_ID
    PROVE  getNextPacketId \in 1 .. MAX_PACKET_ID
BY BoundAssumption DEF getNextPacketId

\* The broker answers a packet with one packet or none: CONNECT with CONNACK,
\* PINGREQ with PINGRESP and SUBSCRIBE with a SUBACK of its identifier, and
\* these three only.
LEMMA AnswerTypes ==
    ASSUME NEW p \in Packets, NEW answer \in Answers(p)
    PROVE  \/ /\ answer = <<>>
              /\ p.type \notin {"CONNECT", "SUBSCRIBE", "PINGREQ"}
           \/ \E a \in Packets :
                 /\ answer = <<a>>
                 /\ a.type = "CONNACK" <=> p.type = "CONNECT"
                 /\ a.type = "PINGRESP" <=> p.type = "PINGREQ"
                 /\ a.type = "SUBACK" <=> p.type = "SUBSCRIBE"
                 /\ a.type = "CONNACK" => a.code \in {0, 5} /\ a.id = 0
                 /\ a.type = "SUBACK" => a.code \in {0, 128} /\ a.id = p.id
                 /\ a.type = "PUBLISH" => a.code = 0
                 /\ a.type \notin {"CONNECT", "SUBSCRIBE", "UNSUBSCRIBE"}
<1>1. p.id \in 0 .. MAX_PACKET_ID /\ 0 \in 0 .. MAX_PACKET_ID
  BY BoundAssumption DEF Packets
<1>2. CASE p.type = "CONNECT"
  <2>1. PICK code \in {0, 5} :
           answer = <<Packet("CONNACK", 0, code, NoFilter)>>
    BY <1>2 DEF Answers
  <2>2. Packet("CONNACK", 0, code, NoFilter) \in Packets
    BY <1>1 DEF Packet, PacketTypes, Packets
  <2>3. QED
    BY <1>2, <2>1, <2>2 DEF Packet
<1>3. CASE p.type = "SUBSCRIBE"
  <2>1. PICK code \in {0, 128} :
           answer = <<Packet("SUBACK", p.id, code, NoFilter)>>
    BY <1>3 DEF Answers
  <2>2. Packet("SUBACK", p.id, code, NoFilter) \in Packets
    BY <1>1 DEF Packet, PacketTypes, Packets
  <2>3. QED
    BY <1>3, <2>1, <2>2 DEF Packet
<1>4. CASE p.type = "PINGREQ"
  <2>1. answer = <<Plain("PINGRESP")>>
    BY <1>4 DEF Answers
  <2>2. Plain("PINGRESP") \in Packets
    BY <1>1 DEF Plain, Packet, PacketTypes, Packets
  <2>3. QED
    BY <1>4, <2>1, <2>2 DEF Plain, Packet
<1>5. CASE p.type \notin {"CONNECT", "SUBSCRIBE", "PINGREQ"}
  <2>1. \/ answer = <<>>
        \/ \E type \in {"UNSUBACK", "PUBACK", "PUBREC", "PUBREL",
                        "PUBCOMP"} : answer = <<Ack(type, p.id)>>
    BY <1>5 DEF Answers
  <2>2. \A type \in {"UNSUBACK", "PUBACK", "PUBREC", "PUBREL", "PUBCOMP"} :
           Ack(type, p.id) \in Packets /\ Ack(type, p.id).type = type
    BY <1>1 DEF Ack, Packet, PacketTypes, Packets
  <2>3. CASE answer = <<>>
    BY <1>5, <2>3
  <2>4. ASSUME NEW type \in {"UNSUBACK", "PUBACK", "PUBREC", "PUBREL",
                             "PUBCOMP"}, answer = <<Ack(type, p.id)>>
        PROVE  \E ack \in Packets :
                  answer = <<ack>> /\ ack.type = type
    BY <2>2, <2>4
  <2>5. QED
    BY <1>5, <2>1, <2>3, <2>4
<1>6. QED
  BY <1>2, <1>3, <1>4, <1>5

------------------------------------------------------------------------------
(***************************************************************************)
(* The queues.                                                             *)
(***************************************************************************)

\* What a write leaves in the queue to the broker: what was there, the buffer
\* if it is what the thread means to send, garbled bytes.
Written(t) == {<<>>, <<GARBLED>>, <<OnTheWire(t)>>, <<OnTheWire(t), GARBLED>>}

\* A packet of the write is the buffer as it is meant, in the first place, or
\* is garbled.
LEMMA WrittenPackets ==
    ASSUME Types, NEW t \in Threads, NEW packets \in Written(t)
    PROVE  /\ packets \in Seq(Packets)
           /\ \A i \in 1 .. Len(packets) :
                 \/ packets[i] = GARBLED
                 \/ i = 1 /\ packets[i] = buf /\ buf = Meant(t)
<1>1. OnTheWire(t) \in Packets /\ GARBLED \in Packets
  BY ConstantPackets DEF OnTheWire, Types, ClientTypes
<1>2. \/ OnTheWire(t) = GARBLED
      \/ OnTheWire(t) = buf /\ buf = Meant(t)
  BY DEF OnTheWire
<1>3. CASE packets = <<>>
  BY <1>3
<1>4. ASSUME NEW p \in {OnTheWire(t), GARBLED}, packets = <<p>>
      PROVE  /\ packets \in Seq(Packets)
             /\ Len(packets) = 1 /\ packets[1] = p
  BY <1>1, <1>4
<1>5. CASE packets = <<OnTheWire(t), GARBLED>>
  BY <1>1, <1>2, <1>5
<1>6. QED
  BY <1>2, <1>3, <1>4, <1>5 DEF Written

\* The queue after a write.
LEMMA QueueAfterWrite ==
    ASSUME Types, NEW t \in Threads, NEW packets \in Written(t), Puts(packets)
    PROVE  /\ toServer' \in Seq(Packets) /\ Len(toServer') <= QueueBound
           /\ Len(toServer) <= Len(toServer')
           /\ \A i \in 1 .. Len(toServer) : toServer'[i] = toServer[i]
           /\ \A i \in 1 .. Len(toServer') : i > Len(toServer) =>
                 \/ toServer'[i] = GARBLED
                 \/ /\ i = Len(toServer) + 1
                    /\ toServer'[i] = buf /\ buf = Meant(t)
<1>1. /\ toServer \in Seq(Packets) /\ Len(toServer) \in Nat
      /\ Len(toServer) <= QueueBound
  BY LenProperties DEF Types, NetTypes
<1>2. CASE link # "open"
  BY <1>1, <1>2 DEF Puts
<1>3. CASE link = "open"
  <2>1. /\ packets \in Seq(Packets) /\ Len(packets) \in Nat
        /\ \A i \in 1 .. Len(packets) :
              \/ packets[i] = GARBLED
              \/ i = 1 /\ packets[i] = buf /\ buf = Meant(t)
    BY WrittenPackets, LenProperties
  <2>2. /\ toServer' = toServer \o packets
        /\ Len(toServer) + Len(packets) <= QueueBound
    BY <1>3 DEF Puts
  <2>3. /\ toServer' \in Seq(Packets)
        /\ Len(toServer') = Len(toServer) + Len(packets)
        /\ \A i \in 1 .. Len(toServer) + Len(packets) : toServer'[i] =
              IF i <= Len(toServer) THEN toServer[i]
                                    ELSE packets[i - Len(toServer)]
    BY <1>1, <2>1, <2>2, ConcatProperties
  <2>4. QED
    BY <1>1, <2>1, <2>2, <2>3
<1>4. QED
  BY <1>2, <1>3

\* Every write of a thread is one of these.
LEMMA EveryWrite ==
    ASSUME NEW t \in Threads, Writes(t) \/ FailsToWrite(t)
    PROVE  \E packets \in Written(t) : Puts(packets)
BY DEF Writes, FailsToWrite, Written

\* What the broker does to the queue it answers into.
LEMMA QueueAfterAnswer ==
    ASSUME Types, BrokerTakes
    PROVE  /\ toServer # <<>>
           /\ toServer' = Tail(toServer)
           /\ \E answer \in Answers(Head(toServer)) :
                 /\ toClient' = toClient \o answer
                 /\ Len(toClient) + Len(answer) <= QueueBound
BY DEF BrokerTakes

------------------------------------------------------------------------------
(***************************************************************************)
(* The types, for any number of threads.                                   *)
(***************************************************************************)

\* Calls are operations.
LEMMA CallsAreOperations ==
    ASSUME NEW t \in Threads
    PROVE  Calls[t] \subseteq Operations
BY CallsAssumption

\* Entering and leaving a function keeps the types of the threads.
LEMMA EnterTypes ==
    ASSUME ThreadTypes,
           NEW t \in Threads, NEW f, NEW where \in {"send", "wait"},
           Enters(t, f, where), request' \in [Threads -> Packets]
    PROVE  ThreadTypes'
BY CallsAreOperations DEF Enters, ThreadTypes

\* So does leaving it with a code.
LEMMA LeaveTypes ==
    ASSUME ThreadTypes, NEW t \in Threads, NEW rc \in Codes \cup {FAILURE},
           Leaves(t, rc)
    PROVE  ThreadTypes'
BY ConstantPackets DEF Leaves, ThreadTypes

\* And so does moving within it.
LEMMA MoveTypes ==
    ASSUME ThreadTypes, NEW t \in Threads, NEW where \in {"wait", "ack",
           "keepalive", "ping", "cycled", "spin"}, NEW type \in
           PacketTypes \cup {"none", "65535"},
           \/ Goes(t, where) \/ CyclesAgain(t) \/ Reads(t, where, type)
    PROVE  ThreadTypes'
BY DEF Goes, CyclesAgain, Reads, ThreadTypes

\* A packet is sent from the buffer.
LEMMA SendTypes ==
    ASSUME ThreadTypes, NEW t \in Threads, NEW f, NEW packet \in Packets,
           Sends(t, f, packet)
    PROVE  ThreadTypes' /\ buf' \in Packets
<1>1. request' \in [Threads -> Packets]
  BY DEF Sends, ThreadTypes
<1>2. QED
  BY <1>1, EnterTypes DEF Sends

\* Types when a function begins.
LEMMA BeginTypes ==
    ASSUME Types, NEW t \in Threads, Begin(t)
    PROVE  Types'
<1> USE DEF Types
<1>1. CASE NotConnected(t) \/ ConnectNetworkFails(t)
  <2>1. ThreadTypes'
    BY <1>1, LeaveTypes DEF NotConnected, ConnectNetworkFails
  <2>2. CASE NotConnected(t)
    BY <2>1, <2>2 DEF NotConnected, clientVars, netVars, ClientTypes, NetTypes,
       SubscriptionsAreNamed
  <2>3. CASE ConnectNetworkFails(t)
    BY <2>1, <2>3, BoundAssumption DEF ConnectNetworkFails, clientVars,
       ClientTypes, NetTypes, SubscriptionsAreNamed
  <2>4. QED
    BY <1>1, <2>2, <2>3
<1>2. CASE MQTTConnect(t)
  <2>1. Plain("CONNECT") \in Packets
    BY PacketsAreBuilt, BoundAssumption DEF PacketTypes, Codes
  <2>2. ThreadTypes' /\ buf' \in Packets
    BY <1>2, <2>1, SendTypes DEF MQTTConnect
  <2>3. ClientTypes'
    BY <1>2, <2>2 DEF MQTTConnect, ClientTypes
  <2>4. NetTypes'
    BY <1>2, BoundAssumption DEF MQTTConnect, NetTypes
  <2>5. SubscriptionsAreNamed'
    BY <1>2 DEF MQTTConnect, Sends, Plain, Packet, SubscriptionsAreNamed,
       Named
  <2>6. QED
    BY <2>2, <2>3, <2>4, <2>5
<1>3. CASE MQTTSubscribe(t) \/ MQTTUnsubscribe(t) \/ MQTTPublish(t)
  <2>1. getNextPacketId \in 1 .. MAX_PACKET_ID
    BY PacketIdTypes DEF ClientTypes
  <2>2. /\ \A f \in Filters :
             /\ Packet("SUBSCRIBE", getNextPacketId, 0, f) \in Packets
             /\ Packet("UNSUBSCRIBE", getNextPacketId, 0, f) \in Packets
        /\ Packet("PUBLISH", 0, 0, NoFilter) \in Packets
        /\ \A qos \in {1, 2} :
             Packet("PUBLISH", getNextPacketId, qos, NoFilter) \in Packets
    BY <2>1, BoundAssumption DEF Packet, PacketTypes, Packets
  <2>3. ThreadTypes' /\ buf' \in Packets
    BY <1>3, <2>2, SendTypes DEF MQTTSubscribe, MQTTUnsubscribe, MQTTPublish
  <2>4. next_packetid' \in 0 .. MAX_PACKET_ID
    BY <1>3, <2>1 DEF MQTTSubscribe, MQTTUnsubscribe, MQTTPublish,
       TakesPacketId, ClientTypes
  <2>5. Named(buf')
    BY <1>3 DEF MQTTSubscribe, MQTTUnsubscribe, MQTTPublish, Sends, Packet,
       Named
  <2>6. QED
    BY <1>3, <2>3, <2>4, <2>5 DEF MQTTSubscribe, MQTTUnsubscribe, MQTTPublish,
       netVars, ClientTypes, NetTypes, SubscriptionsAreNamed
<1>4. CASE MQTTDisconnect(t)
  <2>1. Plain("DISCONNECT") \in Packets
    BY PacketsAreBuilt, BoundAssumption DEF PacketTypes, Codes
  <2>2. ThreadTypes' /\ buf' \in Packets
    BY <1>4, <2>1, SendTypes DEF MQTTDisconnect
  <2>3. Named(buf')
    BY <1>4 DEF MQTTDisconnect, Sends, Plain, Packet, Named
  <2>4. QED
    BY <1>4, <2>2, <2>3 DEF MQTTDisconnect, clientVars, netVars, ClientTypes,
       NetTypes, SubscriptionsAreNamed
<1>5. CASE MQTTYield(t)
  <2>1. ThreadTypes'
    BY <1>5, EnterTypes DEF MQTTYield, ThreadTypes
  <2>2. QED
    BY <1>5, <2>1 DEF MQTTYield, clientVars, netVars, ClientTypes, NetTypes,
       SubscriptionsAreNamed
<1>6. QED
  BY <1>1, <1>2, <1>3, <1>4, <1>5 DEF Begin

\* Types when a thread writes.
LEMMA WriteTypes ==
    ASSUME Types, NEW t \in Threads, Write(t)
    PROVE  Types'
<1> USE DEF Types
<1>1. PICK packets \in Written(t) : Puts(packets)
  BY EveryWrite
  DEF Write, SendOk, SendFails, AckOk, AckFails, PingOk, PingFails
<1>2. NetTypes'
  BY <1>1, QueueAfterWrite DEF Puts, NetTypes
<1>3. ClientTypes'
  BY <1>1 DEF Puts, ClientTypes, Write, SendOk, SendFails, AckOk, AckFails,
     PingOk, PingFails, Writes, FailsToWrite
<1>4. ThreadTypes'
  BY LeaveTypes, MoveTypes
  DEF Write, SendOk, SendFails, AckOk, AckFails, PingOk, PingFails, SUCCESS,
      Codes
<1>5. SubscriptionsAreNamed'
  <2>1. ~(GARBLED.type = "SUBSCRIBE")
    BY DEF GARBLED, Plain, Packet
  <2>2. Len(toServer) \in Nat /\ Len(toServer') \in Nat
    BY <1>2, LenProperties DEF NetTypes
  <2>3. Named(buf) /\ buf' = buf /\ Named(GARBLED)
    BY <1>1, <2>1 DEF Puts, SubscriptionsAreNamed, Named
  <2>4. \A i \in 1 .. Len(toServer') :
           \/ i \in 1 .. Len(toServer) /\ toServer'[i] = toServer[i]
           \/ toServer'[i] = GARBLED
           \/ toServer'[i] = buf
    BY <1>1, <2>2, QueueAfterWrite
  <2>5. \A i \in 1 .. Len(toServer') : Named(toServer'[i])
    BY <2>3, <2>4 DEF SubscriptionsAreNamed
  <2>6. QED
    BY <2>3, <2>5 DEF SubscriptionsAreNamed
<1>6. QED
  BY <1>2, <1>3, <1>4, <1>5

\* What ReadPacket takes from the queue.
LEMMA QueueAfterRead ==
    ASSUME NetTypes, NEW t \in Threads, ReadPacket(t)
    PROVE  /\ readbuf' \in Packets
           /\ readbuf' = toClient[1]
           /\ toClient' \in Seq(Packets)
           /\ Len(toClient') = Len(toClient) - 1
           /\ \A i \in 1 .. Len(toClient') : toClient'[i] = toClient[i + 1]
BY HeadTailProperties DEF ReadPacket, NetTypes

\* Types when a cycle goes on.
LEMMA CycleTypes ==
    ASSUME Types, NEW t \in Threads, Cycle(t)
    PROVE  Types'
<1> USE DEF Types
<1>1. CASE ReadPacket(t)
  <2>1. readbuf' \in Packets /\ toClient' \in Seq(Packets)
        /\ Len(toClient') = Len(toClient) - 1
    BY <1>1, QueueAfterRead
  <2>2. readbuf'.type \in PacketTypes /\ Reply(readbuf') \in Packets
    BY <2>1, ReplyTypes DEF Packets
  <2>3. ThreadTypes' /\ buf' \in Packets
    BY <1>1, <2>2, MoveTypes DEF ReadPacket, ClientTypes
  <2>4. ClientTypes'
    BY <1>1, <2>1, <2>3 DEF ReadPacket, ClientTypes
  <2>5. Len(toClient) \in Nat
    BY LenProperties DEF NetTypes
  <2>6. NetTypes'
    BY <1>1, <2>1, <2>5, BoundAssumption DEF ReadPacket, NetTypes
  <2>7. SubscriptionsAreNamed'
    BY <1>1, <2>1, ReplyTypes DEF ReadPacket, SubscriptionsAreNamed, Named
  <2>8. QED
    BY <2>3, <2>4, <2>6, <2>7
<1>2. CASE ReadNothing(t) \/ ReadHangs(t) \/ CycleGoesOn(t)
  <2>1. ThreadTypes'
    BY <1>2, MoveTypes DEF ReadNothing, ReadHangs, CycleGoesOn
  <2>2. QED
    BY <1>2, <2>1 DEF ReadNothing, ReadHangs, CycleGoesOn, clientVars, netVars,
       ClientTypes, NetTypes, SubscriptionsAreNamed
<1>3. CASE keepalive(t)
  <2>1. ThreadTypes'
    BY <1>3, MoveTypes DEF keepalive
  <2>2. PINGREQ.type = "PINGREQ"
    BY DEF PINGREQ, Plain, Packet
  <2>3. QED
    BY <1>3, <2>1, <2>2, ConstantPackets DEF keepalive, clientVars, netVars,
       ClientTypes, NetTypes, SubscriptionsAreNamed, Named
<1>4. CASE WaitEnds(t)
  <2>1. ThreadTypes'
    BY <1>4, LeaveTypes DEF WaitEnds, SUCCESS, Codes
  <2>2. QED
    BY <1>4, <2>1 DEF WaitEnds, clientVars, netVars, ClientTypes, NetTypes,
       SubscriptionsAreNamed
<1>5. QED
  BY <1>1, <1>2, <1>3, <1>4 DEF Cycle

\* Types when a call returns with its answer.
LEMMA FinishTypes ==
    ASSUME Types, NEW t \in Threads, Finish(t)
    PROVE  Types'
<1> USE DEF Types
<1>1. readbuf.code \in Codes /\ SUCCESS \in Codes
  BY DEF ClientTypes, Packets, Codes, SUCCESS
<1>2. ThreadTypes'
  BY <1>1, LeaveTypes DEF Finish, Connected, Subscribed, Acknowledged
<1>3. NetTypes'
  BY DEF Finish, Connected, Subscribed, Acknowledged, Answered, netVars,
     NetTypes
<1>4. isconnected' \in BOOLEAN
  BY DEF Finish, Connected, Subscribed, Acknowledged, ClientTypes
<1>5. handlers' \in [1 .. MAX_MESSAGE_HANDLERS -> Filters \cup {NoFilter}]
  <2>1. request[t].topic \in Filters \cup {NoFilter}
    BY DEF ThreadTypes, Packets
  <2>2. QED
    BY <2>1 DEF Finish, Connected, Subscribed, Acknowledged, ClientTypes
<1>6. ClientTypes'
  BY <1>4, <1>5 DEF Finish, Connected, Subscribed, Acknowledged, Answered,
     ClientTypes
<1>7. SubscriptionsAreNamed'
  BY DEF Finish, Connected, Subscribed, Acknowledged, Answered, netVars,
     SubscriptionsAreNamed
<1>8. QED
  BY <1>2, <1>3, <1>6, <1>7

\* Types when time passes, the broker acts or the link breaks.
LEMMA EnvironmentTypes ==
    ASSUME Types, Environment
    PROVE  Types'
<1> USE DEF Types
<1>1. CASE PingTimerExpires \/ \E t \in Threads : TimerExpires(t)
  BY <1>1 DEF PingTimerExpires, TimerExpires, threadVars, clientVars, netVars,
     ThreadTypes, ClientTypes, NetTypes, SubscriptionsAreNamed
<1>2. CASE BrokerTakes
  <2>1. PICK answer \in Answers(Head(toServer)) :
           /\ toClient' = toClient \o answer
           /\ Len(toClient) + Len(answer) <= QueueBound
    BY <1>2, QueueAfterAnswer
  <2>2. /\ toServer # <<>> /\ Head(toServer) = toServer[1]
        /\ Head(toServer) \in Packets
        /\ toServer' \in Seq(Packets)
        /\ Len(toServer') = Len(toServer) - 1
        /\ \A i \in 1 .. Len(toServer') : toServer'[i] = toServer[i + 1]
    <3>1. toServer # <<>> /\ toServer' = Tail(toServer)
      BY <1>2, QueueAfterAnswer
    <3>2. Head(toServer) = toServer[1]
      BY <3>1 DEF NetTypes
    <3>3. QED
      BY <3>1, <3>2, HeadTailProperties DEF NetTypes
  <2>3. Len(toServer) \in Nat \ {0} /\ Len(toServer') <= QueueBound
    BY <2>2, EmptySeq, BoundAssumption DEF NetTypes
  <2>4. SubscriptionsAreNamed'
    BY <1>2, <2>2, <2>3 DEF BrokerTakes, SubscriptionsAreNamed
  <2>5. answer \in Seq(Packets)
    <3>1. answer = <<>> \/ \E a \in Packets : answer = <<a>>
      BY <2>2, AnswerTypes
    <3>2. CASE answer = <<>>
      BY <3>2
    <3>3. ASSUME NEW a \in Packets, answer = <<a>>
          PROVE  answer \in Seq(Packets)
      BY <3>3
    <3>4. QED
      BY <3>1, <3>2, <3>3
  <2>6. toClient' \in Seq(Packets) /\ Len(toClient') <= QueueBound
    BY <2>1, <2>5, ConcatProperties DEF NetTypes
  <2>7. session' \in {"none", "accepted", "refused"}
    BY <1>2 DEF BrokerTakes, NetTypes
  <2>8. subs' \subseteq Filters
    <3>1. Head(toServer).type = "SUBSCRIBE" => Head(toServer).topic \in Filters
      BY <2>2, <2>3 DEF SubscriptionsAreNamed, Named
    <3>2. QED
      BY <1>2, <3>1 DEF BrokerTakes, NetTypes
  <2>9. NetTypes'
    BY <1>2, <2>2, <2>3, <2>6, <2>7, <2>8 DEF BrokerTakes, NetTypes
  <2>10. QED
    BY <1>2, <2>4, <2>9 DEF BrokerTakes, threadVars, clientVars, ThreadTypes,
       ClientTypes
<1>3. CASE BrokerPublishes
  <2>1. PICK topic \in subs, qos \in BrokerQos :
           toClient' = Append(toClient, Packet("PUBLISH", 1, qos, topic))
    BY <1>3 DEF BrokerPublishes
  <2>2. Packet("PUBLISH", 1, qos, topic) \in Packets
    BY BoundAssumption DEF Packet, PacketTypes, Packets, NetTypes
  <2>3. toClient' \in Seq(Packets) /\ Len(toClient') <= QueueBound
    BY <1>3, <2>1, <2>2, AppendProperties, LenProperties, BoundAssumption
    DEF BrokerPublishes, NetTypes
  <2>4. QED
    BY <1>3, <2>3 DEF BrokerPublishes, threadVars, clientVars,
       ThreadTypes, ClientTypes, NetTypes, SubscriptionsAreNamed
<1>4. CASE LoseLink
  BY <1>4, BoundAssumption DEF LoseLink, threadVars, clientVars, ThreadTypes,
     ClientTypes, NetTypes, SubscriptionsAreNamed
<1>5. QED
  BY <1>1, <1>2, <1>3, <1>4 DEF Environment

\* The initial states have their types.
LEMMA InitTypes == Init => Types
<1> SUFFICES ASSUME Init PROVE Types
  OBVIOUS
<1>1. ThreadTypes
  BY ConstantPackets DEF Init, ThreadTypes, SUCCESS, Codes
<1>2. /\ isconnected \in BOOLEAN /\ ping_outstanding \in BOOLEAN
      /\ pingDue \in BOOLEAN
  BY DEF Init
<1>3. /\ 0 \in 0 .. MAX_PACKET_ID
      /\ handlers \in [1 .. MAX_MESSAGE_HANDLERS -> Filters \cup {NoFilter}]
  BY BoundAssumption DEF Init
<1>4. ClientTypes
  BY <1>2, <1>3, ConstantPackets DEF Init, ClientTypes
<1>5. NetTypes
  BY BoundAssumption DEF Init, NetTypes
<1>6. SubscriptionsAreNamed
  BY DEF Init, NoPacket, Plain, Packet, SubscriptionsAreNamed, Named
<1>7. QED
  BY <1>1, <1>4, <1>5, <1>6 DEF Types

\* Every step keeps the types.
LEMMA NextTypes ==
    ASSUME Types, [Next]_vars
    PROVE  Types'
<1>1. CASE UNCHANGED vars
  BY <1>1 DEF vars, threadVars, clientVars, netVars, Types, ThreadTypes,
     ClientTypes, NetTypes, SubscriptionsAreNamed
<1>2. QED
  BY <1>1, BeginTypes, WriteTypes, CycleTypes, FinishTypes, EnvironmentTypes
  DEF Next

------------------------------------------------------------------------------
(***************************************************************************)
(* The order of packets on a link, for any number of threads that call     *)
(* what they like, except that none is within the client while another one *)
(* gives it a new link.                                                    *)
(***************************************************************************)
\* Without a socket nothing has begun.
Closed == link = "none" =>
    /\ \A t \in Threads : at[t] = "idle"
    /\ ~isconnected
    /\ toServer = <<>> /\ toClient = <<>>
    /\ session = "none"

\* A thread that is in no function has read nothing.
Rests == \A t \in Threads : at[t] = "idle" => cycleRc[t] = "none"

\* What a client may send before the broker has accepted it.
Early == {"CONNECT", "DISCONNECT", "PINGREQ"}

Unaccepted == session # "accepted" =>
    /\ ~isconnected /\ subs = {}
    /\ \A t \in Threads :
          /\ at[t] # "ack"
          /\ at[t] = "send" => request[t].type \in {"CONNECT", "DISCONNECT"}
    /\ \A i \in 1 .. Len(toServer) :
          toServer[i] = GARBLED \/ toServer[i].type \in Early

\* Before it has answered nothing comes from it.
Unanswered == session = "none" =>
    toClient = <<>> /\ \A t \in Threads : cycleRc[t] # "CONNACK"

\* A refusal is all that comes from a broker that has refused.
Refused == session = "refused" =>
    /\ \A i \in 1 .. Len(toClient) :
          toClient[i].type = "CONNACK" /\ toClient[i].code = 5
    /\ \A t \in Threads : cycleRc[t] = "CONNACK" => readbuf.code = 5

ConnectIsFirst == \A i \in 1 .. Len(toServer) :
    toServer[i].type = "CONNECT" => i = 1 /\ session = "none"

Connects(t) == at[t] = "send" /\ request[t].type = "CONNECT"

\* While one thread is about to send CONNECT no other is; and as long as the
\* buffer holds it nobody else is about to send anything.
ConnectsOnce == \A t \in Threads : Connects(t) =>
    /\ session = "none"
    /\ \A i \in 1 .. Len(toServer) : toServer[i].type # "CONNECT"
    /\ \A u \in Threads : Connects(u) => u = t
    /\ buf.type = "CONNECT" =>
          toServer = <<>> /\ \A u \in Threads :
                                at[u] \in {"send", "ping"} => u = t

OrderInv == Closed /\ Rests /\ Unaccepted /\ Unanswered /\ Refused
            /\ ConnectIsFirst /\ ConnectsOnce

\* Order when a function begins.
LEMMA BeginOrder ==
    ASSUME Types, OrderInv, NEW t \in Threads, Begin(t),
           MQTTConnect(t) => \A u \in Threads : at[u] = "idle"
    PROVE  OrderInv'
<1> USE DEF Types, ThreadTypes, OrderInv, Rests, Connects
<1>1. CASE NotConnected(t) \/ ConnectNetworkFails(t)
  <2>1. /\ UNCHANGED <<buf, readbuf, clientVars, session, subs>>
        /\ Leaves(t, FAILURE)
        /\ \/ UNCHANGED <<toServer, toClient>>
           \/ toServer' = <<>> /\ toClient' = <<>>
        /\ link' = "none" <=> link = "none"
    BY <1>1 DEF NotConnected, ConnectNetworkFails, netVars
  <2>2. QED
    BY <2>1 DEF Leaves, clientVars, Closed, Unaccepted, Unanswered, Refused,
       ConnectIsFirst, ConnectsOnce
<1>2. CASE MQTTConnect(t)
  <2>1. /\ \A u \in Threads : u # t => at[u] = "idle"
        /\ \A u \in Threads : cycleRc[u] # "CONNACK"
    BY <1>2
  <2>2. /\ link' = "open" /\ toServer' = <<>> /\ toClient' = <<>>
        /\ session' = "none" /\ subs' = {} /\ ~isconnected'
    BY <1>2 DEF MQTTConnect
  <2>3. /\ \A u \in Threads : u # t => at'[u] = "idle"
        /\ at'[t] = "send" /\ request'[t].type = "CONNECT"
        /\ cycleRc' = cycleRc
    BY <1>2, <2>1 DEF MQTTConnect, Sends, Enters, Plain, Packet
  <2>4. QED
    BY <2>1, <2>2, <2>3 DEF Closed, Unaccepted, Unanswered,
       Refused, ConnectIsFirst, ConnectsOnce
<1>3. CASE MQTTSubscribe(t) \/ MQTTUnsubscribe(t) \/ MQTTPublish(t)
  <2>1. session = "accepted" /\ link # "none" /\ UNCHANGED netVars
    BY <1>3 DEF MQTTSubscribe, MQTTUnsubscribe, MQTTPublish, Unaccepted, Closed
  <2>2. /\ at' = [at EXCEPT ![t] = "send"]
        /\ request'[t].type # "CONNECT" /\ cycleRc' = cycleRc
        /\ \A u \in Threads : u # t => request'[u] = request[u]
    BY <1>3 DEF MQTTSubscribe, MQTTUnsubscribe, MQTTPublish, Sends, Enters,
       Packet
  <2>3. QED
    BY <2>1, <2>2 DEF netVars, Closed, Unaccepted, Unanswered, Refused,
       ConnectIsFirst, ConnectsOnce
<1>4. CASE MQTTDisconnect(t)
  <2>1. link # "none" /\ UNCHANGED <<readbuf, clientVars, netVars, cycleRc>>
    BY <1>4 DEF MQTTDisconnect, Sends, Enters
  <2>2. /\ at' = [at EXCEPT ![t] = "send"]
        /\ request'[t].type = "DISCONNECT" /\ buf'.type = "DISCONNECT"
        /\ \A u \in Threads : u # t => request'[u] = request[u]
    BY <1>4 DEF MQTTDisconnect, Sends, Enters, Plain, Packet
  <2>3. QED
    BY <2>1, <2>2 DEF clientVars, netVars, Closed, Unaccepted, Unanswered,
       Refused, ConnectIsFirst, ConnectsOnce
<1>5. CASE MQTTYield(t)
  <2>1. /\ link # "none"
        /\ UNCHANGED <<request, buf, readbuf, clientVars, netVars, cycleRc>>
        /\ at' = [at EXCEPT ![t] = "wait"]
    BY <1>5 DEF MQTTYield, Enters
  <2>2. QED
    BY <2>1 DEF clientVars, netVars, Closed, Unaccepted, Unanswered,
       Refused, ConnectIsFirst, ConnectsOnce
<1>6. QED
  BY <1>1, <1>2, <1>3, <1>4, <1>5 DEF Begin

\* What a thread writes before the broker accepts the client.
LEMMA WrittenInOrder ==
    ASSUME Types, OrderInv, NEW t \in Threads, buf = Meant(t),
           at[t] \in {"send", "ack", "ping"}
    PROVE  /\ buf.type = "CONNECT" => Connects(t)
           /\ session # "accepted" => buf.type \in Early
<1>1. CASE at[t] = "send"
  BY <1>1 DEF Meant, OrderInv, Unaccepted, Connects, Early
<1>2. CASE at[t] = "ack"
  <2>1. buf.type # "CONNECT"
    BY <1>2, ReplyTypes DEF Meant, Types, ClientTypes
  <2>2. QED
    BY <1>2, <2>1 DEF OrderInv, Unaccepted
<1>3. CASE at[t] = "ping"
  <2>1. buf.type = "PINGREQ"
    BY <1>3 DEF Meant, PINGREQ, Plain, Packet
  <2>2. QED
    BY <2>1 DEF Early
<1>4. QED
  BY <1>1, <1>2, <1>3

\* Order when a thread writes.
LEMMA WriteOrder ==
    ASSUME Types, OrderInv, NEW t \in Threads, Write(t)
    PROVE  OrderInv'
<1>1. PICK packets \in Written(t) : Puts(packets)
  BY EveryWrite
  DEF Write, SendOk, SendFails, AckOk, AckFails, PingOk, PingFails
<1>2. /\ at[t] \in {"send", "ack", "ping"}
      /\ at'[t] \notin {"send", "ack", "ping"}
      /\ \A u \in Threads : u # t => at'[u] = at[u] /\ request'[u] = request[u]
      /\ \A u \in Threads : cycleRc'[u] = "CONNACK" => cycleRc[u] = "CONNACK"
      /\ at'[t] = "idle" => cycleRc'[t] = "none"
      /\ \A u \in Threads : u # t => cycleRc'[u] = cycleRc[u]
  <2>1. /\ at[t] \in {"send", "ack", "ping"}
        /\ \/ \E where \in {"wait", "keepalive", "cycled"} : Goes(t, where)
           \/ \E rc \in {SUCCESS, FAILURE} : Leaves(t, rc)
           \/ CyclesAgain(t)
    BY DEF Write, SendOk, SendFails, AckOk, AckFails, PingOk, PingFails
  <2>2. QED
    BY <2>1 DEF Types, ThreadTypes, Goes, Leaves, CyclesAgain
<1>3. isconnected' => isconnected
  <2>1. \/ isconnected' = (isconnected /\ call[t] # "disconnect")
        \/ isconnected' = isconnected
    BY Zenon DEF Write, SendOk, SendFails, AckOk, AckFails, PingOk, PingFails
  <2>2. QED
    BY <2>1 DEF Types, ClientTypes
<1>4. /\ UNCHANGED <<buf, readbuf, link, toClient, session, subs>>
      /\ link # "open" => toServer' = toServer
  BY <1>1 DEF Puts
<1>5. /\ Len(toServer) \in Nat /\ Len(toServer') \in Nat
      /\ toServer = <<>> => Len(toServer) = 0
      /\ \A i \in 1 .. Len(toServer) : toServer'[i] = toServer[i]
  BY <1>1, QueueAfterWrite, LenProperties DEF Types, NetTypes
<1>6. \A i \in 1 .. Len(toServer') : i > Len(toServer) =>
         \/ toServer'[i] = GARBLED /\ toServer'[i].type # "CONNECT"
         \/ /\ i = Len(toServer) + 1
            /\ toServer'[i].type = "CONNECT" =>
                  Connects(t) /\ buf.type = "CONNECT"
            /\ session # "accepted" => toServer'[i].type \in Early
  <2>1. GARBLED.type # "CONNECT"
    BY DEF GARBLED, Plain, Packet
  <2>2. QED
    BY <1>1, <1>2, <2>1, QueueAfterWrite, WrittenInOrder
<1> USE DEF OrderInv
<1>7. Closed' /\ Rests'
  BY <1>2, <1>3, <1>4 DEF Closed, Rests
<1>8. Unaccepted'
  BY <1>2, <1>3, <1>4, <1>5, <1>6 DEF Unaccepted
<1>9. Unanswered' /\ Refused'
  BY <1>2, <1>4 DEF Unanswered, Refused
<1>10. ConnectIsFirst'
  BY <1>4, <1>5, <1>6 DEF ConnectIsFirst, ConnectsOnce
<1>11. ConnectsOnce'
  <2>1. ASSUME NEW u \in Threads, Connects(u)'
        PROVE  /\ u # t /\ Connects(u) /\ session = "none"
               /\ ~Connects(t) /\ buf.type # "CONNECT"
    BY <1>2, <1>4, <2>1 DEF Connects, ConnectsOnce, Unaccepted
  <2>2. \A u \in Threads : u # t => (Connects(u)' <=> Connects(u))
    BY <1>2 DEF Connects
  <2>3. QED
    BY <1>2, <1>4, <1>5, <1>6, <2>1, <2>2 DEF ConnectsOnce
<1>12. QED
  BY <1>7, <1>8, <1>9, <1>10, <1>11

\* Order when a cycle goes on.
LEMMA CycleOrder ==
    ASSUME Types, OrderInv, NEW t \in Threads, Cycle(t)
    PROVE  OrderInv'
<1> USE DEF Types, ThreadTypes, OrderInv, Rests, Connects
<1>1. CASE ReadPacket(t)
  <2>1. /\ toClient # <<>> /\ session # "none" /\ link # "none"
        /\ UNCHANGED <<isconnected, link, toServer, session, subs>>
        /\ request' = request
    BY <1>1 DEF ReadPacket, Reads, Unanswered, Closed
  <2>2. /\ readbuf' = toClient[1] /\ readbuf' \in Packets
        /\ Len(toClient') = Len(toClient) - 1
        /\ \A i \in 1 .. Len(toClient') : toClient'[i] = toClient[i + 1]
        /\ Len(toClient) \in Nat \ {0}
    BY <1>1, <2>1, QueueAfterRead, EmptySeq DEF NetTypes
  <2>3. CASE session = "refused"
    <3>1. readbuf'.type = "CONNACK" /\ readbuf'.code = 5
      BY <2>2, <2>3 DEF Refused
    <3>2. Reads(t, "keepalive", "CONNACK") /\ buf' = buf
      BY <1>1, <2>2, <3>1, ReplyTypes DEF ReadPacket
    <3>3. Refused'
      BY <2>1, <2>2, <2>3, <3>1, <3>2 DEF Refused, Reads
    <3>4. QED
      BY <2>1, <2>3, <3>2, <3>3 DEF Reads, Closed, Unaccepted, Unanswered,
         ConnectIsFirst, ConnectsOnce
  <2>4. CASE session = "accepted"
    <3>1. \A u \in Threads : ~Connects(u)
      BY <2>4 DEF ConnectsOnce
    <3>2. (\A u \in Threads : ~Connects(u)') /\ Rests'
      BY <1>1, <2>1, <3>1 DEF ReadPacket, Reads
    <3>3. QED
      BY <2>1, <2>4, <3>2 DEF Closed, Unaccepted, Unanswered, Refused,
         ConnectIsFirst, ConnectsOnce
  <2>5. QED
    BY <2>1, <2>3, <2>4 DEF NetTypes
<1>2. CASE ReadNothing(t) \/ ReadHangs(t) \/ CycleGoesOn(t) \/ WaitEnds(t)
  <2>1. /\ at[t] # "idle"
        /\ at'[t] \notin {"send", "ack", "ping"}
        /\ \A u \in Threads : /\ u # t => at'[u] = at[u]
                              /\ u # t => request'[u] = request[u]
                              /\ u # t => cycleRc'[u] = cycleRc[u]
                              /\ cycleRc'[u] = "CONNACK" =>
                                     cycleRc[u] = "CONNACK"
        /\ at'[t] = "idle" => cycleRc'[t] = "none"
    BY <1>2 DEF ReadNothing, ReadHangs, CycleGoesOn, WaitEnds, Reads,
       CyclesAgain, Leaves
  <2>2. UNCHANGED <<buf, readbuf, clientVars, netVars>>
    BY <1>2 DEF ReadNothing, ReadHangs, CycleGoesOn, WaitEnds
  <2>3. QED
    BY <2>1, <2>2 DEF clientVars, netVars, Closed, Unaccepted, Unanswered,
       Refused, ConnectIsFirst, ConnectsOnce
<1>3. CASE keepalive(t)
  <2>1. /\ at[t] # "idle" /\ at[t] # "send"
        /\ UNCHANGED <<request, cycleRc, readbuf, clientVars, netVars>>
    BY <1>3 DEF keepalive, Goes
  <2>2. \/ /\ at' = [at EXCEPT ![t] = "ping"]
           /\ buf'.type = "PINGREQ"
        \/ buf' = buf /\ at' = [at EXCEPT ![t] = "cycled"]
    BY <1>3 DEF keepalive, Goes, PINGREQ, Plain, Packet
  <2>3. QED
    BY <2>1, <2>2 DEF clientVars, netVars, Closed, Unaccepted, Unanswered,
       Refused, ConnectIsFirst, ConnectsOnce
<1>4. QED
  BY <1>1, <1>2, <1>3 DEF Cycle

\* Order when a call returns with its answer: only the broker's own CONNACK
\* connects the client.
LEMMA FinishOrder ==
    ASSUME Types, OrderInv, NEW t \in Threads, Finish(t)
    PROVE  OrderInv'
<1> USE DEF Types, ThreadTypes, OrderInv, Rests
<1>1. /\ at[t] # "idle" /\ cycleRc[t] = Wanted(t)
      /\ UNCHANGED <<buf, readbuf, netVars>>
  BY DEF Finish, Connected, Subscribed, Acknowledged, Answered
<1>2. \E rc : Leaves(t, rc)
  BY DEF Finish, Connected, Subscribed, Acknowledged
<1>3. isconnected' => isconnected \/ session = "accepted"
  <2>1. CASE Connected(t)
    <3>1. Wanted(t) = "CONNACK"
      BY <2>1 DEF Connected, Wanted, WaitsFor
    <3>2. isconnected' = (readbuf.code = 0)
      BY <2>1 DEF Connected, SUCCESS
    <3>3. readbuf.code = 0 => session = "accepted"
      BY <1>1, <3>1 DEF Unanswered, Refused, NetTypes
    <3>4. QED
      BY <3>2, <3>3
  <2>2. CASE Subscribed(t) \/ Acknowledged(t)
    BY <2>2 DEF Subscribed, Acknowledged
  <2>3. QED
    BY <2>1, <2>2 DEF Finish
<1>4. isconnected' => session = "accepted"
  BY <1>3 DEF Unaccepted
<1>5. /\ at'[t] = "idle" /\ cycleRc'[t] = "none"
      /\ \A u \in Threads : /\ u # t => at'[u] = at[u]
                            /\ u # t => cycleRc'[u] = cycleRc[u]
                            /\ u # t => request'[u] = request[u]
                            /\ cycleRc'[u] = "CONNACK" =>
                                   cycleRc[u] = "CONNACK"
  BY <1>2 DEF Leaves
<1>6. QED
  BY <1>1, <1>4, <1>5 DEF netVars, Closed, Unaccepted, Unanswered, Refused,
     ConnectIsFirst, ConnectsOnce, Connects

\* Order when the broker takes a packet: it has not answered before CONNECT,
\* and takes nothing but CONNECT before it has accepted.
LEMMA BrokerOrder ==
    ASSUME Types, OrderInv, BrokerTakes
    PROVE  OrderInv'
<1> USE DEF Types, OrderInv, Rests
<1>1. /\ link = "open" /\ toServer # <<>>
      /\ Head(toServer).type \notin {"GARBLED", "DISCONNECT"}
      /\ UNCHANGED <<threadVars, buf, readbuf, clientVars, link>>
  BY DEF BrokerTakes
<1>2. /\ Head(toServer) = toServer[1] /\ Len(toServer) \in Nat \ {0}
      /\ Head(toServer) \in Packets
      /\ Len(toServer') = Len(toServer) - 1
      /\ \A i \in 1 .. Len(toServer') : toServer'[i] = toServer[i + 1]
  <2>1. toServer' = Tail(toServer)
    BY DEF BrokerTakes
  <2>2. QED
    BY <1>1, <2>1, HeadTailProperties, EmptySeq DEF NetTypes
<1>3. CASE Head(toServer).type = "CONNECT"
  <2>1. session = "none" /\ \A u \in Threads : ~Connects(u)
    BY <1>2, <1>3 DEF ConnectIsFirst, ConnectsOnce
  <2>2. toClient = <<>> /\ \A u \in Threads : cycleRc[u] # "CONNACK"
    BY <2>1 DEF Unanswered
  <2>3. PICK answer \in Answers(Head(toServer)) :
           /\ toClient' = toClient \o answer
           /\ session' = IF answer[1].code = 0 THEN "accepted" ELSE "refused"
    BY <1>3 DEF BrokerTakes
  <2>4. PICK a \in Packets : /\ answer = <<a>>
                             /\ a.type = "CONNACK" /\ a.code \in {0, 5}
    BY <1>2, <1>3, AnswerTypes
  <2>5. toClient' = <<a>>
    BY <2>2, <2>3, <2>4
  <2>6. session' = IF a.code = 0 THEN "accepted" ELSE "refused"
    BY <2>3, <2>4
  <2>7. Refused'
    BY <1>1, <2>2, <2>4, <2>5, <2>6 DEF Refused, threadVars
  <2>8. ConnectIsFirst'
    <3>1. \A i \in 1 .. Len(toServer') :
             /\ i + 1 \in 1 .. Len(toServer) /\ i + 1 # 1
             /\ toServer'[i] = toServer[i + 1]
      BY <1>2
    <3>2. \A i \in 1 .. Len(toServer') : toServer'[i].type # "CONNECT"
      <4> HIDE DEF Types, OrderInv, Rests
      <4>1. ConnectIsFirst
        BY DEF OrderInv
      <4>2. QED
        BY <3>1, <4>1 DEF ConnectIsFirst
    <3>3. QED
      BY <3>2 DEF ConnectIsFirst
  <2>9. subs' = subs
    BY <1>3 DEF BrokerTakes
  <2>10. QED
    BY <1>1, <1>2, <2>1, <2>6, <2>7, <2>8, <2>9 DEF threadVars, clientVars,
       Closed, Unaccepted, Unanswered, ConnectsOnce, Connects
<1>4. CASE Head(toServer).type # "CONNECT"
  <2>1. session = "accepted" /\ session' = "accepted"
    BY <1>4 DEF BrokerTakes
  <2>2. ConnectIsFirst'
    <3>1. \A i \in 1 .. Len(toServer) : toServer[i].type # "CONNECT"
      BY <2>1 DEF ConnectIsFirst
    <3>2. \A i \in 1 .. Len(toServer') : i + 1 \in 1 .. Len(toServer)
      BY <1>2
    <3>3. \A i \in 1 .. Len(toServer') : toServer'[i].type # "CONNECT"
      BY <1>2, <3>1, <3>2
    <3>4. QED
      BY <3>3 DEF ConnectIsFirst
  <2>3. ConnectsOnce'
    <3>1. \A u \in Threads : ~Connects(u)
      BY <2>1 DEF ConnectsOnce
    <3>2. \A u \in Threads : ~Connects(u)'
      BY <1>1, <3>1 DEF threadVars, Connects
    <3>3. QED
      BY <3>2 DEF ConnectsOnce
  <2>4. Closed' /\ Rests' /\ Unaccepted' /\ Unanswered' /\ Refused'
    BY <1>1, <2>1 DEF threadVars, Closed, Unaccepted, Unanswered, Refused
  <2>5. QED
    BY <2>2, <2>3, <2>4
<1>5. QED
  BY <1>3, <1>4

\* Order in the other steps around the client.
LEMMA EnvironmentOrder ==
    ASSUME Types, OrderInv, Environment
    PROVE  OrderInv'
<1> USE DEF Types, ThreadTypes, OrderInv, Rests, Connects
<1>1. CASE BrokerTakes
  BY <1>1, BrokerOrder
<1>2. CASE PingTimerExpires \/ \E t \in Threads : TimerExpires(t)
  <2>1. /\ UNCHANGED <<at, request, cycleRc, buf, readbuf, isconnected>>
        /\ UNCHANGED netVars
    BY <1>2 DEF PingTimerExpires, TimerExpires, threadVars, clientVars
  <2>2. QED
    BY <2>1 DEF netVars, Closed, Unaccepted, Unanswered, Refused,
       ConnectIsFirst, ConnectsOnce
<1>3. CASE BrokerPublishes
  <2>1. session = "accepted"
    BY <1>3 DEF BrokerPublishes, Unaccepted
  <2>2. QED
    BY <1>3, <2>1 DEF BrokerPublishes, threadVars, clientVars, Closed,
       Unaccepted, Unanswered, Refused, ConnectIsFirst, ConnectsOnce
<1>4. CASE LoseLink
  <2>1. /\ link' = "lost" /\ toServer' = <<>> /\ toClient' = <<>>
        /\ UNCHANGED <<threadVars, buf, readbuf, clientVars, session, subs>>
    BY <1>4 DEF LoseLink
  <2>2. QED
    BY <2>1 DEF threadVars, clientVars, Closed, Unaccepted, Unanswered,
       Refused, ConnectIsFirst, ConnectsOnce
<1>5. QED
  BY <1>1, <1>2, <1>3, <1>4 DEF Environment

\* The initial states are in order.
LEMMA InitOrder == Init => OrderInv
BY DEF Init, OrderInv, Closed, Rests, Unaccepted, Unanswered, Refused,
   ConnectIsFirst, ConnectsOnce, Connects

\* A step in which nothing happens keeps the order.
LEMMA StutterOrder ==
    ASSUME OrderInv, UNCHANGED vars
    PROVE  OrderInv'
BY DEF vars, threadVars, clientVars, netVars, OrderInv, Closed, Rests,
   Unaccepted, Unanswered, Refused, ConnectIsFirst, ConnectsOnce, Connects

\* The strengthened order implies the property.
LEMMA OrderInvImplies ==
    ASSUME Types, OrderInv
    PROVE  ProtocolOrder
<1>1. DOMAIN toServer = 1 .. Len(toServer)
  BY LenProperties DEF Types, NetTypes
<1>2. ASSUME NEW i \in Legible
      PROVE  i \in 1 .. Len(toServer) /\ toServer[i] # GARBLED
  BY <1>1, <1>2, LenProperties DEF Legible, Types, NetTypes
<1>3. QED
  BY <1>2 DEF ProtocolOrder, OrderInv, Unaccepted, Early, ConnectIsFirst

------------------------------------------------------------------------------
(***************************************************************************)
(* How many packets of a type are in a queue.                              *)
(***************************************************************************)

\* The number is one, and 0 for the empty queue.
LEMMA CountType ==
    ASSUME NEW queue \in Seq(Packets), NEW type
    PROVE  /\ UnderWay(queue, type) \in Nat
           /\ IsFiniteSet({i \in DOMAIN queue : queue[i].type = type})
           /\ queue = <<>> => UnderWay(queue, type) = 0
<1> DEFINE S == {i \in DOMAIN queue : queue[i].type = type}
<1>1. Len(queue) \in Nat /\ DOMAIN queue = 1 .. Len(queue)
  BY LenProperties
<1>2. IsFiniteSet(DOMAIN queue)
  BY <1>1, FS_Interval
<1>3. IsFiniteSet(S)
  BY <1>2, FS_Subset
<1>4. Cardinality(S) \in Nat
  BY <1>3, FS_CardinalityType
<1>5. ASSUME queue = <<>> PROVE Cardinality(S) = 0
  <2>1. S = {}
    BY <1>1, <1>5
  <2>2. QED
    BY <2>1, FS_EmptySet
<1>6. QED
  BY <1>3, <1>4, <1>5 DEF UnderWay

\* A packet at the end counts if it has the type.
LEMMA CountAppended ==
    ASSUME NEW queue \in Seq(Packets), NEW p \in Packets, NEW type
    PROVE  UnderWay(queue \o <<p>>, type) =
               UnderWay(queue, type) + IF p.type = type THEN 1 ELSE 0
<1> DEFINE S == {i \in DOMAIN queue : queue[i].type = type}
           longer == queue \o <<p>>
           T == {i \in DOMAIN longer : longer[i].type = type}
           n == Len(queue)
<1>1. /\ n \in Nat /\ DOMAIN queue = 1 .. n
      /\ <<p>> \in Seq(Packets) /\ Len(<<p>>) = 1 /\ <<p>>[1] = p
  BY LenProperties
<1>2. /\ longer \in Seq(Packets) /\ Len(longer) = n + 1
      /\ \A i \in 1 .. n : longer[i] = queue[i]
      /\ longer[n + 1] = p
  BY <1>1, ConcatProperties
<1>3. DOMAIN longer = 1 .. n + 1
  BY <1>2, LenProperties
<1>4. n + 1 \notin S
  BY <1>1
<1>5. T = IF p.type = type THEN S \cup {n + 1} ELSE S
  BY <1>1, <1>2, <1>3
<1>6. /\ IsFiniteSet(S) /\ Cardinality(S) \in Nat
      /\ UnderWay(queue, type) = Cardinality(S)
      /\ UnderWay(longer, type) = Cardinality(T)
  BY CountType DEF UnderWay
<1> HIDE DEF S, T, n, longer
<1>7. IsFiniteSet(S \cup {n + 1}) /\ Cardinality(S \cup {n + 1}) =
          IF n + 1 \in S THEN Cardinality(S) ELSE Cardinality(S) + 1
  BY <1>6, FS_AddElement
<1>8. UnderWay(longer, type) =
          UnderWay(queue, type) + IF p.type = type THEN 1 ELSE 0
  BY <1>4, <1>5, <1>6, <1>7
<1>9. QED
  BY <1>8 DEF longer

\* So does the packet that is taken from the front.
LEMMA CountTaken ==
    ASSUME NEW queue \in Seq(Packets), queue # <<>>, NEW type
    PROVE  UnderWay(queue, type) = UnderWay(Tail(queue), type)
               + IF Head(queue).type = type THEN 1 ELSE 0
<1> DEFINE S == {i \in DOMAIN queue : queue[i].type = type}
           rest == Tail(queue)
           T == {i \in DOMAIN rest : rest[i].type = type}
           n == Len(queue)
           shift == [i \in T |-> i + 1]
<1>1. /\ n \in Nat \ {0} /\ DOMAIN queue = 1 .. n
      /\ Head(queue) = queue[1]
  BY LenProperties, EmptySeq
<1>2. /\ rest \in Seq(Packets) /\ Len(rest) = n - 1
      /\ \A i \in 1 .. n - 1 : rest[i] = queue[i + 1]
  BY HeadTailProperties
<1>3. DOMAIN rest = 1 .. n - 1
  BY <1>2, LenProperties
<1>4. /\ IsFiniteSet(S) /\ IsFiniteSet(T)
      /\ Cardinality(S) \in Nat /\ Cardinality(T) \in Nat
      /\ UnderWay(queue, type) = Cardinality(S)
      /\ UnderWay(rest, type) = Cardinality(T)
  BY <1>2, CountType DEF UnderWay
<1>5. /\ \A i \in T : i \in 1 .. n - 1 /\ i + 1 \in S \ {1}
      /\ \A j \in S \ {1} : j \in Int /\ j - 1 \in T
      /\ 1 \in S <=> Head(queue).type = type
  BY <1>1, <1>2, <1>3
<1> HIDE DEF S, T, n, rest
<1>6. shift \in Bijection(T, S \ {1})
  <2>1. shift \in [T -> S \ {1}]
    BY <1>5
  <2>2. \A j \in S \ {1} : \E i \in T : shift[i] = j
    <3>1. ASSUME NEW j \in S \ {1}
          PROVE  j - 1 \in T /\ shift[j - 1] = j
      BY <1>5, <3>1
    <3>2. QED
      BY <3>1
  <2>3. \A i, j \in T : shift[i] = shift[j] => i = j
    BY <1>1, <1>5
  <2>4. QED
    BY <2>1, <2>2, <2>3, Fun_IsBij
<1>7. Cardinality(S \ {1}) = Cardinality(T)
  <2>1. ExistsBijection(T, S \ {1})
    BY <1>6 DEF ExistsBijection
  <2>2. QED
    BY <1>4, <2>1, FS_Bijection
<1>8. Cardinality(S \ {1}) =
          IF 1 \in S THEN Cardinality(S) - 1 ELSE Cardinality(S)
  BY <1>4, FS_RemoveElement
<1>9. UnderWay(queue, type) =
          UnderWay(rest, type) + IF Head(queue).type = type THEN 1 ELSE 0
  BY <1>4, <1>5, <1>7, <1>8
<1>10. QED
  BY <1>9 DEF rest

------------------------------------------------------------------------------
(***************************************************************************)
(* One thread: what the comment on waitfor, "one command at a time", asks  *)
(* for.  The results have their types, and the pings are accounted for.    *)
(***************************************************************************)
OneThread == \A t, u \in Threads : t = u

\* A step of the one thread, or of its surroundings.
LEMMA OneThreadMoves ==
    ASSUME OneThread, NEW t \in Threads, NEW u \in Threads
    PROVE  u = t
BY DEF OneThread

\* With one thread the broker reads CONNECT first and once on a link, and no
\* request and no acknowledgement of a client it has not accepted, whatever
\* the thread calls, however often it connects again, and whatever timer
\* expires.
THEOREM PacketsInOrder ==
    ASSUME OneThread
    PROVE  Spec => []ProtocolOrder
<1>1. Types /\ OrderInv => ProtocolOrder
  BY OrderInvImplies
<1>2. Types /\ OrderInv /\ [Next]_vars => OrderInv'
  <2> SUFFICES ASSUME Types, OrderInv, [Next]_vars
               PROVE  OrderInv'
    OBVIOUS
  <2>1. ASSUME NEW t \in Threads, Begin(t)
        PROVE  OrderInv'
    <3>1. at[t] = "idle" \/ ~MQTTConnect(t)
      BY DEF MQTTConnect, Sends, Enters
    <3>2. MQTTConnect(t) => \A u \in Threads : at[u] = "idle"
      BY <3>1, OneThreadMoves
    <3>3. QED
      BY <2>1, <3>2, BeginOrder
  <2>2. QED
    BY <2>1, WriteOrder, CycleOrder, FinishOrder, EnvironmentOrder,
       StutterOrder DEF Next
<1>3. QED
  BY InitTypes, NextTypes, InitOrder, <1>1, <1>2, PTL DEF Spec

ResultTypes == result \in [Threads -> {FAILURE, SUCCESS, 5, 128}]

\* The answers to CONNECT and SUBSCRIBE carry their codes, under way and in
\* the buffer of the thread that has found its answer.
AnswerCodes ==
    /\ \A i \in 1 .. Len(toClient) :
          toClient[i].type \in {"CONNACK", "SUBACK"} =>
              toClient[i].code \in {0, 5, 128}
    /\ \A t \in Threads : cycleRc[t] \in {"CONNACK", "SUBACK"} =>
                              readbuf.code \in {0, 5, 128}

\* Results of the steps that read nothing.
LEMMA PlainResults ==
    ASSUME ResultTypes, AnswerCodes,
           UNCHANGED readbuf,
           toClient' = toClient \/ toClient' = <<>>,
           NEW t \in Threads,
           \/ UNCHANGED <<result, cycleRc>>
           \/ \E where : Goes(t, where)
           \/ \E f, where : Enters(t, f, where)
           \/ Reads(t, "keepalive", "65535") \/ Reads(t, "spin", "none")
           \/ CyclesAgain(t)
           \/ \E rc \in {SUCCESS, FAILURE} : Leaves(t, rc),
           cycleRc \in [Threads -> PacketTypes \cup {"none", "65535"}]
    PROVE  ResultTypes' /\ AnswerCodes'
<1>1. ResultTypes'
  BY DEF ResultTypes, Goes, Enters, Reads, CyclesAgain, Leaves
<1>2. \A u \in Threads : cycleRc'[u] \in {"CONNACK", "SUBACK"} =>
                             cycleRc'[u] = cycleRc[u]
  BY DEF Goes, Enters, Reads, CyclesAgain, Leaves
<1>3. QED
  BY <1>1, <1>2 DEF AnswerCodes

\* Every step of one thread keeps them.
LEMMA NextResults ==
    ASSUME OneThread, Types, ResultTypes, AnswerCodes, [Next]_vars
    PROVE  ResultTypes' /\ AnswerCodes'
<1>1. cycleRc \in [Threads -> PacketTypes \cup {"none", "65535"}]
  BY DEF Types, ThreadTypes
<1>2. ASSUME NEW t \in Threads, Begin(t)
      PROVE  ResultTypes' /\ AnswerCodes'
  <2>1. /\ readbuf' = readbuf
        /\ toClient' = toClient \/ toClient' = <<>>
    BY <1>2 DEF Begin, NotConnected, ConnectNetworkFails, MQTTConnect,
       MQTTSubscribe, MQTTUnsubscribe, MQTTPublish, MQTTDisconnect, MQTTYield,
       netVars
  <2>2. (\E f, where : Enters(t, f, where)) \/ Leaves(t, FAILURE)
    BY <1>2 DEF Begin, NotConnected, ConnectNetworkFails, MQTTConnect,
       MQTTSubscribe, MQTTUnsubscribe, MQTTPublish, MQTTDisconnect, MQTTYield,
       Sends
  <2>3. QED
    BY <1>1, <2>1, <2>2, PlainResults
<1>3. ASSUME NEW t \in Threads, Write(t)
      PROVE  ResultTypes' /\ AnswerCodes'
  <2>1. PICK packets \in Written(t) : Puts(packets)
    BY <1>3, EveryWrite
    DEF Write, SendOk, SendFails, AckOk, AckFails, PingOk, PingFails
  <2>2. readbuf' = readbuf /\ toClient' = toClient
    BY <2>1 DEF Puts
  <2>3. \/ \E where : Goes(t, where)
        \/ CyclesAgain(t)
        \/ \E rc \in {SUCCESS, FAILURE} : Leaves(t, rc)
    BY <1>3 DEF Write, SendOk, SendFails, AckOk, AckFails, PingOk, PingFails
  <2>4. QED
    BY <1>1, <2>2, <2>3, PlainResults
<1>4. ASSUME NEW t \in Threads, ReadPacket(t)
      PROVE  ResultTypes' /\ AnswerCodes'
  <2>1. /\ toClient # <<>> /\ readbuf' = toClient[1]
        /\ Len(toClient') = Len(toClient) - 1
        /\ \A i \in 1 .. Len(toClient') : toClient'[i] = toClient[i + 1]
        /\ Len(toClient) \in Nat \ {0}
    BY <1>4, QueueAfterRead, EmptySeq DEF Types, NetTypes, ReadPacket
  <2>2. /\ result' = result
        /\ \A u \in Threads : cycleRc'[u] = readbuf'.type
    BY <1>1, <1>4, OneThreadMoves DEF ReadPacket, Reads
  <2>3. QED
    BY <2>1, <2>2 DEF ResultTypes, AnswerCodes
<1>5. ASSUME NEW t \in Threads, Cycle(t), ~ReadPacket(t)
      PROVE  ResultTypes' /\ AnswerCodes'
  <2>1. readbuf' = readbuf /\ toClient' = toClient
    BY <1>5 DEF Cycle, ReadNothing, ReadHangs, keepalive, CycleGoesOn,
       WaitEnds, netVars
  <2>2. \/ \E where : Goes(t, where)
        \/ Reads(t, "keepalive", "65535") \/ Reads(t, "spin", "none")
        \/ CyclesAgain(t)
        \/ \E rc \in {SUCCESS, FAILURE} : Leaves(t, rc)
    <3>1. CASE ReadNothing(t)
      BY <3>1 DEF ReadNothing
    <3>2. CASE ReadHangs(t)
      BY <3>2 DEF ReadHangs
    <3>3. CASE keepalive(t) \/ CycleGoesOn(t) \/ WaitEnds(t)
      BY <3>3 DEF keepalive, CycleGoesOn, WaitEnds
    <3>4. QED
      BY <1>5, <3>1, <3>2, <3>3 DEF Cycle
  <2>3. QED
    BY <1>1, <2>1, <2>2, PlainResults
<1>6. ASSUME NEW t \in Threads, Finish(t)
      PROVE  ResultTypes' /\ AnswerCodes'
  <2>1. readbuf' = readbuf /\ toClient' = toClient /\ cycleRc[t] = Wanted(t)
    BY <1>6 DEF Finish, Connected, Subscribed, Acknowledged, Answered, netVars
  <2>2. CASE Acknowledged(t)
    BY <1>1, <2>1, <2>2, PlainResults DEF Acknowledged
  <2>3. CASE Connected(t) \/ Subscribed(t)
    <3>1. Wanted(t) \in {"CONNACK", "SUBACK"}
      BY <2>3 DEF Connected, Subscribed, Wanted, WaitsFor
    <3>2. readbuf.code \in {0, 5, 128}
      BY <2>1, <3>1 DEF AnswerCodes
    <3>3. Leaves(t, readbuf.code)
      BY <2>3 DEF Connected, Subscribed
    <3>4. ResultTypes'
      BY <3>2, <3>3 DEF Leaves, ResultTypes, SUCCESS
    <3>5. \A u \in Threads : cycleRc'[u] = "none"
      BY <1>1, <3>3, OneThreadMoves DEF Leaves
    <3>6. QED
      BY <2>1, <3>4, <3>5 DEF AnswerCodes
  <2>4. QED
    BY <1>6, <2>2, <2>3 DEF Finish
<1>7. CASE BrokerTakes
  <2>1. PICK answer \in Answers(Head(toServer)) :
           toClient' = toClient \o answer
    BY <1>7, QueueAfterAnswer
  <2>2. Head(toServer) \in Packets
    BY <1>7, HeadTailProperties DEF BrokerTakes, Types, NetTypes
  <2>3. \/ answer = <<>>
        \/ \E a \in Packets :
              answer = <<a>> /\ (a.type \in {"CONNACK", "SUBACK"} =>
                                     a.code \in {0, 5, 128})
    BY <2>2, AnswerTypes
  <2> DEFINE CodesOf(queue) == \A i \in 1 .. Len(queue) :
                queue[i].type \in {"CONNACK", "SUBACK"} =>
                    queue[i].code \in {0, 5, 128}
  <2>4. CodesOf(toClient')
    <3>1. CASE answer = <<>>
      BY <2>1, <3>1, ConcatEmptySeq DEF AnswerCodes, Types, NetTypes
    <3>2. ASSUME NEW a \in Packets, answer = <<a>>,
                 a.type \in {"CONNACK", "SUBACK"} => a.code \in {0, 5, 128}
          PROVE  CodesOf(toClient')
      <4>1. answer \in Seq(Packets) /\ Len(answer) = 1 /\ answer[1] = a
        BY <3>2
      <4>2. QED
        BY <2>1, <3>2, <4>1, ConcatProperties, LenProperties
        DEF AnswerCodes, Types, NetTypes
    <3>3. QED
      BY <2>3, <3>1, <3>2
  <2>5. QED
    BY <1>7, <2>4 DEF BrokerTakes, threadVars, ResultTypes, AnswerCodes
<1>8. CASE BrokerPublishes
  <2>1. PICK topic \in subs, qos \in BrokerQos :
           toClient' = Append(toClient, Packet("PUBLISH", 1, qos, topic))
    BY <1>8 DEF BrokerPublishes
  <2>2. Packet("PUBLISH", 1, qos, topic) \in Packets
    BY BoundAssumption
    DEF Packet, PacketTypes, Packets, Types, NetTypes
  <2>3. Packet("PUBLISH", 1, qos, topic).type = "PUBLISH"
    BY DEF Packet
  <2>4. QED
    BY <1>8, <2>1, <2>2, <2>3, AppendProperties, LenProperties
    DEF BrokerPublishes, threadVars, Types, NetTypes, ResultTypes, AnswerCodes
<1>9. CASE PingTimerExpires \/ LoseLink \/ \E t \in Threads : TimerExpires(t)
  BY <1>9 DEF PingTimerExpires, LoseLink, TimerExpires, threadVars, netVars,
     ResultTypes, AnswerCodes
<1>10. CASE UNCHANGED vars
  BY <1>10 DEF vars, threadVars, netVars, ResultTypes, AnswerCodes
<1>11. QED
  BY <1>2, <1>3, <1>4, <1>5, <1>6, <1>7, <1>8, <1>9, <1>10
  DEF Next, Environment

\* With one thread everything stays in its type; a call returns FAILURE, what
\* SUCCESS stands for, or the code of a refusal.
THEOREM ClientTypeCorrect ==
    ASSUME OneThread
    PROVE  Spec => []TypeOK
<1>1. Init => ResultTypes /\ AnswerCodes
  BY DEF Init, ResultTypes, AnswerCodes
<1>2. Types /\ ResultTypes => TypeOK
  BY DEF Types, ThreadTypes, ClientTypes, NetTypes, ResultTypes, TypeOK
<1>3. Types /\ ResultTypes /\ AnswerCodes /\ [Next]_vars =>
          ResultTypes' /\ AnswerCodes'
  BY NextResults
<1>4. QED
  BY InitTypes, NextTypes, <1>1, <1>2, <1>3, PTL DEF Spec

\* What is serialised is still in the buffer when it is written.
BufferIsOwn ==
    \A t \in Threads : at[t] \in {"send", "ack", "ping"} => buf = Meant(t)

\* A ping is begun only while none is outstanding, and only by keepalive.
OnePing == \A t \in Threads :
    /\ at[t] = "ping" => ~ping_outstanding
    /\ at[t] = "send" => request[t].type # "PINGREQ"

Clean == \A i \in 1 .. Len(toServer) : toServer[i] # GARBLED

\* As long as no write has failed half way, the flag counts the pings.
Accounted == link = "open" /\ Clean =>
                 PingsUnderWay = IF ping_outstanding THEN 1 ELSE 0

PingInv == BufferIsOwn /\ OnePing /\ Accounted

\* A step that leaves the link and the flag alone keeps the account.
LEMMA AccountStays ==
    ASSUME Accounted, UNCHANGED <<ping_outstanding, link, toServer, toClient>>
    PROVE  Accounted'
BY DEF Accounted, Clean, PingsUnderWay, UnderWay

\* A thread that is not about to write has nothing to keep in the buffer.
LEMMA NothingToWrite ==
    ASSUME OneThread, NEW t \in Threads, at'[t] \notin {"send", "ack", "ping"}
    PROVE  BufferIsOwn' /\ OnePing'
BY OneThreadMoves DEF BufferIsOwn, OnePing

\* Pings when a function begins.
LEMMA BeginPings ==
    ASSUME OneThread, Types, PingInv, NEW t \in Threads, Begin(t)
    PROVE  PingInv'
<1> USE DEF PingInv
<1>1. CASE NotConnected(t) \/ ConnectNetworkFails(t) \/ MQTTYield(t)
  <2>1. /\ at'[t] \in {"idle", "wait"}
        /\ UNCHANGED <<clientVars, netVars>> \/ link' # "open"
    BY <1>1 DEF NotConnected, ConnectNetworkFails, MQTTYield, Leaves, Enters,
       Types, ThreadTypes
  <2>2. Accounted'
    BY <2>1, AccountStays DEF clientVars, netVars, Accounted
  <2>3. QED
    BY <2>1, <2>2, NothingToWrite
<1>2. CASE ~(NotConnected(t) \/ ConnectNetworkFails(t) \/ MQTTYield(t))
  <2>1. /\ \E f : Enters(t, f, "send")
        /\ buf' = request'[t] /\ buf'.type # "PINGREQ"
    <3>1. CASE MQTTConnect(t) \/ MQTTDisconnect(t)
      BY <3>1 DEF MQTTConnect, MQTTDisconnect, Sends, Plain, Packet, Types,
         ThreadTypes
    <3>2. CASE MQTTSubscribe(t) \/ MQTTUnsubscribe(t)
      BY <3>2 DEF MQTTSubscribe, MQTTUnsubscribe, Sends, Packet, Types,
         ThreadTypes
    <3>3. CASE MQTTPublish(t)
      BY <3>3 DEF MQTTPublish, Sends, Packet, Types, ThreadTypes
    <3>4. QED
      BY <1>2, <3>1, <3>2, <3>3 DEF Begin
  <2>2. at'[t] = "send"
    BY <2>1 DEF Enters, Types, ThreadTypes
  <2>3. BufferIsOwn' /\ OnePing'
    BY <2>1, <2>2, OneThreadMoves DEF BufferIsOwn, OnePing, Meant
  <2>4. CASE MQTTConnect(t)
    <3>1. toServer' = <<>> /\ toClient' = <<>> /\ ping_outstanding' = FALSE
      BY <2>4 DEF MQTTConnect
    <3>2. PingsUnderWay' = 0
      <4>1. UnderWay(<<>>, "PINGREQ") = 0 /\ UnderWay(<<>>, "PINGRESP") = 0
        BY CountType, EmptySeq
      <4>2. QED
        BY <3>1, <4>1 DEF PingsUnderWay, UnderWay
    <3>3. QED
      BY <2>3, <3>1, <3>2 DEF Accounted
  <2>5. CASE ~MQTTConnect(t)
    <3>1. UNCHANGED <<ping_outstanding, netVars>>
      BY <1>2, <2>5 DEF Begin, MQTTSubscribe, MQTTUnsubscribe, MQTTPublish,
         MQTTDisconnect, clientVars
    <3>2. QED
      BY <2>3, <3>1, AccountStays DEF netVars
  <2>6. QED
    BY <2>4, <2>5
<1>3. QED
  BY <1>1, <1>2

\* A write that fails and leaves nothing garbled has written nothing.
LEMMA FailedCleanly ==
    ASSUME Types, NEW t \in Threads, FailsToWrite(t), link = "open", Clean'
    PROVE  toServer' = toServer
<1>1. PICK packets \in {<<>>, <<GARBLED>>, <<OnTheWire(t), GARBLED>>} :
         Puts(packets)
  BY DEF FailsToWrite
<1>2. packets \in Written(t)
  BY DEF Written
<1>3. packets \in Seq(Packets) /\ toServer' = toServer \o packets
  BY <1>1, <1>2, WrittenPackets DEF Puts
<1>4. toServer \in Seq(Packets) /\ Len(toServer) \in Nat
  BY LenProperties DEF Types, NetTypes
<1>5. ASSUME NEW n \in 1 .. 2, Len(packets) = n, packets[n] = GARBLED
      PROVE  FALSE
  <2>1. /\ Len(toServer') = Len(toServer) + n
        /\ toServer'[Len(toServer) + n] = GARBLED
    BY <1>3, <1>4, <1>5, ConcatProperties
  <2>2. QED
    BY <1>4, <2>1 DEF Clean
<1>6. packets = <<>>
  <2>1. packets = <<GARBLED>> => Len(packets) = 1 /\ packets[1] = GARBLED
    OBVIOUS
  <2>2. packets = <<OnTheWire(t), GARBLED>> =>
            Len(packets) = 2 /\ packets[2] = GARBLED
    OBVIOUS
  <2>3. QED
    BY <1>1, <1>5, <2>1, <2>2
<1>7. QED
  BY <1>3, <1>4, <1>6, ConcatEmptySeq

\* A write that succeeds puts the packet that is meant behind a clean queue.
LEMMA WrittenCleanly ==
    ASSUME Types, NEW t \in Threads, Writes(t), link = "open", Clean',
           buf = Meant(t)
    PROVE  Clean /\ toServer' = toServer \o <<buf>>
<1>1. Puts(<<buf>>) /\ <<buf>> \in Written(t)
  BY DEF Writes, OnTheWire, Written
<1>2. toServer' = toServer \o <<buf>>
  BY <1>1 DEF Puts
<1>3. /\ Len(toServer) \in Nat /\ Len(toServer') \in Nat
      /\ Len(toServer) <= Len(toServer')
      /\ \A i \in 1 .. Len(toServer) : toServer'[i] = toServer[i]
  BY <1>1, QueueAfterWrite, LenProperties DEF Types, NetTypes
<1>4. QED
  BY <1>2, <1>3 DEF Clean

\* Pings when a thread writes: only the ping itself counts.
LEMMA WritePings ==
    ASSUME OneThread, Types, PingInv, NEW t \in Threads, Write(t)
    PROVE  PingInv'
<1> USE DEF PingInv
<1>1. /\ at[t] \in {"send", "ack", "ping"}
      /\ at'[t] \notin {"send", "ack", "ping"}
  BY DEF Types, ThreadTypes, Write, SendOk, SendFails, AckOk, AckFails,
     PingOk, PingFails, Goes, Leaves, CyclesAgain
<1>2. BufferIsOwn' /\ OnePing' /\ buf = Meant(t)
  BY <1>1, NothingToWrite DEF BufferIsOwn
<1>3. link' = link /\ toClient' = toClient
  BY DEF Write, SendOk, SendFails, AckOk, AckFails, PingOk, PingFails,
     Writes, FailsToWrite, Puts
<1>4. SUFFICES ASSUME link = "open", Clean'
               PROVE  PingsUnderWay' = IF ping_outstanding' THEN 1 ELSE 0
  BY <1>2, <1>3 DEF Accounted
<1>5. UnderWay(toClient', "PINGRESP") = UnderWay(toClient, "PINGRESP")
  BY <1>3
<1>6. UnderWay(toClient, "PINGRESP") \in Nat
      /\ UnderWay(toServer, "PINGREQ") \in Nat
  BY CountType DEF Types, NetTypes
<1>7. CASE SendFails(t) \/ AckFails(t) \/ PingFails(t)
  <2>1. FailsToWrite(t) /\ UNCHANGED ping_outstanding
    BY <1>7 DEF SendFails, AckFails, PingFails, FailsToWrite
  <2>2. toServer' = toServer
    BY <1>4, <2>1, FailedCleanly
  <2>3. QED
    BY <1>3, <1>4, <2>1, <2>2 DEF Accounted, Clean, PingsUnderWay
<1>8. CASE SendOk(t) \/ AckOk(t) \/ PingOk(t)
  <2>1. Clean /\ toServer' = toServer \o <<buf>>
    BY <1>2, <1>4, <1>8, WrittenCleanly DEF SendOk, AckOk, PingOk
  <2>2. PingsUnderWay = IF ping_outstanding THEN 1 ELSE 0
    BY <1>4, <2>1 DEF Accounted
  <2>3. UnderWay(toServer', "PINGREQ") = UnderWay(toServer, "PINGREQ")
            + IF buf.type = "PINGREQ" THEN 1 ELSE 0
    BY <2>1, CountAppended DEF Types, ClientTypes, NetTypes
  <2>4. \/ /\ buf.type = "PINGREQ"
           /\ ping_outstanding = FALSE /\ ping_outstanding' = TRUE
        \/ /\ buf.type # "PINGREQ"
           /\ ping_outstanding' = ping_outstanding
    <3>1. CASE PingOk(t)
      BY <1>2, <3>1 DEF PingOk, Meant, OnePing, Types, ClientTypes, PINGREQ,
         Plain, Packet
    <3>2. CASE SendOk(t) \/ AckOk(t)
      BY <1>2, <3>2, ReplyTypes
      DEF SendOk, AckOk, Meant, OnePing, Types, ClientTypes
    <3>3. QED
      BY <1>8, <3>1, <3>2
  <2>5. QED
    BY <1>5, <1>6, <2>2, <2>3, <2>4 DEF PingsUnderWay
<1>9. QED
  BY <1>7, <1>8 DEF Write

\* Pings when a cycle goes on: a PINGRESP clears the flag as it leaves the
\* queue, and keepalive begins a ping only without one.
LEMMA CyclePings ==
    ASSUME OneThread, Types, PingInv, NEW t \in Threads, Cycle(t)
    PROVE  PingInv'
<1> USE DEF PingInv
<1>1. CASE ReadPacket(t)
  <2>1. /\ toClient # <<>> /\ readbuf' = Head(toClient)
        /\ toClient' = Tail(toClient)
        /\ UNCHANGED <<link, toServer>>
        /\ ping_outstanding' =
              (ping_outstanding /\ readbuf'.type # "PINGRESP")
    BY <1>1 DEF ReadPacket
  <2>2. BufferIsOwn' /\ OnePing'
    <3>1. \/ at'[t] = "keepalive"
          \/ at'[t] = "ack" /\ buf' = Reply(readbuf')
      BY <1>1 DEF ReadPacket, Reads, Types, ThreadTypes
    <3>2. QED
      BY <3>1, OneThreadMoves DEF BufferIsOwn, OnePing, Meant
  <2>3. Accounted'
    <3>1. UnderWay(toClient, "PINGRESP") = UnderWay(toClient', "PINGRESP")
              + IF readbuf'.type = "PINGRESP" THEN 1 ELSE 0
      BY <2>1, CountTaken DEF Types, NetTypes
    <3>2. toClient' \in Seq(Packets)
      BY <2>1, HeadTailProperties DEF Types, NetTypes
    <3>3. /\ UnderWay(toClient, "PINGRESP") \in Nat
          /\ UnderWay(toClient', "PINGRESP") \in Nat
          /\ UnderWay(toServer, "PINGREQ") \in Nat
      BY <3>2, CountType DEF Types, NetTypes
    <3>4. SUFFICES ASSUME link = "open", Clean
                   PROVE  PingsUnderWay' = IF ping_outstanding' THEN 1 ELSE 0
      BY <2>1 DEF Accounted, Clean
    <3>5. PingsUnderWay = IF ping_outstanding THEN 1 ELSE 0
      BY <3>4 DEF Accounted
    <3>6. PingsUnderWay' = UnderWay(toServer, "PINGREQ")
                               + UnderWay(toClient', "PINGRESP")
      BY <2>1 DEF PingsUnderWay
    <3>7. CASE readbuf'.type = "PINGRESP"
      <4>1. PingsUnderWay = 1
        BY <3>1, <3>3, <3>5, <3>7 DEF PingsUnderWay
      <4>2. ~ping_outstanding'
        BY <2>1, <3>7
      <4>3. QED
        BY <3>1, <3>3, <3>6, <3>7, <4>1, <4>2 DEF PingsUnderWay
    <3>8. CASE readbuf'.type # "PINGRESP"
      <4>1. ping_outstanding' = ping_outstanding
        BY <2>1, <3>8 DEF Types, ClientTypes
      <4>2. QED
        BY <3>1, <3>3, <3>5, <3>6, <3>8, <4>1 DEF PingsUnderWay
    <3>9. QED
      BY <3>7, <3>8
  <2>4. QED
    BY <2>2, <2>3
<1>2. CASE ReadNothing(t) \/ ReadHangs(t) \/ CycleGoesOn(t) \/ WaitEnds(t)
  <2>1. /\ at'[t] \notin {"send", "ack", "ping"}
        /\ UNCHANGED <<clientVars, netVars>>
    BY <1>2 DEF ReadNothing, ReadHangs, CycleGoesOn, WaitEnds, Reads,
       CyclesAgain, Leaves, Types, ThreadTypes
  <2>2. QED
    BY <2>1, NothingToWrite, AccountStays DEF clientVars, netVars
<1>3. CASE keepalive(t)
  <2>1. UNCHANGED <<clientVars, netVars>>
    BY <1>3 DEF keepalive
  <2>2. \/ at'[t] = "ping" /\ buf' = PINGREQ /\ ~ping_outstanding
        \/ at'[t] = "cycled"
    BY <1>3 DEF keepalive, Goes, Types, ThreadTypes
  <2>3. BufferIsOwn' /\ OnePing'
    BY <2>1, <2>2, OneThreadMoves DEF BufferIsOwn, OnePing, Meant, clientVars
  <2>4. QED
    BY <2>1, <2>3, AccountStays DEF clientVars, netVars
<1>4. QED
  BY <1>1, <1>2, <1>3 DEF Cycle

\* Pings when the broker takes a packet: PINGRESP takes the place of PINGREQ.
LEMMA BrokerPings ==
    ASSUME Types, Accounted, BrokerTakes
    PROVE  Accounted'
<1>1. /\ toServer # <<>> /\ toServer' = Tail(toServer)
      /\ Head(toServer).type # "GARBLED"
      /\ UNCHANGED <<link, ping_outstanding>>
  BY DEF BrokerTakes, clientVars
<1>2. PICK answer \in Answers(Head(toServer)) :
         toClient' = toClient \o answer
  BY QueueAfterAnswer
<1>3. /\ Head(toServer) = toServer[1] /\ Len(toServer) \in Nat \ {0}
      /\ Head(toServer) \in Packets /\ toServer' \in Seq(Packets)
      /\ Len(toServer') = Len(toServer) - 1
      /\ \A i \in 1 .. Len(toServer') : toServer'[i] = toServer[i + 1]
  BY <1>1, HeadTailProperties, EmptySeq DEF Types, NetTypes
<1>4. SUFFICES ASSUME link = "open", Clean'
               PROVE  PingsUnderWay' = IF ping_outstanding THEN 1 ELSE 0
  BY <1>1 DEF Accounted
<1>5. Clean
  <2>1. GARBLED.type = "GARBLED"
    BY DEF GARBLED, Plain, Packet
  <2>2. toServer[1] # GARBLED
    BY <1>1, <1>3, <2>1
  <2>3. \A i \in 2 .. Len(toServer) : toServer[i] # GARBLED
    <3> TAKE i \in 2 .. Len(toServer)
    <3>1. i - 1 \in 1 .. Len(toServer') /\ i - 1 + 1 = i
      BY <1>3
    <3>2. toServer'[i - 1] = toServer[i]
      BY <1>3, <3>1
    <3>3. toServer'[i - 1] # GARBLED
      BY <1>4, <3>1 DEF Clean, GARBLED, Plain, Packet
    <3>4. QED
      BY <3>2, <3>3
  <2>4. \A i \in 1 .. Len(toServer) : i = 1 \/ i \in 2 .. Len(toServer)
    BY <1>3
  <2>5. QED
    BY <2>2, <2>3, <2>4 DEF Clean
<1>6. PingsUnderWay = IF ping_outstanding THEN 1 ELSE 0
  BY <1>4, <1>5 DEF Accounted
<1>7. UnderWay(toServer, "PINGREQ") = UnderWay(toServer', "PINGREQ")
          + IF Head(toServer).type = "PINGREQ" THEN 1 ELSE 0
  BY <1>1, CountTaken DEF Types, NetTypes
<1>8. UnderWay(toClient', "PINGRESP") = UnderWay(toClient, "PINGRESP")
          + IF Head(toServer).type = "PINGREQ" THEN 1 ELSE 0
  <2>1. CASE answer = <<>>
    <3>1. toClient' = toClient
      BY <1>2, <2>1, ConcatEmptySeq DEF Types, NetTypes
    <3>2. Head(toServer).type # "PINGREQ"
      BY <1>3, <2>1, AnswerTypes
    <3>3. UnderWay(toClient, "PINGRESP") \in Nat
      BY CountType DEF Types, NetTypes
    <3>4. QED
      BY <3>1, <3>2, <3>3
  <2>2. CASE answer # <<>>
    <3>1. PICK a \in Packets :
             /\ answer = <<a>>
             /\ a.type = "PINGRESP" <=> Head(toServer).type = "PINGREQ"
      BY <1>3, <2>2, AnswerTypes
    <3>2. QED
      BY <1>2, <3>1, CountAppended DEF Types, NetTypes
  <2>3. QED
    BY <2>1, <2>2
<1>9. /\ UnderWay(toServer', "PINGREQ") \in Nat
      /\ UnderWay(toClient, "PINGRESP") \in Nat
  BY <1>3, CountType DEF Types, NetTypes
<1>10. PingsUnderWay' = PingsUnderWay
  BY <1>7, <1>8, <1>9 DEF PingsUnderWay
<1>11. QED
  BY <1>6, <1>10

\* Every step of one thread keeps the account.
LEMMA NextPings ==
    ASSUME OneThread, Types, PingInv, [Next]_vars
    PROVE  PingInv'
<1> USE DEF PingInv
<1>1. ASSUME NEW t \in Threads, Finish(t)
      PROVE  PingInv'
  <2>1. /\ at'[t] = "idle"
        /\ UNCHANGED <<ping_outstanding, netVars>>
    BY <1>1 DEF Finish, Connected, Subscribed, Acknowledged, Answered, Leaves,
       Types, ThreadTypes
  <2>2. QED
    BY <2>1, NothingToWrite, AccountStays DEF netVars
<1>2. CASE Environment
  <2>1. UNCHANGED <<at, request, buf, readbuf, ping_outstanding>>
    BY <1>2 DEF Environment, TimerExpires, PingTimerExpires, BrokerTakes,
       BrokerPublishes, LoseLink, threadVars, clientVars
  <2>2. BufferIsOwn' /\ OnePing'
    BY <2>1 DEF BufferIsOwn, OnePing, Meant
  <2>3. CASE PingTimerExpires \/ \E t \in Threads : TimerExpires(t)
    BY <2>1, <2>2, <2>3, AccountStays
    DEF PingTimerExpires, TimerExpires, netVars
  <2>4. CASE BrokerTakes
    BY <2>2, <2>4, BrokerPings
  <2>5. CASE BrokerPublishes
    <3>1. PICK topic \in subs, qos \in BrokerQos :
             toClient' = Append(toClient, Packet("PUBLISH", 1, qos, topic))
      BY <2>5 DEF BrokerPublishes
    <3> DEFINE p == Packet("PUBLISH", 1, qos, topic)
    <3>2. p \in Packets /\ p.type = "PUBLISH"
      BY BoundAssumption DEF Packet, PacketTypes, Packets, Types, NetTypes
    <3>3. toClient' = toClient \o <<p>>
      BY <3>1, <3>2, AppendIsConcat DEF Types, NetTypes
    <3>4. UnderWay(toClient', "PINGRESP") = UnderWay(toClient, "PINGRESP") + 0
      BY <3>2, <3>3, CountAppended DEF Types, NetTypes
    <3>5. UnderWay(toClient, "PINGRESP") \in Nat
      BY CountType DEF Types, NetTypes
    <3>6. PingsUnderWay' = PingsUnderWay
      BY <2>5, <3>4, <3>5 DEF BrokerPublishes, PingsUnderWay
    <3>7. QED
      BY <2>1, <2>2, <2>5, <3>6 DEF BrokerPublishes, Accounted, Clean
  <2>6. CASE LoseLink
    BY <2>2, <2>6 DEF LoseLink, Accounted
  <2>7. QED
    BY <1>2, <2>3, <2>4, <2>5, <2>6 DEF Environment
<1>3. CASE UNCHANGED vars
  <2>1. BufferIsOwn' /\ OnePing'
    BY <1>3 DEF vars, threadVars, clientVars, BufferIsOwn, OnePing, Meant
  <2>2. QED
    BY <1>3, <2>1, AccountStays DEF vars, clientVars, netVars
<1>4. QED
  BY <1>1, <1>2, <1>3, BeginPings, WritePings, CyclePings DEF Next

\* With one thread ping_outstanding counts the pings under way, unless a write
\* has failed half way: never two, and never one believed answered.
THEOREM PingsAccounted ==
    ASSUME OneThread
    PROVE  Spec => []PingAccounted
<1>1. Init => PingInv
  BY DEF Init, PingInv, BufferIsOwn, OnePing, Accounted
<1>2. Types /\ PingInv => PingAccounted
  <2>1. SUFFICES ASSUME Types, PingInv, link = "open",
                        Legible = DOMAIN toServer
                 PROVE  PingsUnderWay = IF ping_outstanding THEN 1 ELSE 0
    BY DEF PingAccounted
  <2>2. DOMAIN toServer = 1 .. Len(toServer) /\ Len(toServer) \in Nat
    BY <2>1, LenProperties DEF Types, NetTypes
  <2>3. \A i \in 1 .. Len(toServer) : i \in Legible
    BY <2>1, <2>2
  <2>4. Clean
    BY <2>2, <2>3 DEF Legible, Clean
  <2>5. QED
    BY <2>1, <2>4 DEF PingInv, Accounted
<1>3. Types /\ PingInv /\ [Next]_vars => PingInv'
  BY NextPings
<1>4. QED
  BY InitTypes, NextTypes, <1>1, <1>2, <1>3, PTL DEF Spec
==============================================================================
