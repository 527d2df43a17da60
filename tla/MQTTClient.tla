----------------------------- MODULE MQTTClient -----------------------------
(***************************************************************************)
(* The MQTT client, src/src/MQTTClient.c, as MqttConnect of mqtt.c sets it *)
(* up, with the broker at the other end of the link.                       *)
(*                                                                         *)
(* Every thread runs the same client object.  A step ends where the code   *)
(* can block: in the sl_Select that precedes a write, or in the one that   *)
(* precedes a read.  Between a serialisation and the write of the same     *)
(* packet any other thread may therefore run; both use the one buffer buf. *)
(*                                                                         *)
(* A timer is either running or expired; it may expire at any moment.      *)
(* A write succeeds as a whole, or fails and leaves what Transport tells.  *)
(* Packets from the broker are well-formed.                                *)
(***************************************************************************)
EXTENDS Integers, Sequences, FiniteSetsExt

CONSTANTS
    Threads,
    Calls,                 \* Calls[t]: the functions thread t may call
    Filters,               \* topics; a filter matches the topic it names
    NoFilter,
    MAX_PACKET_ID,
    MAX_MESSAGE_HANDLERS,
    BrokerQos,             \* the QoS of the messages the broker sends
    QueueBound             \* bound: packets under way in one direction

Operations == {"connect", "subscribe", "unsubscribe", "publish0", "publish1",
               "publish2", "yield", "disconnect"}

ASSUME CallsAssumption == Calls \in [Threads -> SUBSET Operations]
ASSUME FilterAssumption == NoFilter \notin Filters
ASSUME BoundAssumption ==
    /\ MAX_PACKET_ID \in Nat \ {0}
    /\ MAX_MESSAGE_HANDLERS \in Nat \ {0}
    /\ BrokerQos \subseteq 0 .. 2
    /\ QueueBound \in Nat \ {0}

VARIABLES
    at,              \* where each thread is within the client
    call,            \* the function it is in
    request,         \* the packet that function sends
    cycleRc,         \* what its last cycle read or came to
    expired,         \* has the timer of its call expired?
    result,          \* what its last call returned
    buf, readbuf,    \* the buffers all threads share
    isconnected,
    next_packetid,
    ping_outstanding,
    pingDue,         \* has ping_timer expired?
    handlers,        \* messageHandlers: the filter in each slot
    link,            \* the socket: "none", "open" or "lost"
    toServer, toClient,  \* packets under way
    session,         \* the broker's answer to CONNECT on this link
    subs             \* the filters the broker has granted

threadVars == <<at, call, request, cycleRc, expired, result>>
clientVars == <<isconnected, next_packetid, ping_outstanding, pingDue,
                handlers>>
netVars    == <<link, toServer, toClient, session, subs>>
vars       == <<threadVars, buf, readbuf, clientVars, netVars>>

SUCCESS == 0
FAILURE == -1

Packet(type, id, code, topic) ==
    [type |-> type, id |-> id, code |-> code, topic |-> topic]
Plain(type)   == Packet(type, 0, 0, NoFilter)
Ack(type, id) == Packet(type, id, 0, NoFilter)
NoPacket == Plain("NONE")
PINGREQ  == Plain("PINGREQ")
\* Bytes of which the broker can make no packet.
GARBLED  == Plain("GARBLED")

\* The packet type each function hands to waitfor; the others do not wait.
WaitsFor == [connect |-> "CONNACK", subscribe |-> "SUBACK",
             unsubscribe |-> "UNSUBACK", publish1 |-> "PUBACK",
             publish2 |-> "PUBCOMP"]
Wanted(t) == IF call[t] \in DOMAIN WaitsFor THEN WaitsFor[call[t]]
                                            ELSE "nothing"

Init ==
    /\ at = [t \in Threads |-> "idle"]
    /\ call = [t \in Threads |-> "none"]
    /\ request = [t \in Threads |-> NoPacket]
    /\ cycleRc = [t \in Threads |-> "none"]
    /\ expired = [t \in Threads |-> FALSE]
    /\ result = [t \in Threads |-> SUCCESS]
    /\ buf = NoPacket /\ readbuf = NoPacket
    /\ isconnected = FALSE
    /\ next_packetid = 0
    /\ ping_outstanding = FALSE /\ pingDue = FALSE
    /\ handlers = [i \in 1 .. MAX_MESSAGE_HANDLERS |-> NoFilter]
    /\ link = "none"
    /\ toServer = <<>> /\ toClient = <<>>
    /\ session = "none" /\ subs = {}

(***************************************************************************)
(* Entering and leaving a function.                                        *)
(***************************************************************************)
Enters(t, f, where) ==
    /\ at[t] = "idle"
    /\ f \in Calls[t]
    /\ at' = [at EXCEPT ![t] = where]
    /\ call' = [call EXCEPT ![t] = f]
    /\ UNCHANGED <<cycleRc, expired, result>>

\* The call serialises its packet into buf and is about to write it.
Sends(t, f, packet) ==
    /\ Enters(t, f, "send")
    /\ request' = [request EXCEPT ![t] = packet]
    /\ buf' = packet

Leaves(t, rc) ==
    /\ at' = [at EXCEPT ![t] = "idle"]
    /\ result' = [result EXCEPT ![t] = rc]
    /\ request' = [request EXCEPT ![t] = NoPacket]
    /\ cycleRc' = [cycleRc EXCEPT ![t] = "none"]
    /\ expired' = [expired EXCEPT ![t] = FALSE]
    /\ UNCHANGED call

\* A mutant: the identifier does not wrap.
getNextPacketId_Unwrapped == next_packetid + 1

getNextPacketId ==
    IF next_packetid = MAX_PACKET_ID THEN 1 ELSE next_packetid + 1

TakesPacketId == next_packetid' = getNextPacketId

\* Functions that are refused before they touch anything.
NotConnected(t) ==
    /\ at[t] = "idle"
    /\ ~isconnected
    /\ Calls[t] \cap {"subscribe", "unsubscribe", "publish0", "publish1",
                      "publish2"} # {}
    /\ Leaves(t, FAILURE)
    /\ UNCHANGED <<buf, readbuf, clientVars, netVars>>

\* MqttConnect fails before the client is set up.  A client that had a link
\* is left with no socket, or with one that no CONNECT went over and that a
\* broker answers nothing on; both count as a lost link.
ConnectNetworkFails(t) ==
    /\ at[t] = "idle"
    /\ "connect" \in Calls[t]
    /\ Leaves(t, FAILURE)
    /\ link' = IF link = "none" THEN "none" ELSE "lost"
    /\ toServer' = <<>> /\ toClient' = <<>>
    /\ UNCHANGED <<buf, readbuf, clientVars, session, subs>>

\* MqttConnect, the first time or again: a new socket, with which any earlier
\* link is forgotten; MQTTClient resets the object (but not next_packetid),
\* so that MQTTConnect never finds isconnected set; it restarts the keepalive
\* timer and serialises.
MQTTConnect(t) ==
    /\ Sends(t, "connect", Plain("CONNECT"))
    /\ link' = "open"
    /\ toServer' = <<>> /\ toClient' = <<>>
    /\ session' = "none" /\ subs' = {}
    /\ isconnected' = FALSE
    /\ ping_outstanding' = FALSE /\ pingDue' = FALSE
    /\ handlers' = [i \in 1 .. MAX_MESSAGE_HANDLERS |-> NoFilter]
    /\ UNCHANGED <<readbuf, next_packetid>>

MQTTSubscribe(t) ==
    /\ isconnected
    /\ TakesPacketId
    /\ \E f \in Filters :
          Sends(t, "subscribe", Packet("SUBSCRIBE", getNextPacketId, 0, f))
    /\ UNCHANGED <<readbuf, isconnected, ping_outstanding, pingDue,
                   handlers, netVars>>

MQTTUnsubscribe(t) ==
    /\ isconnected
    /\ TakesPacketId
    /\ \E f \in Filters :
          Sends(t, "unsubscribe",
                Packet("UNSUBSCRIBE", getNextPacketId, 0, f))
    /\ UNCHANGED <<readbuf, isconnected, ping_outstanding, pingDue,
                   handlers, netVars>>

\* A mutant: the connection is not checked.
MQTTPublish_Unchecked(t) ==
    /\ Sends(t, "publish0", Packet("PUBLISH", 0, 0, NoFilter))
    /\ UNCHANGED <<readbuf, clientVars, netVars>>

\* A message of QoS 0 takes no packet identifier.
MQTTPublish(t) ==
    /\ isconnected
    /\ \/ /\ Sends(t, "publish0", Packet("PUBLISH", 0, 0, NoFilter))
          /\ UNCHANGED next_packetid
       \/ /\ TakesPacketId
          /\ \E qos \in {1, 2} :
                Sends(t, IF qos = 1 THEN "publish1" ELSE "publish2",
                      Packet("PUBLISH", getNextPacketId, qos, NoFilter))
    /\ UNCHANGED <<readbuf, isconnected, ping_outstanding, pingDue,
                   handlers, netVars>>

MQTTDisconnect(t) ==
    /\ link # "none"
    /\ Sends(t, "disconnect", Plain("DISCONNECT"))
    /\ UNCHANGED <<readbuf, clientVars, netVars>>

MQTTYield(t) ==
    /\ link # "none"
    /\ Enters(t, "yield", "wait")
    /\ UNCHANGED <<request, buf, readbuf, clientVars, netVars>>

(***************************************************************************)
(* sendPacket: the packet of the call, an acknowledgement or a ping.       *)
(***************************************************************************)
Reply(packet) ==
    CASE packet.type = "PUBREC" -> Ack("PUBREL", packet.id)
      [] packet.type = "PUBLISH" /\ packet.code = 1 -> Ack("PUBACK", packet.id)
      [] packet.type = "PUBLISH" /\ packet.code = 2 -> Ack("PUBREC", packet.id)
      [] OTHER -> NoPacket

\* The packet the thread means to write.
Meant(t) == CASE at[t] = "send" -> request[t]
              [] at[t] = "ack"  -> Reply(readbuf)
              [] at[t] = "ping" -> PINGREQ

Goes(t, where) ==
    /\ at' = [at EXCEPT ![t] = where]
    /\ UNCHANGED <<call, request, cycleRc, expired, result>>

\* The loop around cycle starts again.
CyclesAgain(t) ==
    /\ at' = [at EXCEPT ![t] = "wait"]
    /\ cycleRc' = [cycleRc EXCEPT ![t] = "none"]
    /\ UNCHANGED <<call, request, expired, result>>

\* What goes out is the buffer, whatever was serialised into it last.
OnTheWire(t) == IF buf = Meant(t) THEN buf ELSE GARBLED

Puts(packets) ==
    /\ Len(toServer) + Len(packets) <= QueueBound
    /\ toServer' = IF link = "open" THEN toServer \o packets ELSE toServer
    /\ UNCHANGED <<buf, readbuf, next_packetid, handlers,
                   link, toClient, session, subs>>

\* sendPacket returns SUCCESS and has restarted ping_timer.
Writes(t) ==
    /\ Puts(<<OnTheWire(t)>>)
    /\ pingDue' = FALSE

\* It returns FAILURE.  Nothing has gone out, or a part of the packet, or the
\* whole packet and, after a short write, bytes from behind it.
FailsToWrite(t) ==
    /\ \E packets \in {<<>>, <<GARBLED>>, <<OnTheWire(t), GARBLED>>} :
          Puts(packets)
    /\ UNCHANGED <<ping_outstanding, pingDue>>

SendOk(t) ==
    /\ ~expired[t]
    /\ at[t] = "send"
    /\ Writes(t)
    /\ isconnected' = (isconnected /\ call[t] # "disconnect")
    /\ IF call[t] \in DOMAIN WaitsFor THEN Goes(t, "wait")
                                      ELSE Leaves(t, SUCCESS)
    /\ UNCHANGED ping_outstanding

SendFails(t) ==
    /\ at[t] = "send"
    /\ FailsToWrite(t)
    /\ Leaves(t, FAILURE)
    /\ isconnected' = (isconnected /\ call[t] # "disconnect")

AckOk(t) ==
    /\ ~expired[t]
    /\ at[t] = "ack"
    /\ Writes(t)
    /\ Goes(t, "keepalive")
    /\ UNCHANGED <<isconnected, ping_outstanding>>

\* cycle returns FAILURE at once: MQTTYield gives up, waitfor goes on.
AckFails(t) ==
    /\ at[t] = "ack"
    /\ FailsToWrite(t)
    /\ IF call[t] = "yield" THEN Leaves(t, FAILURE) ELSE CyclesAgain(t)
    /\ UNCHANGED isconnected

PingOk(t) ==
    /\ at[t] = "ping"
    /\ Writes(t)
    /\ ping_outstanding' = TRUE
    /\ Goes(t, "cycled")
    /\ UNCHANGED isconnected

PingFails(t) ==
    /\ at[t] = "ping"
    /\ FailsToWrite(t)
    /\ Goes(t, "cycled")
    /\ UNCHANGED isconnected

(***************************************************************************)
(* cycle, below MQTTYield or waitfor.                                      *)
(***************************************************************************)
Reads(t, where, type) ==
    /\ at[t] = "wait"
    /\ ~expired[t]
    /\ at' = [at EXCEPT ![t] = where]
    /\ cycleRc' = [cycleRc EXCEPT ![t] = type]
    /\ UNCHANGED <<call, request, expired, result>>

\* A packet is read; its handler may serialise a reply.  PUBREL, which has
\* no case in the switch, is dropped.
ReadPacket(t) ==
    /\ toClient # <<>>
    /\ readbuf' = Head(toClient)
    /\ toClient' = Tail(toClient)
    /\ IF Reply(readbuf') = NoPacket
         THEN Reads(t, "keepalive", readbuf'.type) /\ UNCHANGED buf
         ELSE Reads(t, "ack", readbuf'.type) /\ buf' = Reply(readbuf')
    /\ ping_outstanding' = (ping_outstanding /\ readbuf'.type # "PINGRESP")
    /\ UNCHANGED <<isconnected, next_packetid, pingDue, handlers,
                   link, toServer, session, subs>>

\* Nothing to read in time: readPacket's FAILURE becomes the packet type
\* (unsigned short) 65535, which is no failure to the callers of cycle.
ReadNothing(t) ==
    /\ Reads(t, "keepalive", "65535")
    /\ UNCHANGED <<buf, readbuf, clientVars, netVars>>

\* xdk_read may never leave its loop: on a dead socket sl_Recv fails again and
\* again, on an open one it waits for the rest of a packet without a timeout.
ReadHangs(t) ==
    /\ Reads(t, "spin", "none")
    /\ UNCHANGED <<buf, readbuf, clientVars, netVars>>

\* A mutant: a ping is sent although the last one is not answered.
keepalive_Again(t) ==
    /\ at[t] = "keepalive"
    /\ IF pingDue THEN Goes(t, "ping") /\ buf' = PINGREQ
                  ELSE Goes(t, "cycled") /\ UNCHANGED buf
    /\ UNCHANGED <<readbuf, clientVars, netVars>>

keepalive(t) ==
    /\ at[t] = "keepalive"
    /\ IF pingDue /\ ~ping_outstanding
         THEN Goes(t, "ping") /\ buf' = PINGREQ
         ELSE Goes(t, "cycled") /\ UNCHANGED buf
    /\ UNCHANGED <<readbuf, clientVars, netVars>>

\* The call goes on unless the cycle brought the packet it waits for.
CycleGoesOn(t) ==
    /\ at[t] = "cycled"
    /\ cycleRc[t] # Wanted(t)
    /\ CyclesAgain(t)
    /\ UNCHANGED <<buf, readbuf, clientVars, netVars>>

Answered(t) ==
    /\ at[t] = "cycled"
    /\ cycleRc[t] = Wanted(t)
    /\ UNCHANGED <<buf, readbuf, next_packetid, ping_outstanding, pingDue,
                   netVars>>

Connected(t) ==
    /\ Answered(t)
    /\ call[t] = "connect"
    /\ Leaves(t, readbuf.code)
    /\ isconnected' = (readbuf.code = SUCCESS)
    /\ UNCHANGED handlers

\* Mutants: the test for 0x80 is inverted; the loop over the slots does not
\* stop at the first free one.
Subscribed_Inverted(t) ==
    LET free == {i \in DOMAIN handlers : handlers[i] = NoFilter}
    IN  /\ Answered(t)
        /\ call[t] = "subscribe"
        /\ Leaves(t, readbuf.code)
        /\ handlers' = IF readbuf.code = 128 /\ free # {}
                         THEN [handlers EXCEPT ![Min(free)] = request[t].topic]
                         ELSE handlers
        /\ UNCHANGED isconnected

Subscribed_NoBreak(t) ==
    /\ Answered(t)
    /\ call[t] = "subscribe"
    /\ Leaves(t, readbuf.code)
    /\ handlers' = [i \in DOMAIN handlers |->
                      IF readbuf.code # 128 /\ handlers[i] = NoFilter
                        THEN request[t].topic ELSE handlers[i]]
    /\ UNCHANGED isconnected

\* The handler goes into the first free slot; without one the function
\* returns the granted QoS, 0, all the same.
Subscribed(t) ==
    LET free == {i \in DOMAIN handlers : handlers[i] = NoFilter}
    IN  /\ Answered(t)
        /\ call[t] = "subscribe"
        /\ Leaves(t, readbuf.code)
        /\ handlers' = IF readbuf.code # 128 /\ free # {}
                         THEN [handlers EXCEPT ![Min(free)] = request[t].topic]
                         ELSE handlers
        /\ UNCHANGED isconnected

Acknowledged(t) ==
    /\ Answered(t)
    /\ call[t] \in {"unsubscribe", "publish1", "publish2"}
    /\ Leaves(t, SUCCESS)
    /\ UNCHANGED <<isconnected, handlers>>

\* A mutant: what has arrived is drained before the timer is looked at.
WaitEnds_WhenDrained(t) ==
    /\ at[t] = "wait"
    /\ expired[t]
    /\ toClient = <<>>
    /\ Leaves(t, IF call[t] = "yield" THEN SUCCESS ELSE FAILURE)
    /\ UNCHANGED <<buf, readbuf, clientVars, netVars>>

\* The timer has run out: MQTTYield is done, waitfor has failed.
WaitEnds(t) ==
    /\ at[t] = "wait"
    /\ expired[t]
    /\ Leaves(t, IF call[t] = "yield" THEN SUCCESS ELSE FAILURE)
    /\ UNCHANGED <<buf, readbuf, clientVars, netVars>>

(***************************************************************************)
(* Time, the broker and the link.                                          *)
(***************************************************************************)
TimerExpires(t) ==
    /\ at[t] # "idle"
    /\ ~expired[t]
    /\ expired' = [expired EXCEPT ![t] = TRUE]
    /\ UNCHANGED <<at, call, request, cycleRc, result, buf, readbuf,
                   clientVars, netVars>>

\* A client that was connected has its timer running, whatever came of the
\* CONNECT that started it.  Its 10 s are longer than the second for which a
\* CONNECT waits for the first byte of an answer; the rest may take longer.
PingTimerExpires ==
    /\ link # "none"
    /\ \A t \in Threads :
          call[t] = "connect" /\ at[t] # "idle" => cycleRc[t] = "CONNACK"
    /\ pingDue' = TRUE
    /\ UNCHANGED <<threadVars, buf, readbuf, isconnected, next_packetid,
                   ping_outstanding, handlers, netVars>>

\* What the broker may answer to a packet: a set of sequences of packets.
Answers(p) ==
    CASE p.type = "CONNECT" ->
           {<<Packet("CONNACK", 0, code, NoFilter)>> : code \in {0, 5}}
      [] p.type = "SUBSCRIBE" ->
           {<<Packet("SUBACK", p.id, code, NoFilter)>> : code \in {0, 128}}
      [] p.type = "UNSUBSCRIBE" -> {<<Ack("UNSUBACK", p.id)>>}
      [] p.type = "PUBLISH" /\ p.code = 1 -> {<<Ack("PUBACK", p.id)>>}
      [] p.type = "PUBLISH" /\ p.code = 2 -> {<<Ack("PUBREC", p.id)>>}
      [] p.type = "PUBREC" -> {<<Ack("PUBREL", p.id)>>}
      [] p.type = "PUBREL" -> {<<Ack("PUBCOMP", p.id)>>}
      [] p.type = "PINGREQ" -> {<<Plain("PINGRESP")>>}
      [] OTHER -> {<<>>}

\* The broker takes CONNECT once, and all else of a client it has accepted.
BrokerTakes ==
    /\ link = "open"
    /\ toServer # <<>>
    /\ Head(toServer).type \notin {"GARBLED", "DISCONNECT"}
    /\ session = IF Head(toServer).type = "CONNECT" THEN "none"
                                                   ELSE "accepted"
    /\ toServer' = Tail(toServer)
    /\ \E answer \in Answers(Head(toServer)) :
          /\ Len(toClient) + Len(answer) <= QueueBound
          /\ toClient' = toClient \o answer
          /\ session' = IF Head(toServer).type = "CONNECT"
                          THEN IF answer[1].code = 0 THEN "accepted"
                                                     ELSE "refused"
                          ELSE session
          /\ subs' =
               CASE Head(toServer).type = "SUBSCRIBE" /\ answer[1].code = 0 ->
                      subs \cup {Head(toServer).topic}
                 [] Head(toServer).type = "UNSUBSCRIBE" ->
                      subs \ {Head(toServer).topic}
                 [] OTHER -> subs
    /\ UNCHANGED <<threadVars, buf, readbuf, clientVars, link>>

BrokerPublishes ==
    /\ link = "open"
    /\ Len(toClient) < QueueBound
    /\ \E topic \in subs, qos \in BrokerQos :
          toClient' = Append(toClient, Packet("PUBLISH", 1, qos, topic))
    /\ UNCHANGED <<threadVars, buf, readbuf, clientVars,
                   link, toServer, session, subs>>

\* The link breaks, or the broker closes it: after DISCONNECT, or when it
\* cannot make sense of what it reads or did not expect it.
LoseLink ==
    /\ link = "open"
    /\ link' = "lost"
    /\ toServer' = <<>> /\ toClient' = <<>>
    /\ UNCHANGED <<threadVars, buf, readbuf, clientVars, session, subs>>

------------------------------------------------------------------------------
Begin(t) == \/ NotConnected(t) \/ ConnectNetworkFails(t) \/ MQTTConnect(t)
            \/ MQTTSubscribe(t) \/ MQTTUnsubscribe(t) \/ MQTTPublish(t)
            \/ MQTTDisconnect(t) \/ MQTTYield(t)

Write(t) == SendOk(t) \/ SendFails(t) \/ AckOk(t) \/ AckFails(t)
            \/ PingOk(t) \/ PingFails(t)

Cycle(t) == ReadPacket(t) \/ ReadNothing(t) \/ ReadHangs(t) \/ keepalive(t)
            \/ CycleGoesOn(t) \/ WaitEnds(t)

Finish(t) == Connected(t) \/ Subscribed(t) \/ Acknowledged(t)

Environment == (\E t \in Threads : TimerExpires(t)) \/ PingTimerExpires
               \/ BrokerTakes \/ BrokerPublishes \/ LoseLink

Next == \/ \E t \in Threads : Begin(t) \/ Write(t) \/ Cycle(t) \/ Finish(t)
        \/ Environment

Spec == Init /\ [][Next]_vars

(***************************************************************************)
(* Fairness: a thread gets the processor and its timer runs on.  No write   *)
(* is assumed to end: xdk_write repeats sl_Select until the socket is       *)
(* writable.                                                                *)
(***************************************************************************)
FairSpec ==
    /\ Spec
    /\ \A t \in Threads : /\ WF_vars(Finish(t))
                          /\ WF_vars(Cycle(t))
                          /\ WF_vars(TimerExpires(t))

------------------------------------------------------------------------------
(***************************************************************************)
(* Properties.                                                             *)
(***************************************************************************)
PacketTypes == {"CONNECT", "CONNACK", "PUBLISH", "PUBACK", "PUBREC", "PUBREL",
                "PUBCOMP", "SUBSCRIBE", "SUBACK", "UNSUBSCRIBE", "UNSUBACK",
                "PINGREQ", "PINGRESP", "DISCONNECT", "GARBLED", "NONE"}
Packets == [type : PacketTypes, id : 0 .. MAX_PACKET_ID,
            code : {0, 1, 2, 5, 128}, topic : Filters \cup {NoFilter}]

\* The type invariant.
TypeOK ==
    /\ at \in [Threads -> {"idle", "send", "wait", "ack", "keepalive", "ping",
                           "cycled", "spin"}]
    /\ call \in [Threads -> Operations \cup {"none"}]
    /\ \A t \in Threads : request[t] \in Packets
    /\ cycleRc \in [Threads -> PacketTypes \cup {"none", "65535"}]
    /\ expired \in [Threads -> BOOLEAN]
    /\ result \in [Threads -> {FAILURE, SUCCESS, 5, 128}]
    /\ buf \in Packets /\ readbuf \in Packets
    /\ isconnected \in BOOLEAN
    /\ next_packetid \in 0 .. MAX_PACKET_ID
    /\ ping_outstanding \in BOOLEAN /\ pingDue \in BOOLEAN
    /\ handlers \in [1 .. MAX_MESSAGE_HANDLERS -> Filters \cup {NoFilter}]
    /\ link \in {"none", "open", "lost"}
    /\ toServer \in Seq(Packets) /\ Len(toServer) <= QueueBound
    /\ toClient \in Seq(Packets) /\ Len(toClient) <= QueueBound
    /\ session \in {"none", "accepted", "refused"}
    /\ subs \subseteq Filters

UnderWay(queue, type) ==
    Cardinality({i \in DOMAIN queue : queue[i].type = type})
PingsUnderWay ==
    UnderWay(toServer, "PINGREQ") + UnderWay(toClient, "PINGRESP")

\* The packets under way the broker will read: those before garbled bytes.
Legible == {i \in DOMAIN toServer : \A j \in 1 .. i : toServer[j] # GARBLED}

\* ping_outstanding counts the pings under way: never two, and never one
\* that is believed answered (or the keepalive of the link would be lost),
\* unless a write that failed half way has spoilt the stream.
PingAccounted ==
    link = "open" /\ Legible = DOMAIN toServer =>
        PingsUnderWay = IF ping_outstanding THEN 1 ELSE 0

\* The broker reads CONNECT first and once on a link, and no request and no
\* acknowledgement of a client that it has not accepted.  A ping it may read:
\* keepalive does not look at isconnected, so a client that goes on polling
\* after a CONNECT without success sends one when its interval has passed.
ProtocolOrder ==
    \A i \in Legible :
        IF toServer[i].type = "CONNECT" THEN i = 1 /\ session = "none"
        ELSE \/ session = "accepted"
             \/ toServer[i].type \in {"DISCONNECT", "PINGREQ"}

\* A call that found its answer found the answer to its own request: none of
\* the callers of waitfor compares the packet identifier it sent with the one
\* that came back, so only the way they are used can make this true.
AnswerIsOwn ==
    \A t \in Threads : at[t] = "cycled" /\ cycleRc[t] = Wanted(t) =>
                           readbuf.id = request[t].id

\* "Message handlers are indexed by subscription topic" (MQTTClient.h:83): a
\* message is not handed twice to the handler of its topic.
HandlersIndexedByTopic ==
    \A i, j \in DOMAIN handlers :
        handlers[i] = handlers[j] /\ handlers[i] # NoFilter => i = j

\* ping_outstanding is set after "send the ping packet" (MQTTClient.c:210):
\* while the link is up, a ping is then on its way to the broker or back.
PingIsSent == ping_outstanding /\ link = "open" => PingsUnderWay > 0

\* A call that waits for packets comes back, however many packets arrive and
\* whichever it waits for in vain, unless the socket holds it for ever in one
\* write or in one read.
WaitsEnd ==
    \A t \in Threads :
        []<>(at[t] \notin {"send", "ack", "ping", "spin"}) =>
            (at[t] = "wait" ~> at[t] = "idle")
==============================================================================
