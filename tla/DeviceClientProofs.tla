------------------------- MODULE DeviceClientProofs -------------------------
(***************************************************************************)
(* Proofs about DeviceClient, for any filters, number of handler slots,    *)
(* range of identifiers and QoS of the broker's messages.                  *)
(***************************************************************************)
EXTENDS DeviceClient, MQTTClientProofs

\* A step of the device is one of the client, by a task that may make the
\* call, or starts everything again.
LEMMA DeviceSteps ==
    ASSUME [DeviceNext]_vars
    PROVE  \/ [Next]_vars
           \/ Reset
BY TasksAssumption DEF DeviceNext, Next

\* After a reset the client is as it was in the beginning.
LEMMA ResetIsInit == Reset => Init'
BY DEF Reset, Init

\* The types hold for the device.
LEMMA DeviceTypes == DeviceSpec => []Types
<1>1. Types /\ [DeviceNext]_vars => Types' \/ Init'
  BY NextTypes, DeviceSteps, ResetIsInit
<1>2. QED
  BY InitTypes, <1>1, PTL DEF DeviceSpec

------------------------------------------------------------------------------
(***************************************************************************)
(* The tasks take turns.                                                   *)
(***************************************************************************)

\* A task makes its own call only.
OwnCalls == \A t \in Tasks :
    /\ call[t] \in {"none"} \cup Calls[t]
    /\ at[t] # "idle" => call[t] # "none"

\* The subscription follows the connection, and all else the subscription.
InTurn ==
    /\ call[Subscribing] # "none" => Succeeded(Connecting, "connect")
    /\ \A t \in {Publishing, Polling} :
          call[t] # "none" => Succeeded(Subscribing, "subscribe")

\* The calls are those of the assumption.
LEMMA TheirCalls ==
    /\ Threads = Tasks
    /\ Calls[Connecting] = {"connect"} /\ Calls[Subscribing] = {"subscribe"}
    /\ Calls[Publishing] = {"publish0"} /\ Calls[Polling] = {"yield"}
BY TasksAssumption
DEF Tasks, Connecting, Subscribing, Publishing, Polling

\* What ClientUse allows, in the words of this module.
LEMMA MayCallMeans ==
    ASSUME NEW t \in Tasks, MayCall(t), OwnCalls
    PROVE  /\ at[t] = "idle"
           /\ t # Polling => result[t] = SUCCESS
           /\ t \in {Connecting, Subscribing} => call[t] = "none"
           /\ t = Subscribing => Succeeded(Connecting, "connect")
           /\ t \in {Publishing, Polling} =>
                 Succeeded(Subscribing, "subscribe")
<1>1. PICK u \in DOMAIN UserOf : t = UserOf[u] /\ Use!Allowed(u)
  BY DEF MayCall
<1>2. DOMAIN UserOf = {"connecting", "subscribing", "publishing", "polling"}
  BY DEF UserOf
<1>3. /\ Stage(u) = "idle"
      /\ u = "subscribing" => Stage("connecting") = "ok"
      /\ u \in {"publishing", "polling"} => Stage("subscribing") = "ok"
  BY <1>1, <1>2 DEF Use!Allowed
<1>4. /\ UserOf["connecting"] = Connecting
      /\ UserOf["subscribing"] = Subscribing
      /\ UserOf["publishing"] = Publishing /\ UserOf["polling"] = Polling
  BY DEF UserOf
<1>5. /\ Stage("connecting") \in {"idle", "ok"} =>
             at[Connecting] = "idle" /\ result[Connecting] = SUCCESS
      /\ Stage("connecting") = "idle" => call[Connecting] = "none"
      /\ Stage("connecting") = "ok" => call[Connecting] # "none"
  BY <1>4 DEF Stage
<1>6. /\ Stage("subscribing") \in {"idle", "ok"} =>
             at[Subscribing] = "idle" /\ result[Subscribing] = SUCCESS
      /\ Stage("subscribing") = "idle" => call[Subscribing] = "none"
      /\ Stage("subscribing") = "ok" => call[Subscribing] # "none"
  BY <1>4 DEF Stage
<1>7. /\ Stage("publishing") = "idle" =>
             at[Publishing] = "idle" /\ result[Publishing] = SUCCESS
      /\ Stage("polling") = "idle" => at[Polling] = "idle"
  BY <1>4 DEF Stage
<1>8. /\ call[Connecting] # "none" => call[Connecting] = "connect"
      /\ call[Subscribing] # "none" => call[Subscribing] = "subscribe"
  BY TheirCalls DEF OwnCalls, Tasks
<1>9. /\ Connecting # Subscribing /\ Connecting # Publishing
      /\ Connecting # Polling /\ Subscribing # Publishing
      /\ Subscribing # Polling /\ Publishing # Polling
  BY DEF Connecting, Subscribing, Publishing, Polling
<1>10. QED
  BY <1>1, <1>2, <1>3, <1>4, <1>5, <1>6, <1>7, <1>8, <1>9 DEF Succeeded

\* How a call begins: it is refused at once, or entered.
LEMMA Begins ==
    ASSUME Types, NEW t \in Threads, Begin(t)
    PROVE  /\ at[t] = "idle" /\ readbuf' = readbuf
           /\ \/ /\ Leaves(t, FAILURE)
                 /\ UNCHANGED <<buf, clientVars, session, subs>>
              \/ \E f \in Calls[t], where \in {"send", "wait"} :
                    Enters(t, f, where)
<1>1. CASE NotConnected(t) \/ ConnectNetworkFails(t)
  BY <1>1 DEF NotConnected, ConnectNetworkFails, netVars
<1>2. CASE MQTTConnect(t) \/ MQTTDisconnect(t)
  BY <1>2 DEF MQTTConnect, MQTTDisconnect, Sends, Enters
<1>3. CASE MQTTSubscribe(t) \/ MQTTUnsubscribe(t)
  BY <1>3 DEF MQTTSubscribe, MQTTUnsubscribe, Sends, Enters
<1>4. CASE MQTTPublish(t)
  BY <1>4 DEF MQTTPublish, Sends, Enters
<1>5. CASE MQTTYield(t)
  BY <1>5 DEF MQTTYield, Enters
<1>6. QED
  BY <1>1, <1>2, <1>3, <1>4, <1>5 DEF Begin

\* How it goes on: within the function, or out of it.
LEMMA GoesOn ==
    ASSUME Types, NEW t \in Threads, Write(t) \/ Cycle(t) \/ Finish(t)
    PROVE  /\ at[t] # "idle"
           /\ \/ \E where \in {"wait", "ack", "keepalive", "ping", "cycled",
                               "spin"} :
                    \/ Goes(t, where)
                    \/ CyclesAgain(t)
                    \/ \E type : Reads(t, where, type)
              \/ \E rc : Leaves(t, rc)
<1>1. CASE Write(t)
  BY <1>1 DEF Write, SendOk, SendFails, AckOk, AckFails, PingOk, PingFails
<1>2. CASE ReadPacket(t)
  BY <1>2 DEF ReadPacket, Reads
<1>3. CASE ReadNothing(t)
  BY <1>3 DEF ReadNothing, Reads
<1>4. CASE ReadHangs(t)
  BY <1>4 DEF ReadHangs, Reads
<1>5. CASE keepalive(t) \/ CycleGoesOn(t) \/ WaitEnds(t)
  BY <1>5 DEF keepalive, CycleGoesOn, WaitEnds
<1>6. CASE Finish(t)
  BY <1>6 DEF Finish, Connected, Subscribed, Acknowledged, Answered
<1>7. QED
  BY <1>1, <1>2, <1>3, <1>4, <1>5, <1>6 DEF Cycle

\* The variables of the other threads stay; within a call the function and
\* its request stay, and out of it only the result is left.
LEMMA ThreadMoves ==
    ASSUME Types, NEW t \in Threads, Write(t) \/ Cycle(t) \/ Finish(t)
    PROVE  /\ at[t] # "idle" /\ call' = call
           /\ \A u \in Threads : u # t =>
                 /\ at'[u] = at[u] /\ request'[u] = request[u]
                 /\ cycleRc'[u] = cycleRc[u] /\ result'[u] = result[u]
           /\ \/ /\ at'[t] # "idle" /\ request' = request
                 /\ result' = result
              \/ /\ at'[t] = "idle" /\ cycleRc'[t] = "none"
<1>1. ASSUME NEW rc, Leaves(t, rc)
      PROVE  /\ call' = call
             /\ \A u \in Threads : u # t =>
                   /\ at'[u] = at[u] /\ request'[u] = request[u]
                   /\ cycleRc'[u] = cycleRc[u] /\ result'[u] = result[u]
             /\ at'[t] = "idle" /\ cycleRc'[t] = "none"
  BY <1>1 DEF Leaves, Types, ThreadTypes
<1>2. ASSUME NEW where \in {"wait", "ack", "keepalive", "ping", "cycled",
                            "spin"},
             \/ Goes(t, where)
             \/ CyclesAgain(t)
             \/ \E type : Reads(t, where, type)
      PROVE  /\ UNCHANGED <<call, request, result>>
             /\ \A u \in Threads : u # t =>
                   at'[u] = at[u] /\ cycleRc'[u] = cycleRc[u]
             /\ at'[t] # "idle"
  BY <1>2 DEF Goes, CyclesAgain, Reads, Types, ThreadTypes
<1>3. QED
  BY <1>1, <1>2, GoesOn

\* A connecting or subscribing task has the client for itself.
LEMMA Alone ==
    ASSUME OwnCalls, InTurn, NEW t \in {Connecting, Subscribing},
           at[t] # "idle", NEW u \in Tasks, u # t
    PROVE  at[u] = "idle"
BY DEF OwnCalls, InTurn, Succeeded, Tasks, Connecting, Subscribing,
   Publishing, Polling

\* The turns when a call begins.
LEMMA BeginTurns ==
    ASSUME Types, OwnCalls, InTurn, NEW t \in Tasks, MayCall(t), Begin(t)
    PROVE  OwnCalls' /\ InTurn'
<1>1. /\ at[t] = "idle"
      /\ t # Polling => result[t] = SUCCESS
      /\ t \in {Connecting, Subscribing} => call[t] = "none"
      /\ t = Subscribing => Succeeded(Connecting, "connect")
      /\ t \in {Publishing, Polling} => Succeeded(Subscribing, "subscribe")
  BY MayCallMeans
<1>2. /\ \/ at'[t] = "idle" /\ call'[t] = call[t]
         \/ at'[t] # "idle" /\ call'[t] \in Calls[t] /\ call'[t] # "none"
      /\ \A u \in Tasks : u # t =>
            at'[u] = at[u] /\ call'[u] = call[u] /\ result'[u] = result[u]
  <2>1. t \in Threads /\ Calls[t] \subseteq Operations
    BY TheirCalls, CallsAreOperations
  <2>2. QED
    BY <2>1, TheirCalls, Begins
    DEF Leaves, Enters, Operations, Types, ThreadTypes
<1>3. OwnCalls'
  BY <1>2 DEF OwnCalls
<1>4. call[Subscribing] # "none" => t # Connecting
  BY <1>1 DEF InTurn, Succeeded
<1>5. \A u \in {Publishing, Polling} : call[u] # "none" => t # Subscribing
  BY <1>1 DEF InTurn, Succeeded
<1>6. QED
  BY <1>1, <1>2, <1>3, <1>4, <1>5
  DEF InTurn, Succeeded, Tasks, Connecting, Subscribing, Publishing, Polling

\* The turns when a call goes on or ends.
LEMMA ThreadTurns ==
    ASSUME Types, OwnCalls, InTurn, NEW t \in Tasks,
           Write(t) \/ Cycle(t) \/ Finish(t)
    PROVE  OwnCalls' /\ InTurn'
<1>1. /\ at[t] # "idle" /\ call' = call
      /\ \A u \in Tasks : u # t =>
            at'[u] = at[u] /\ result'[u] = result[u]
  BY ThreadMoves, TheirCalls
<1>2. OwnCalls'
  BY <1>1 DEF OwnCalls
<1>3. QED
  BY <1>1, <1>2 DEF InTurn, Succeeded, Tasks, Connecting, Subscribing,
     Publishing, Polling

------------------------------------------------------------------------------
(***************************************************************************)
(* The packets under way and in the buffers.                               *)
(***************************************************************************)
Around == {buf, readbuf} \cup {toServer[i] : i \in 1 .. Len(toServer)}
                         \cup {toClient[i] : i \in 1 .. Len(toClient)}

Marked == {"CONNECT", "CONNACK", "SUBSCRIBE", "SUBACK", "UNSUBSCRIBE"}

AnswerCode(p) == p.code \in {0, 5, 128}

\* Where packets of these types come from, for any threads: requests from a
\* call, their answers from the requests; what an answer grants the broker
\* has noted.
NewPacket(p) ==
    \/ p.type \notin Marked
    \/ p.type = "CONNECT" /\ \E t \in Threads : MQTTConnect(t)
    \/ /\ p.type = "CONNACK" /\ p.id = 0 /\ AnswerCode(p)
       /\ \E q \in Around : q.type = "CONNECT"
       /\ p.code = SUCCESS => session' = "accepted"
    \/ /\ p.type = "SUBACK" /\ AnswerCode(p)
       /\ \E q \in Around :
             /\ q.type = "SUBSCRIBE" /\ q.id = p.id
             /\ p.code = SUCCESS => q.topic \in subs'
    \/ /\ p.type = "SUBSCRIBE"
       /\ \E t \in Threads : MQTTSubscribe(t) /\ p = request'[t]
    \/ p.type = "UNSUBSCRIBE" /\ \E t \in Threads : MQTTUnsubscribe(t)

\* The constant packets are not of these types.
LEMMA ConstantsUnmarked ==
    /\ GARBLED.type \notin Marked /\ PINGREQ.type \notin Marked
    /\ NoPacket.type \notin Marked
BY DEF GARBLED, PINGREQ, NoPacket, Plain, Packet, Marked

\* New packets when a call begins.
LEMMA BeginAround ==
    ASSUME Types, NEW t \in Threads, Begin(t)
    PROVE  \A p \in Around' : p \in Around \/ NewPacket(p)
<1>1. /\ readbuf' = readbuf
      /\ toServer' = toServer \/ toServer' = <<>>
      /\ toClient' = toClient \/ toClient' = <<>>
  BY DEF Begin, NotConnected, ConnectNetworkFails, MQTTConnect, MQTTSubscribe,
     MQTTUnsubscribe, MQTTPublish, MQTTDisconnect, MQTTYield, netVars
<1>2. buf' = buf \/ NewPacket(buf')
  <2>1. CASE NotConnected(t) \/ ConnectNetworkFails(t) \/ MQTTYield(t)
    BY <2>1 DEF NotConnected, ConnectNetworkFails, MQTTYield
  <2>2. CASE MQTTConnect(t)
    <3>1. buf'.type = "CONNECT"
      BY <2>2 DEF MQTTConnect, Sends, Plain, Packet
    <3>2. QED
      BY <2>2, <3>1 DEF NewPacket
  <2>3. CASE MQTTUnsubscribe(t)
    <3>1. buf'.type = "UNSUBSCRIBE"
      BY <2>3 DEF MQTTUnsubscribe, Sends, Packet
    <3>2. QED
      BY <2>3, <3>1 DEF NewPacket
  <2>4. CASE MQTTDisconnect(t) \/ MQTTPublish(t)
    BY <2>4 DEF MQTTDisconnect, MQTTPublish, Sends, Plain, Packet, NewPacket,
       Marked
  <2>5. CASE MQTTSubscribe(t)
    <3>1. buf'.type = "SUBSCRIBE" /\ buf' = request'[t]
      BY <2>5 DEF MQTTSubscribe, Sends, Packet, Types, ThreadTypes
    <3>2. QED
      BY <2>5, <3>1 DEF NewPacket
  <2>6. QED
    BY <2>1, <2>2, <2>3, <2>4, <2>5 DEF Begin
<1>3. QED
  BY <1>1, <1>2 DEF Around

\* No new packet when a thread writes, and none of these types in a cycle.
LEMMA RunAround ==
    ASSUME Types, NEW t \in Threads, Write(t) \/ Cycle(t) \/ Finish(t)
    PROVE  \A p \in Around' : p \in Around \/ NewPacket(p)
<1>1. CASE Write(t)
  <2>1. PICK packets \in Written(t) : Puts(packets)
    BY <1>1, EveryWrite
    DEF Write, SendOk, SendFails, AckOk, AckFails, PingOk, PingFails
  <2>2. buf' = buf /\ readbuf' = readbuf /\ toClient' = toClient
    BY <2>1 DEF Puts
  <2>3. Len(toServer) \in Nat /\ Len(toServer') \in Nat
    BY <2>1, QueueAfterWrite, LenProperties DEF Types, NetTypes
  <2>4. \A i \in 1 .. Len(toServer') : \/ /\ i \in 1 .. Len(toServer)
                                          /\ toServer'[i] = toServer[i]
                                       \/ toServer'[i] = GARBLED
                                       \/ toServer'[i] = buf
    BY <2>1, <2>3, QueueAfterWrite
  <2>5. QED
    BY <2>2, <2>4, ConstantsUnmarked DEF Around, NewPacket
<1>2. CASE ReadPacket(t)
  <2>1. /\ toServer' = toServer /\ toClient # <<>>
        /\ buf' = buf \/ buf' = Reply(readbuf')
    BY <1>2 DEF ReadPacket
  <2>2. /\ readbuf' \in Packets /\ readbuf' = toClient[1]
        /\ Len(toClient) \in Nat \ {0}
        /\ Len(toClient') = Len(toClient) - 1
        /\ \A i \in 1 .. Len(toClient') : toClient'[i] = toClient[i + 1]
    BY <1>2, <2>1, QueueAfterRead, EmptySeq DEF Types, NetTypes
  <2>3. Reply(readbuf').type \notin Marked
    BY <2>2, ReplyTypes DEF Marked
  <2>4. \A i \in 1 .. Len(toClient') : toClient'[i] \in Around
    <3> TAKE i \in 1 .. Len(toClient')
    <3>1. i + 1 \in 1 .. Len(toClient) /\ toClient'[i] = toClient[i + 1]
      BY <2>2
    <3>2. QED
      BY <3>1 DEF Around
  <2>5. readbuf' \in Around
    BY <2>2 DEF Around
  <2>6. buf' \in Around \/ NewPacket(buf')
    BY <2>1, <2>3 DEF Around, NewPacket
  <2>7. \A i \in 1 .. Len(toServer') : toServer'[i] \in Around
    BY <2>1 DEF Around
  <2>8. QED
    BY <2>4, <2>5, <2>6, <2>7 DEF Around
<1>3. CASE Cycle(t) /\ ~ReadPacket(t)
  <2>1. /\ readbuf' = readbuf /\ toServer' = toServer /\ toClient' = toClient
        /\ buf' = buf \/ buf' = PINGREQ
    BY <1>3 DEF Cycle, ReadNothing, ReadHangs, keepalive, CycleGoesOn,
       WaitEnds, netVars
  <2>2. QED
    BY <2>1, ConstantsUnmarked DEF Around, NewPacket
<1>4. CASE Finish(t)
  BY <1>4 DEF Finish, Connected, Subscribed, Acknowledged, Answered, netVars,
     Around
<1>5. QED
  BY <1>1, <1>2, <1>3, <1>4

\* New packets from the broker.
LEMMA EnvironmentAround ==
    ASSUME Types, Environment
    PROVE  \A p \in Around' : p \in Around \/ NewPacket(p)
<1>1. CASE BrokerTakes
  <2>1. toServer # <<>> /\ toServer' = Tail(toServer)
    BY <1>1 DEF BrokerTakes
  <2>2. PICK answer \in Answers(Head(toServer)) :
           /\ toClient' = toClient \o answer
           /\ session' = IF Head(toServer).type = "CONNECT"
                           THEN IF answer[1].code = 0 THEN "accepted"
                                                      ELSE "refused"
                           ELSE session
           /\ subs' =
                CASE Head(toServer).type = "SUBSCRIBE" /\ answer[1].code = 0 ->
                       subs \cup {Head(toServer).topic}
                  [] Head(toServer).type = "UNSUBSCRIBE" ->
                       subs \ {Head(toServer).topic}
                  [] OTHER -> subs
    BY <1>1 DEF BrokerTakes
  <2>3. buf' = buf /\ readbuf' = readbuf
    BY <1>1 DEF BrokerTakes
  <2>4. /\ Head(toServer) = toServer[1] /\ Len(toServer) \in Nat \ {0}
        /\ Head(toServer) \in Packets
        /\ Len(toServer') = Len(toServer) - 1
        /\ \A i \in 1 .. Len(toServer') : toServer'[i] = toServer[i + 1]
    BY <2>1, HeadTailProperties, EmptySeq DEF Types, NetTypes
  <2>5. Head(toServer) \in Around
    BY <2>4 DEF Around
  <2>6. \A i \in 1 .. Len(toServer') : toServer'[i] \in Around
    BY <2>4 DEF Around
  <2>7. \A i \in 1 .. Len(toClient') :
           toClient'[i] \in Around \/ NewPacket(toClient'[i])
    <3>1. CASE answer = <<>>
      BY <2>2, <3>1, ConcatEmptySeq DEF Types, NetTypes, Around
    <3>2. CASE answer # <<>>
      <4>1. PICK a \in Packets :
               /\ answer = <<a>>
               /\ a.type = "SUBACK" <=> Head(toServer).type = "SUBSCRIBE"
               /\ a.type = "CONNACK" <=> Head(toServer).type = "CONNECT"
               /\ a.type = "CONNACK" => a.id = 0
               /\ a.type = "SUBACK" => a.id = Head(toServer).id
               /\ a.type \in {"CONNACK", "SUBACK"} => AnswerCode(a)
               /\ a.type \notin {"CONNECT", "SUBSCRIBE", "UNSUBSCRIBE"}
        BY <2>4, <3>2, AnswerTypes DEF AnswerCode
      <4>2. NewPacket(a)
        <5>1. answer[1] = a
          BY <4>1
        <5>2. a.type = "CONNACK" /\ a.code = 0 => session' = "accepted"
          BY <2>2, <4>1, <5>1
        <5>3. a.type = "SUBACK" /\ a.code = 0 =>
                 Head(toServer).topic \in subs'
          BY <2>2, <4>1, <5>1
        <5>4. QED
          BY <2>5, <4>1, <5>2, <5>3 DEF NewPacket, Marked, SUCCESS
      <4>3. /\ answer \in Seq(Packets) /\ Len(answer) = 1 /\ answer[1] = a
            /\ toClient \in Seq(Packets) /\ Len(toClient) \in Nat
        BY <4>1, LenProperties DEF Types, NetTypes
      <4>4. toClient' = toClient \o answer
        BY <2>2
      <4>5. /\ Len(toClient') = Len(toClient) + Len(answer)
            /\ \A i \in 1 .. Len(toClient) + Len(answer) : toClient'[i] =
                  IF i <= Len(toClient) THEN toClient[i]
                                        ELSE answer[i - Len(toClient)]
        BY <4>3, <4>4, ConcatProperties
      <4>6. \A i \in 1 .. Len(toClient') :
               \/ i \in 1 .. Len(toClient) /\ toClient'[i] = toClient[i]
               \/ toClient'[i] = a
        BY <4>3, <4>5
      <4>7. QED
        BY <4>2, <4>6 DEF Around
    <3>3. QED
      BY <3>1, <3>2
  <2>8. QED
    BY <2>3, <2>6, <2>7 DEF Around
<1>2. CASE BrokerPublishes
  <2>1. PICK topic \in subs, qos \in BrokerQos :
           toClient' = Append(toClient, Packet("PUBLISH", 1, qos, topic))
    BY <1>2 DEF BrokerPublishes
  <2> DEFINE a == Packet("PUBLISH", 1, qos, topic)
  <2>2. a \in Packets /\ a.type = "PUBLISH"
    BY BoundAssumption DEF Packet, PacketTypes, Packets, Types, NetTypes
  <2>3. \A i \in 1 .. Len(toClient') :
           \/ i \in 1 .. Len(toClient) /\ toClient'[i] = toClient[i]
           \/ toClient'[i] = a
    BY <2>1, <2>2, AppendProperties, LenProperties DEF Types, NetTypes
  <2>4. UNCHANGED <<buf, readbuf, toServer>>
    BY <1>2 DEF BrokerPublishes
  <2>5. QED
    BY <2>2, <2>3, <2>4 DEF Around, NewPacket, Marked
<1>3. CASE LoseLink \/ PingTimerExpires \/ \E t \in Threads : TimerExpires(t)
  BY <1>3 DEF LoseLink, PingTimerExpires, TimerExpires, netVars, Around
<1>4. QED
  BY <1>1, <1>2, <1>3 DEF Environment

------------------------------------------------------------------------------
(***************************************************************************)
(* The answers.                                                            *)
(***************************************************************************)

\* What the two tasks ask for.
Requests ==
    /\ at[Connecting] # "idle" => request[Connecting].id = 0
    /\ at[Subscribing] # "idle" => request[Subscribing].topic \in Filters

\* A cycle that ended in an answer to one of them has left it in readbuf.
Held == \A t \in {Connecting, Subscribing} :
    /\ at[t] = "idle" => cycleRc[t] = "none"
    /\ cycleRc[t] \in {"CONNACK", "SUBACK"} => readbuf.type = cycleRc[t]

\* Of these types there is one identifier at a time, and the answers have the
\* codes of answers.
OneId == \A p \in Around :
    /\ p.type = "CONNACK" => p.id = 0
    /\ p.type \in {"CONNACK", "SUBACK"} => AnswerCode(p)
    /\ p.type \in {"SUBSCRIBE", "SUBACK"} =>
          /\ call[Subscribing] # "none"
          /\ at[Subscribing] # "idle" => p.id = request[Subscribing].id

\* At most one slot has a handler, and none before the answer to SUBSCRIBE.
OneHandler ==
    /\ call[Subscribing] = "none" \/ at[Subscribing] # "idle" =>
          \A i \in DOMAIN handlers : handlers[i] = NoFilter
    /\ \A i, j \in DOMAIN handlers :
          handlers[i] # NoFilter /\ handlers[j] # NoFilter => i = j

DeviceInv == /\ OwnCalls /\ InTurn /\ Requests /\ Held /\ OneId
             /\ OneHandler /\ SubscriptionIsHandled /\ ResultTypes

\* The five kinds of step.
LEMMA DeviceCases ==
    ASSUME [DeviceNext]_vars
    PROVE  \/ \E t \in Tasks : MayCall(t) /\ Begin(t)
           \/ \E t \in Tasks : Write(t) \/ Cycle(t) \/ Finish(t)
           \/ Environment \/ UNCHANGED vars
           \/ Reset
BY DEF DeviceNext

\* The environment leaves the calls, the buffers and the handlers alone.
LEMMA EnvironmentStays ==
    ASSUME Environment \/ UNCHANGED vars
    PROVE  UNCHANGED <<at, call, request, cycleRc, result, buf, readbuf,
                       handlers>>
<1>1. CASE Environment
  BY <1>1 DEF Environment, TimerExpires, PingTimerExpires, BrokerTakes,
     BrokerPublishes, LoseLink, threadVars, clientVars
<1>2. CASE UNCHANGED vars
  BY <1>2 DEF vars, threadVars, clientVars
<1>3. QED
  BY <1>1, <1>2

\* The request a call begins with.
LEMMA BeginRequests ==
    ASSUME Types, OwnCalls, NEW t \in Tasks, MayCall(t), Begin(t)
    PROVE  /\ \A u \in Tasks : u # t =>
                 /\ at'[u] = at[u] /\ call'[u] = call[u]
                 /\ request'[u] = request[u] /\ cycleRc'[u] = cycleRc[u]
           /\ cycleRc'[t] \in {"none", cycleRc[t]}
           /\ t = Connecting => at'[t] = "idle" \/ request'[t].id = 0
           /\ t = Subscribing => \/ at'[t] = "idle"
                                 \/ request'[t].topic \in Filters
<1>1. Threads = Tasks
  BY TheirCalls
<1>2. CASE NotConnected(t) \/ ConnectNetworkFails(t)
  BY <1>1, <1>2 DEF NotConnected, ConnectNetworkFails, Leaves, Types,
     ThreadTypes
<1>3. CASE MQTTConnect(t)
  BY <1>1, <1>3, TheirCalls DEF MQTTConnect, Sends, Enters, Plain, Packet,
     Types, ThreadTypes, Connecting, Subscribing
<1>4. CASE MQTTSubscribe(t)
  BY <1>1, <1>4, TheirCalls DEF MQTTSubscribe, Sends, Enters, Packet,
     Types, ThreadTypes, Connecting, Subscribing
<1>5. CASE MQTTUnsubscribe(t) \/ MQTTPublish(t) \/ MQTTDisconnect(t)
  <2>1. t \notin {Connecting, Subscribing}
    BY <1>5, TheirCalls DEF MQTTUnsubscribe, MQTTPublish, MQTTDisconnect,
       Sends, Enters
  <2>2. \E f, packet : Sends(t, f, packet)
    BY <1>5 DEF MQTTUnsubscribe, MQTTPublish, MQTTDisconnect
  <2>3. QED
    BY <1>1, <2>1, <2>2 DEF Sends, Enters, Types, ThreadTypes
<1>6. CASE MQTTYield(t)
  <2>1. t \notin {Connecting, Subscribing}
    BY <1>6, TheirCalls DEF MQTTYield, Enters
  <2>2. QED
    BY <1>1, <1>6, <2>1 DEF MQTTYield, Enters, Types, ThreadTypes
<1>7. QED
  BY <1>2, <1>3, <1>4, <1>5, <1>6 DEF Begin

\* The requests when a call begins, and when it goes on.
LEMMA RequestsStep ==
    ASSUME Types, DeviceInv, NEW t \in Tasks,
           \/ MayCall(t) /\ Begin(t)
           \/ Write(t) \/ Cycle(t) \/ Finish(t)
    PROVE  Requests'
<1>1. CASE MayCall(t) /\ Begin(t)
  BY <1>1, BeginRequests DEF DeviceInv, Requests, Tasks, Connecting,
     Subscribing
<1>2. CASE Write(t) \/ Cycle(t) \/ Finish(t)
  BY <1>2, ThreadMoves, TheirCalls
  DEF DeviceInv, Requests, Tasks, Connecting, Subscribing
<1>3. QED
  BY <1>1, <1>2

\* What a cycle leaves in readbuf stays until the task is done: it has the
\* client for itself.
LEMMA HeldStep ==
    ASSUME Types, DeviceInv, NEW t \in Tasks,
           \/ MayCall(t) /\ Begin(t)
           \/ Write(t) \/ Cycle(t) \/ Finish(t)
    PROVE  Held'
<1> Threads = Tasks
  BY TheirCalls
<1>1. CASE MayCall(t) /\ Begin(t)
  <2>1. readbuf' = readbuf /\ at[t] = "idle"
    BY <1>1, Begins
  <2>2. \A u \in Tasks : u # t => at'[u] = at[u] /\ cycleRc'[u] = cycleRc[u]
    BY <1>1, BeginRequests DEF DeviceInv
  <2>3. cycleRc'[t] \in {"none", cycleRc[t]}
    BY <1>1, BeginRequests DEF DeviceInv
  <2>4. QED
    BY <2>1, <2>2, <2>3 DEF DeviceInv, Held, Tasks
<1>2. CASE Write(t) \/ Cycle(t) \/ Finish(t)
  <2>1. /\ at[t] # "idle"
        /\ \A u \in Tasks : u # t =>
              at'[u] = at[u] /\ cycleRc'[u] = cycleRc[u]
        /\ at'[t] # "idle" \/ cycleRc'[t] = "none"
    BY <1>2, ThreadMoves
  <2>2. \A u \in {Connecting, Subscribing} :
           u # t => at[u] = "idle" /\ cycleRc[u] = "none"
    BY <2>1, Alone DEF DeviceInv, Held, Tasks
  <2>3. \/ cycleRc'[t] = "none"
        \/ cycleRc'[t] = "65535"
        \/ cycleRc'[t] = cycleRc[t] /\ readbuf' = readbuf
        \/ cycleRc'[t] = readbuf'.type
    <3>1. CASE Write(t)
      BY <1>2, <3>1 DEF Write, SendOk, SendFails, AckOk, AckFails, PingOk,
         PingFails, Writes, FailsToWrite, Puts, Goes, Leaves, CyclesAgain,
         Types, ThreadTypes
    <3>2. CASE Cycle(t)
      BY <3>2 DEF Cycle, ReadPacket, ReadNothing, ReadHangs, keepalive,
         CycleGoesOn, WaitEnds, Reads, Goes, Leaves, CyclesAgain,
         Types, ThreadTypes
    <3>3. CASE Finish(t)
      BY <3>3 DEF Finish, Connected, Subscribed, Acknowledged, Leaves,
         Types, ThreadTypes
    <3>4. QED
      BY <1>2, <3>1, <3>2, <3>3
  <2>4. QED
    BY <2>1, <2>2, <2>3 DEF DeviceInv, Held, Tasks
<1>3. QED
  BY <1>1, <1>2

\* One identifier, whoever puts a packet anywhere.
LEMMA OneIdStep ==
    ASSUME Types, DeviceInv,
           \A p \in Around' : p \in Around \/ NewPacket(p),
           \/ \E t \in Tasks : MayCall(t) /\ Begin(t)
           \/ \E t \in Tasks : Write(t) \/ Cycle(t) \/ Finish(t)
           \/ Environment \/ UNCHANGED vars
    PROVE  OneId'
<1> Threads = Tasks /\ Subscribing \in Tasks
  BY TheirCalls DEF Tasks
<1> DEFINE Subscribes(p) ==
              \E u \in Tasks : MQTTSubscribe(u) /\ p = request'[u]
<1>0. \A p \in Around' :
         \/ p \in Around
         \/ p.type \notin {"CONNACK", "SUBSCRIBE", "SUBACK"}
         \/ p.type = "CONNACK" /\ p.id = 0 /\ AnswerCode(p)
         \/ /\ p.type = "SUBACK" /\ AnswerCode(p)
            /\ \E q \in Around : q.type = "SUBSCRIBE" /\ q.id = p.id
         \/ p.type = "SUBSCRIBE" /\ Subscribes(p)
  BY DEF NewPacket, Marked
<1>1. CASE \E t \in Tasks : t # Subscribing /\ MayCall(t) /\ Begin(t)
  <2>1. PICK t \in Tasks : t # Subscribing /\ MayCall(t) /\ Begin(t)
    BY <1>1
  <2>2. /\ at'[Subscribing] = at[Subscribing]
        /\ call'[Subscribing] = call[Subscribing]
        /\ request'[Subscribing] = request[Subscribing]
    BY <2>1, BeginRequests DEF DeviceInv
  <2>3. \A u \in Tasks : ~MQTTSubscribe(u)
    <3>1. ASSUME NEW u \in Tasks, MQTTSubscribe(u) PROVE FALSE
      <4>1. /\ "subscribe" \in Calls[u] /\ at[u] = "idle"
            /\ at' = [at EXCEPT ![u] = "send"]
        BY <3>1 DEF MQTTSubscribe, Sends, Enters
      <4>2. u = Subscribing
        BY <4>1, TheirCalls DEF Tasks
      <4>3. QED
        BY <2>2, <4>1, <4>2 DEF Types, ThreadTypes
    <3>2. QED
      BY <3>1
  <2>4. QED
    BY <1>0, <2>2, <2>3 DEF DeviceInv, OneId
<1>2. CASE MayCall(Subscribing) /\ Begin(Subscribing)
  <2>1. call[Subscribing] = "none" /\ at[Subscribing] = "idle"
    BY <1>2, MayCallMeans DEF DeviceInv
  <2>2. \A p \in Around : p.type \notin {"SUBSCRIBE", "SUBACK"}
    BY <2>1 DEF DeviceInv, OneId
  <2>3. ASSUME NEW p \in Around', NEW u \in Tasks, MQTTSubscribe(u),
               p = request'[u]
        PROVE  /\ p.type = "SUBSCRIBE"
               /\ call'[Subscribing] # "none" /\ p = request'[Subscribing]
    <3>1. "subscribe" \in Calls[u] /\ call' = [call EXCEPT ![u] = "subscribe"]
      BY <2>3 DEF MQTTSubscribe, Sends, Enters
    <3>2. u = Subscribing
      BY <3>1, TheirCalls DEF Tasks
    <3>3. p.type = "SUBSCRIBE"
      BY <2>3, <3>2 DEF MQTTSubscribe, Sends, Packet, Types, ThreadTypes
    <3>4. QED
      BY <2>3, <3>1, <3>2, <3>3 DEF Types, ThreadTypes
  <2>4. QED
    BY <1>0, <2>2, <2>3 DEF DeviceInv, OneId
<1>3. CASE \/ \E t \in Tasks : Write(t) \/ Cycle(t) \/ Finish(t)
           \/ Environment \/ UNCHANGED vars
  <2>1. /\ call' = call
        /\ at'[Subscribing] # "idle" =>
              /\ at[Subscribing] # "idle"
              /\ request'[Subscribing] = request[Subscribing]
    <3>1. CASE \E t \in Tasks : Write(t) \/ Cycle(t) \/ Finish(t)
      BY <3>1, ThreadMoves
    <3>2. CASE Environment \/ UNCHANGED vars
      BY <3>2, EnvironmentStays
    <3>3. QED
      BY <1>3, <3>1, <3>2
  <2>2. \A u \in Tasks : ~MQTTSubscribe(u)
    <3>1. ASSUME NEW u \in Tasks, MQTTSubscribe(u) PROVE FALSE
      <4>1. /\ "subscribe" \in Calls[u] /\ at[u] = "idle"
            /\ at' = [at EXCEPT ![u] = "send"]
        BY <3>1 DEF MQTTSubscribe, Sends, Enters
      <4>2. u = Subscribing
        BY <4>1, TheirCalls DEF Tasks
      <4>3. QED
        BY <2>1, <4>1, <4>2 DEF Types, ThreadTypes
    <3>2. QED
      BY <3>1
  <2>3. QED
    BY <1>0, <2>1, <2>2 DEF DeviceInv, OneId
<1>4. QED
  BY <1>1, <1>2, <1>3

\* A SUBSCRIBE or its SUBACK is in a buffer or under way only after the one
\* call; so the packets around keep their one identifier.
LEMMA DeviceOneId ==
    ASSUME Types, DeviceInv, [DeviceNext]_vars
    PROVE  OneId' \/ Init'
<1> Threads = Tasks
  BY TheirCalls
<1>1. CASE \E t \in Tasks : MayCall(t) /\ Begin(t)
  BY <1>1, BeginAround, OneIdStep
<1>2. CASE \E t \in Tasks : Write(t) \/ Cycle(t) \/ Finish(t)
  BY <1>2, RunAround, OneIdStep
<1>3. CASE Environment
  BY <1>3, EnvironmentAround, OneIdStep
<1>4. CASE UNCHANGED vars
  <2>1. Around' = Around
    BY <1>4 DEF vars, netVars, Around
  <2>2. QED
    BY <1>4, <2>1, OneIdStep
<1>5. QED
  BY <1>1, <1>2, <1>3, <1>4, DeviceCases, ResetIsInit

\* When the handlers change: a connection frees every slot, and the answer to
\* SUBSCRIBE takes one.
LEMMA HandlersChange ==
    ASSUME Types, DeviceInv, NEW t \in Tasks,
           \/ MayCall(t) /\ Begin(t)
           \/ Write(t) \/ Cycle(t) \/ Finish(t)
    PROVE  \/ handlers' = handlers
           \/ /\ t = Connecting /\ call[t] = "none"
              /\ handlers' = [i \in 1 .. MAX_MESSAGE_HANDLERS |-> NoFilter]
           \/ t = Subscribing /\ at[t] # "idle" /\ Subscribed(t)
<1> Threads = Tasks
  BY TheirCalls
<1>1. CASE MayCall(t) /\ Begin(t)
  <2>1. CASE MQTTConnect(t)
    <3>1. "connect" \in Calls[t]
      BY <2>1 DEF MQTTConnect, Sends, Enters
    <3>2. t = Connecting
      BY <3>1, TheirCalls DEF Tasks
    <3>3. QED
      BY <1>1, <2>1, <3>2, MayCallMeans DEF MQTTConnect, DeviceInv
  <2>2. CASE ~MQTTConnect(t)
    BY <1>1, <2>2 DEF Begin, NotConnected, ConnectNetworkFails, MQTTSubscribe,
       MQTTUnsubscribe, MQTTPublish, MQTTDisconnect, MQTTYield, clientVars
  <2>3. QED
    BY <2>1, <2>2
<1>2. CASE Write(t)
  BY <1>2 DEF Write, SendOk, SendFails, AckOk, AckFails, PingOk, PingFails,
     Writes, FailsToWrite, Puts
<1>3. CASE Cycle(t)
  BY <1>3 DEF Cycle, ReadPacket, ReadNothing, ReadHangs, keepalive,
     CycleGoesOn, WaitEnds, clientVars
<1>4. CASE Connected(t) \/ Acknowledged(t)
  BY <1>4 DEF Connected, Acknowledged
<1>5. CASE Subscribed(t)
  <2>1. call[t] = "subscribe" /\ at[t] # "idle"
    BY <1>5 DEF Subscribed, Answered
  <2>2. t = Subscribing
    BY <2>1, TheirCalls DEF DeviceInv, OwnCalls, Tasks
  <2>3. QED
    BY <1>5, <2>1, <2>2
<1>6. QED
  BY <1>1, <1>2, <1>3, <1>4, <1>5 DEF Finish

\* A granted subscription finds every slot free, takes the first and no
\* other; a refused one takes none.
LEMMA SubscribedTakesOne ==
    ASSUME Types, DeviceInv, Subscribed(Subscribing),
           at[Subscribing] # "idle"
    PROVE  /\ DOMAIN handlers' = DOMAIN handlers
           /\ \E k \in DOMAIN handlers : \A i \in DOMAIN handlers :
                 i # k => handlers'[i] = NoFilter
           /\ readbuf.code # 128 =>
                 \E i \in DOMAIN handlers' :
                    /\ handlers'[i] = request[Subscribing].topic
                    /\ handlers'[i] \in Filters
<1> DEFINE free == {i \in DOMAIN handlers : handlers[i] = NoFilter}
<1>1. DOMAIN handlers = 1 .. MAX_MESSAGE_HANDLERS /\ MAX_MESSAGE_HANDLERS >= 1
  BY BoundAssumption DEF Types, ClientTypes
<1>2. \A i \in DOMAIN handlers : handlers[i] = NoFilter
  BY DEF DeviceInv, OneHandler
<1>3. free = 1 .. MAX_MESSAGE_HANDLERS
  BY <1>1, <1>2
<1>4. Min(free) \in free
  <2>1. 1 \in free /\ \A y \in free : 1 <= y
    BY <1>1, <1>3
  <2>2. \E x \in free : \A y \in free : x <= y
    BY <2>1
  <2>3. QED
    BY <2>2 DEF Min
<1>5. request[Subscribing].topic \in Filters
  BY DEF DeviceInv, Requests
<1>6. handlers' = IF readbuf.code # 128 /\ free # {}
                    THEN [handlers EXCEPT ![Min(free)] =
                             request[Subscribing].topic]
                    ELSE handlers
  BY DEF Subscribed
<1> HIDE DEF free
<1>7. CASE readbuf.code # 128
  <2>1. handlers' = [handlers EXCEPT ![Min(free)] =
                        request[Subscribing].topic]
    BY <1>4, <1>6, <1>7
  <2>2. QED
    BY <1>1, <1>2, <1>3, <1>4, <1>5, <2>1
<1>8. CASE readbuf.code = 128
  BY <1>1, <1>2, <1>6, <1>8
<1>9. QED
  BY <1>7, <1>8

\* The slots, step by step.
LEMMA OneHandlerStep ==
    ASSUME Types, DeviceInv, NEW t \in Tasks,
           \/ MayCall(t) /\ Begin(t)
           \/ Write(t) \/ Cycle(t) \/ Finish(t)
    PROVE  OneHandler'
<1> Threads = Tasks /\ Subscribing \in Tasks
  BY TheirCalls DEF Tasks
<1>1. call'[Subscribing] = "none" \/ at'[Subscribing] # "idle" =>
         call[Subscribing] = "none" \/ at[Subscribing] # "idle"
  <2>1. CASE t # Subscribing
    BY <2>1, BeginRequests, ThreadMoves DEF DeviceInv
  <2>2. CASE t = Subscribing /\ MayCall(t) /\ Begin(t)
    BY <2>2, MayCallMeans DEF DeviceInv
  <2>3. CASE t = Subscribing /\ (Write(t) \/ Cycle(t) \/ Finish(t))
    BY <2>3, ThreadMoves
  <2>4. QED
    BY <2>1, <2>2, <2>3
<1>2. CASE handlers' = handlers
  BY <1>1, <1>2 DEF DeviceInv, OneHandler
<1>3. CASE handlers' = [i \in 1 .. MAX_MESSAGE_HANDLERS |-> NoFilter]
  BY <1>3 DEF OneHandler
<1>4. CASE t = Subscribing /\ at[t] # "idle" /\ Subscribed(t)
  <2>1. at'[Subscribing] = "idle" /\ call'[Subscribing] # "none"
    BY <1>4 DEF Subscribed, Answered, Leaves, Types, ThreadTypes
  <2>2. QED
    BY <1>4, <2>1, SubscribedTakesOne DEF OneHandler
<1>5. QED
  BY <1>2, <1>3, <1>4, HandlersChange

\* The subscribing task returns SUCCESS from the answer only: its call waits,
\* a failed write or an expired timer is a failure.
LEMMA SubscribeSucceeds ==
    ASSUME Types, DeviceInv, at'[Subscribing] = "idle",
           result'[Subscribing] = SUCCESS, call[Subscribing] = "subscribe",
           Write(Subscribing) \/ Cycle(Subscribing) \/ Finish(Subscribing)
    PROVE  Subscribed(Subscribing) /\ readbuf.code = SUCCESS
<1> DEFINE t == Subscribing
<1> t \in Threads
  BY TheirCalls DEF Tasks
<1>1. ~Leaves(t, FAILURE)
  BY DEF Leaves, Types, ThreadTypes, SUCCESS, FAILURE
<1>2. ASSUME NEW where, where # "idle"
      PROVE  /\ ~Goes(t, where)
             /\ ~CyclesAgain(t)
             /\ \A type : ~Reads(t, where, type)
  BY <1>2 DEF Goes, CyclesAgain, Reads, Types, ThreadTypes
<1>3. call[t] \in DOMAIN WaitsFor /\ call[t] # "yield" /\ call[t] # "connect"
  BY DEF WaitsFor
<1>4. ~Write(t)
  BY <1>1, <1>2, <1>3 DEF Write, SendOk, SendFails, AckOk, AckFails, PingOk,
     PingFails
<1>5. ~Cycle(t)
  BY <1>1, <1>2, <1>3 DEF Cycle, ReadPacket, ReadNothing, ReadHangs,
     keepalive, CycleGoesOn, WaitEnds
<1>6. Subscribed(t)
  BY <1>3, <1>4, <1>5 DEF Finish, Connected, Acknowledged
<1>7. readbuf.code = SUCCESS
  BY <1>6 DEF Subscribed, Leaves, Types, ThreadTypes
<1>8. QED
  BY <1>6, <1>7

\* A subscription reported successful has its handler.
LEMMA HandledStep ==
    ASSUME Types, DeviceInv, NEW t \in Tasks,
           \/ MayCall(t) /\ Begin(t)
           \/ Write(t) \/ Cycle(t) \/ Finish(t)
    PROVE  SubscriptionIsHandled'
<1> SUFFICES ASSUME Succeeded(Subscribing, "subscribe")'
             PROVE  \E i \in DOMAIN handlers' : handlers'[i] \in Filters
  BY DEF SubscriptionIsHandled
<1> /\ Threads = Tasks /\ Connecting # Subscribing
    /\ Subscribing \in Tasks
  BY TheirCalls DEF Tasks, Connecting, Subscribing
<1>1. /\ at'[Subscribing] = "idle" /\ call'[Subscribing] = "subscribe"
      /\ result'[Subscribing] = SUCCESS
  BY DEF Succeeded
<1>2. CASE t # Subscribing
  <2>1. Succeeded(Subscribing, "subscribe")
    <3>1. /\ at'[Subscribing] = at[Subscribing]
          /\ call'[Subscribing] = call[Subscribing]
      BY <1>2, BeginRequests, ThreadMoves DEF DeviceInv
    <3>2. result'[Subscribing] = result[Subscribing]
      BY <1>2, Begins, ThreadMoves DEF Leaves, Enters, Types, ThreadTypes
    <3>3. QED
      BY <1>1, <3>1, <3>2 DEF Succeeded
  <2>2. call[Connecting] # "none"
    BY <2>1 DEF DeviceInv, InTurn, Succeeded
  <2>3. handlers' = handlers
    BY <1>2, <2>2, HandlersChange
  <2>4. QED
    BY <2>1, <2>3 DEF DeviceInv, SubscriptionIsHandled
<1>3. CASE t = Subscribing /\ MayCall(t) /\ Begin(t)
  <2>1. call[t] = "none"
    BY <1>3, MayCallMeans DEF DeviceInv
  <2>2. PICK f \in Calls[t], where \in {"send", "wait"} : Enters(t, f, where)
    BY <1>1, <1>3, <2>1, Begins DEF Leaves
  <2>3. QED
    BY <1>1, <1>3, <2>2 DEF Enters, Types, ThreadTypes
<1>4. CASE t = Subscribing /\ (Write(t) \/ Cycle(t) \/ Finish(t))
  <2>1. at[t] # "idle" /\ call[t] = "subscribe"
    BY <1>1, <1>4, ThreadMoves
  <2>2. Subscribed(t) /\ readbuf.code = SUCCESS
    BY <1>1, <1>4, <2>1, SubscribeSucceeds
  <2>3. QED
    BY <1>4, <2>1, <2>2, SubscribedTakesOne DEF SUCCESS
<1>5. QED
  BY <1>2, <1>3, <1>4

\* The results: SUCCESS, FAILURE, or the code that readbuf holds when one of
\* the two tasks has found its answer.
LEMMA ResultsStep ==
    ASSUME Types, DeviceInv, NEW t \in Tasks,
           \/ MayCall(t) /\ Begin(t)
           \/ Write(t) \/ Cycle(t) \/ Finish(t)
    PROVE  ResultTypes'
<1> Threads = Tasks
  BY TheirCalls
<1>1. ASSUME NEW rc \in {SUCCESS, FAILURE, 5, 128}, Leaves(t, rc)
      PROVE  ResultTypes'
  BY <1>1 DEF Leaves, DeviceInv, ResultTypes, SUCCESS, FAILURE
<1>2. ASSUME UNCHANGED result
      PROVE  ResultTypes'
  BY <1>2 DEF DeviceInv, ResultTypes
<1>3. CASE MayCall(t) /\ Begin(t)
  BY <1>1, <1>2, <1>3, Begins DEF Enters
<1>4. CASE Write(t)
  BY <1>1, <1>2, <1>4 DEF Write, SendOk, SendFails, AckOk, AckFails, PingOk,
     PingFails, Goes, CyclesAgain
<1>5. CASE Cycle(t)
  BY <1>1, <1>2, <1>5 DEF Cycle, ReadPacket, ReadNothing, ReadHangs,
     keepalive, CycleGoesOn, WaitEnds, Reads, Goes, CyclesAgain
<1>6. CASE Acknowledged(t)
  BY <1>1, <1>6 DEF Acknowledged
<1>7. CASE Connected(t) \/ Subscribed(t)
  <2>1. /\ call[t] \in {"connect", "subscribe"}
        /\ cycleRc[t] \in {"CONNACK", "SUBACK"}
        /\ Leaves(t, readbuf.code)
    BY <1>7 DEF Connected, Subscribed, Answered, Wanted, WaitsFor
  <2>2. t \in {Connecting, Subscribing}
    BY <2>1, TheirCalls DEF DeviceInv, OwnCalls, Tasks
  <2>3. readbuf.type \in {"CONNACK", "SUBACK"}
    BY <2>1, <2>2 DEF DeviceInv, Held
  <2>4. readbuf.code \in {0, 5, 128}
    BY <2>3 DEF DeviceInv, OneId, Around, AnswerCode
  <2>5. QED
    BY <1>1, <2>1, <2>4 DEF SUCCESS
<1>8. QED
  BY <1>3, <1>4, <1>5, <1>6, <1>7 DEF Finish

\* The invariant of the device holds in the beginning,
LEMMA InitDevice == Init => DeviceInv
<1> SUFFICES ASSUME Init PROVE DeviceInv
  OBVIOUS
<1>1. /\ Threads = Tasks
      /\ {Connecting, Subscribing, Publishing, Polling} = Tasks
  BY TheirCalls DEF Tasks
<1>2. \A t \in Tasks :
         at[t] = "idle" /\ call[t] = "none" /\ cycleRc[t] = "none"
  BY <1>1 DEF Init
<1>3. OwnCalls /\ InTurn /\ Requests /\ Held
  BY <1>1, <1>2 DEF OwnCalls, InTurn, Requests, Held
<1>4. OneId
  <2>1. Around = {NoPacket}
    BY DEF Init, Around
  <2>2. QED
    BY <2>1, ConstantsUnmarked DEF OneId, Marked
<1>5. OneHandler
  BY DEF Init, OneHandler
<1>6. SubscriptionIsHandled
  BY <1>1, <1>2 DEF SubscriptionIsHandled, Succeeded
<1>7. ResultTypes
  BY DEF Init, ResultTypes
<1>8. QED
  BY <1>3, <1>4, <1>5, <1>6, <1>7 DEF DeviceInv

\* and a step keeps it or starts everything again.
LEMMA NextDevice ==
    ASSUME Types, DeviceInv, [DeviceNext]_vars
    PROVE  DeviceInv' \/ Init'
<1>1. OneId' \/ Init'
  BY DeviceOneId
<1>2. ASSUME NEW t \in Tasks,
             \/ MayCall(t) /\ Begin(t)
             \/ Write(t) \/ Cycle(t) \/ Finish(t)
      PROVE  /\ OwnCalls' /\ InTurn' /\ Requests' /\ Held'
             /\ OneHandler' /\ SubscriptionIsHandled' /\ ResultTypes'
  <2>1. OwnCalls' /\ InTurn'
    BY <1>2, BeginTurns, ThreadTurns DEF DeviceInv
  <2>2. QED
    BY <1>2, <2>1, RequestsStep, HeldStep, OneHandlerStep, HandledStep,
       ResultsStep
<1>3. ASSUME Environment \/ UNCHANGED vars
      PROVE  /\ OwnCalls' /\ InTurn' /\ Requests' /\ Held'
             /\ OneHandler' /\ SubscriptionIsHandled' /\ ResultTypes'
  <2>1. UNCHANGED <<at, call, request, cycleRc, result, readbuf, handlers>>
    BY <1>3, EnvironmentStays
  <2>2. QED
    BY <2>1 DEF DeviceInv, OwnCalls, InTurn, Requests, Held, OneHandler,
       SubscriptionIsHandled, Succeeded, ResultTypes
<1>4. QED
  BY <1>1, <1>2, <1>3, DeviceCases, ResetIsInit DEF DeviceInv

\* What the invariant says of an answer: only the connecting and the
\* subscribing task find one, and it bears the identifier they sent.
LEMMA DeviceInvImplies ==
    ASSUME Types, DeviceInv
    PROVE  AnswerIsOwn /\ HandlersIndexedByTopic
<1>1. AnswerIsOwn
  <2> SUFFICES ASSUME NEW t \in Threads, at[t] = "cycled",
                      cycleRc[t] = Wanted(t)
               PROVE  readbuf.id = request[t].id
    BY DEF AnswerIsOwn
  <2>1. t \in Tasks /\ call[t] # "none" /\ call[t] \in {"none"} \cup Calls[t]
    BY TheirCalls DEF DeviceInv, OwnCalls
  <2>2. readbuf \in Around
    BY DEF Around
  <2>3. CASE t = Connecting
    <3>1. cycleRc[t] = "CONNACK"
      BY <2>1, <2>3, TheirCalls DEF Wanted, WaitsFor
    <3>2. readbuf.type = "CONNACK"
      BY <2>3, <3>1 DEF DeviceInv, Held
    <3>3. QED
      BY <2>2, <2>3, <3>2 DEF DeviceInv, OneId, Requests
  <2>4. CASE t = Subscribing
    <3>1. cycleRc[t] = "SUBACK"
      BY <2>1, <2>4, TheirCalls DEF Wanted, WaitsFor
    <3>2. readbuf.type = "SUBACK"
      BY <2>4, <3>1 DEF DeviceInv, Held
    <3>3. QED
      BY <2>2, <2>4, <3>2 DEF DeviceInv, OneId
  <2>5. CASE t \in {Publishing, Polling}
    <3>1. cycleRc[t] = "nothing"
      BY <2>1, <2>5, TheirCalls DEF Wanted, WaitsFor
    <3>2. QED
      BY <3>1 DEF Types, ThreadTypes, PacketTypes
  <2>6. QED
    BY <2>1, <2>3, <2>4, <2>5 DEF Tasks
<1>2. HandlersIndexedByTopic
  BY DEF DeviceInv, OneHandler, HandlersIndexedByTopic
<1>3. QED
  BY <1>1, <1>2

\* The invariant of the device, for every run of it.
LEMMA DeviceInvariant == DeviceSpec => [](Types /\ DeviceInv)
<1>1. Init => Types /\ DeviceInv
  BY InitTypes, InitDevice
<1>2. Types /\ DeviceInv /\ [DeviceNext]_vars =>
         (Types /\ DeviceInv)' \/ Init'
  <2> SUFFICES ASSUME Types, DeviceInv, [DeviceNext]_vars
               PROVE  (Types /\ DeviceInv)' \/ Init'
    OBVIOUS
  <2>1. Types' \/ Init'
    BY NextTypes, DeviceSteps, ResetIsInit
  <2>2. DeviceInv' \/ Init'
    BY NextDevice
  <2>3. QED
    BY <2>1, <2>2
<1>3. QED
  BY <1>1, <1>2, PTL DEF DeviceSpec

------------------------------------------------------------------------------
(***************************************************************************)
(* The order of the packets.                                               *)
(***************************************************************************)

\* The device gives the client its link while no task is within it.
LEMMA ConnectsAlone ==
    ASSUME DeviceInv, NEW t \in Tasks, MayCall(t), MQTTConnect(t)
    PROVE  t = Connecting /\ \A u \in Threads : at[u] = "idle"
<1>1. "connect" \in Calls[t] /\ at[t] = "idle"
  BY DEF MQTTConnect, Sends, Enters
<1>2. t = Connecting
  BY <1>1, TheirCalls DEF Tasks
<1>3. call[Connecting] = "none"
  BY <1>2, MayCallMeans DEF DeviceInv
<1>4. QED
  BY <1>1, <1>2, <1>3, TheirCalls
  DEF DeviceInv, OwnCalls, InTurn, Succeeded, Tasks

\* The invariant of the client on the order holds for the device.
LEMMA DeviceOrder == DeviceSpec => []OrderInv
<1>1. Types /\ DeviceInv /\ OrderInv /\ [DeviceNext]_vars =>
          OrderInv' \/ Init'
  <2> SUFFICES ASSUME Types, DeviceInv, OrderInv, [DeviceNext]_vars
               PROVE  OrderInv' \/ Init'
    OBVIOUS
  <2>1. ASSUME NEW t \in Tasks, MayCall(t), Begin(t)
        PROVE  OrderInv'
    BY <2>1, ConnectsAlone, BeginOrder, TheirCalls
  <2>2. ASSUME NEW t \in Tasks, Write(t) \/ Cycle(t) \/ Finish(t)
        PROVE  OrderInv'
    BY <2>2, WriteOrder, CycleOrder, FinishOrder, TheirCalls
  <2>3. QED
    BY <2>1, <2>2, EnvironmentOrder, StutterOrder, DeviceCases, ResetIsInit
<1>2. QED
  BY DeviceInvariant, InitOrder, <1>1, PTL DEF DeviceSpec

\* The device reaches the broker in order, over every reset: CONNECT first
\* and once on a link, and no request before the broker has accepted it.
THEOREM DevicePacketsInOrder == DeviceSpec => []ProtocolOrder
<1>1. Types /\ OrderInv => ProtocolOrder
  BY OrderInvImplies
<1>2. QED
  BY DeviceTypes, DeviceOrder, <1>1, PTL

------------------------------------------------------------------------------
(***************************************************************************)
(* What the broker has granted.                                            *)
(***************************************************************************)

\* What is around tells what the broker did: it sent an acceptance because it
\* accepts, and granted what the subscribing task asks for when it says so.
\* Nobody takes the subscription back, or connects a second time.
Truthful == \A p \in Around :
    /\ p.type # "UNSUBSCRIBE"
    /\ p.type \in {"CONNECT", "CONNACK"} => call[Connecting] # "none"
    /\ p.type = "CONNACK" /\ p.code = SUCCESS => session = "accepted"
    /\ at[Subscribing] # "idle" =>
          /\ p.type = "SUBSCRIBE" => p.topic = request[Subscribing].topic
          /\ p.type = "SUBACK" /\ p.code = SUCCESS =>
                request[Subscribing].topic \in subs

\* What the two tasks report the broker has granted.
Granted ==
    /\ Succeeded(Connecting, "connect") => session = "accepted"
    /\ Succeeded(Subscribing, "subscribe") =>
          \E i \in DOMAIN handlers : handlers[i] \in subs

GrantInv == Truthful /\ Granted

\* A call once made stays made; the subscribing task is in its call from its
\* beginning on, with one request.
LEMMA CallsStay ==
    ASSUME Types, DeviceInv,
           \/ \E t \in Tasks : MayCall(t) /\ Begin(t)
           \/ \E t \in Tasks : Write(t) \/ Cycle(t) \/ Finish(t)
           \/ Environment \/ UNCHANGED vars
    PROVE  /\ \A u \in Tasks : call[u] # "none" => call'[u] # "none"
           /\ call[Subscribing] # "none" /\ at'[Subscribing] # "idle" =>
                 /\ at[Subscribing] # "idle"
                 /\ request'[Subscribing] = request[Subscribing]
<1> Threads = Tasks /\ Subscribing \in Tasks
  BY TheirCalls DEF Tasks
<1>1. ASSUME NEW t \in Tasks, MayCall(t), Begin(t)
      PROVE  /\ \A u \in Tasks : call[u] # "none" => call'[u] # "none"
             /\ call[Subscribing] # "none" /\ at'[Subscribing] # "idle" =>
                   /\ at[Subscribing] # "idle"
                   /\ request'[Subscribing] = request[Subscribing]
  <2>1. \A u \in Tasks : u # t => /\ at'[u] = at[u] /\ call'[u] = call[u]
                                  /\ request'[u] = request[u]
    BY <1>1, BeginRequests DEF DeviceInv
  <2>2. t = Subscribing => call[t] = "none"
    BY <1>1, MayCallMeans DEF DeviceInv
  <2>3. call[t] # "none" => call'[t] # "none"
    <3>1. OwnCalls' /\ (at'[t] = "idle" => call'[t] = call[t])
      BY <1>1, BeginTurns, Begins
      DEF DeviceInv, Leaves, Enters, Types, ThreadTypes
    <3>2. QED
      BY <3>1 DEF OwnCalls
  <2>4. QED
    BY <2>1, <2>2, <2>3
<1>2. CASE \E t \in Tasks : Write(t) \/ Cycle(t) \/ Finish(t)
  BY <1>2, ThreadMoves
<1>3. CASE Environment \/ UNCHANGED vars
  BY <1>3, EnvironmentStays
<1>4. QED
  BY <1>1, <1>2, <1>3

\* Only the connecting task opens a session, once; the broker answers it
\* once; and a subscription it has granted stays.
LEMMA SessionStays ==
    ASSUME Types, DeviceInv, OrderInv, Truthful,
           \/ \E t \in Tasks : MayCall(t) /\ Begin(t)
           \/ \E t \in Tasks : Write(t) \/ Cycle(t) \/ Finish(t)
           \/ Environment \/ UNCHANGED vars
    PROVE  call[Connecting] # "none" =>
              /\ session = "accepted" => session' = "accepted"
              /\ subs \subseteq subs'
<1> Threads = Tasks
  BY TheirCalls
<1>1. ASSUME NEW t \in Tasks, MayCall(t), Begin(t), call[Connecting] # "none"
      PROVE  session' = session /\ subs' = subs
  <2>1. ~MQTTConnect(t)
    <3>1. SUFFICES ASSUME MQTTConnect(t) PROVE FALSE
      OBVIOUS
    <3>2. "connect" \in Calls[t]
      BY <3>1 DEF MQTTConnect, Sends, Enters
    <3>3. t = Connecting
      BY <3>2, TheirCalls DEF Tasks
    <3>4. QED
      BY <1>1, <3>3, MayCallMeans DEF DeviceInv
  <2>2. QED
    BY <1>1, <2>1 DEF Begin, NotConnected, ConnectNetworkFails,
       MQTTSubscribe, MQTTUnsubscribe, MQTTPublish, MQTTDisconnect,
       MQTTYield, netVars
<1>2. ASSUME NEW t \in Tasks, Write(t) \/ Cycle(t) \/ Finish(t)
      PROVE  session' = session /\ subs' = subs
  <2>1. CASE Write(t)
    BY <2>1 DEF Write, SendOk, SendFails, AckOk, AckFails, PingOk, PingFails,
       Writes, FailsToWrite, Puts
  <2>2. CASE Cycle(t)
    BY <2>2 DEF Cycle, ReadPacket, ReadNothing, ReadHangs, keepalive,
       CycleGoesOn, WaitEnds, netVars
  <2>3. CASE Finish(t)
    BY <2>3 DEF Finish, Connected, Subscribed, Acknowledged, Answered,
       netVars
  <2>4. QED
    BY <1>2, <2>1, <2>2, <2>3
<1>3. CASE BrokerTakes
  <2>1. Head(toServer) = toServer[1] /\ 1 \in 1 .. Len(toServer)
    BY <1>3, HeadTailProperties, EmptySeq DEF BrokerTakes, Types, NetTypes
  <2>2. Head(toServer).type # "UNSUBSCRIBE"
    BY <2>1 DEF Truthful, Around
  <2>3. Head(toServer).type = "CONNECT" => session = "none"
    BY <2>1 DEF OrderInv, ConnectIsFirst
  <2>4. QED
    BY <1>3, <2>2, <2>3 DEF BrokerTakes
<1>4. CASE Environment /\ ~BrokerTakes
  BY <1>4 DEF Environment, TimerExpires, PingTimerExpires, BrokerPublishes,
     LoseLink, netVars
<1>5. CASE UNCHANGED vars
  BY <1>5 DEF vars, netVars
<1>6. QED
  BY <1>1, <1>2, <1>3, <1>4, <1>5

\* What is around stays truthful.
LEMMA TruthfulStep ==
    ASSUME Types, DeviceInv, OrderInv, Truthful,
           \A p \in Around' : p \in Around \/ NewPacket(p),
           \/ \E t \in Tasks : MayCall(t) /\ Begin(t)
           \/ \E t \in Tasks : Write(t) \/ Cycle(t) \/ Finish(t)
           \/ Environment \/ UNCHANGED vars
    PROVE  Truthful'
<1> Threads = Tasks /\ Subscribing \in Tasks /\ Connecting \in Tasks
  BY TheirCalls DEF Tasks
<1>1. /\ call[Connecting] # "none" => call'[Connecting] # "none"
      /\ call[Subscribing] # "none" /\ at'[Subscribing] # "idle" =>
            /\ at[Subscribing] # "idle"
            /\ request'[Subscribing] = request[Subscribing]
  BY CallsStay
<1>2. call[Connecting] # "none" =>
         /\ session = "accepted" => session' = "accepted"
         /\ subs \subseteq subs'
  BY SessionStays
<1>3. call[Subscribing] # "none" => call[Connecting] # "none"
  BY DEF DeviceInv, InTurn, Succeeded
<1> DEFINE True(p) ==
      /\ p.type # "UNSUBSCRIBE"
      /\ p.type \in {"CONNECT", "CONNACK"} => call'[Connecting] # "none"
      /\ p.type = "CONNACK" /\ p.code = SUCCESS => session' = "accepted"
      /\ at'[Subscribing] # "idle" =>
            /\ p.type = "SUBSCRIBE" => p.topic = request'[Subscribing].topic
            /\ p.type = "SUBACK" /\ p.code = SUCCESS =>
                  request'[Subscribing].topic \in subs'
<1> SUFFICES ASSUME NEW p \in Around'
             PROVE  True(p)
  BY DEF Truthful
<1>4. CASE p \in Around
  <2>1. p.type \in {"SUBSCRIBE", "SUBACK"} => call[Subscribing] # "none"
    BY <1>4 DEF DeviceInv, OneId
  <2>2. QED
    BY <1>1, <1>2, <1>3, <1>4, <2>1 DEF Truthful
<1>5. CASE p.type \notin Marked
  BY <1>5 DEF Marked
<1>6. CASE NewPacket(p) /\ p.type = "CONNECT"
  <2>1. PICK t \in Tasks : MQTTConnect(t)
    BY <1>6 DEF NewPacket, Marked
  <2>2. "connect" \in Calls[t] /\ call' = [call EXCEPT ![t] = "connect"]
    BY <2>1 DEF MQTTConnect, Sends, Enters
  <2>3. t = Connecting
    BY <2>2, TheirCalls DEF Tasks
  <2>4. call'[Connecting] # "none"
    BY <2>2, <2>3 DEF Types, ThreadTypes
  <2>5. QED
    BY <1>6, <2>4
<1>7. CASE NewPacket(p) /\ p.type = "CONNACK"
  <2>1. PICK q \in Around : q.type = "CONNECT"
    BY <1>7 DEF NewPacket, Marked
  <2>2. p.code = SUCCESS => session' = "accepted"
    BY <1>7 DEF NewPacket, Marked
  <2>3. call'[Connecting] # "none"
    BY <1>1, <2>1 DEF Truthful
  <2>4. QED
    BY <1>7, <2>2, <2>3
<1>8. CASE NewPacket(p) /\ p.type = "SUBACK"
  <2>1. PICK q \in Around : /\ q.type = "SUBSCRIBE"
                            /\ p.code = SUCCESS => q.topic \in subs'
    BY <1>8 DEF NewPacket, Marked
  <2>2. call[Subscribing] # "none"
    BY <2>1 DEF DeviceInv, OneId
  <2>3. at'[Subscribing] # "idle" =>
           q.topic = request'[Subscribing].topic
    BY <1>1, <2>1, <2>2 DEF Truthful
  <2>4. QED
    BY <1>8, <2>1, <2>3
<1>9. CASE NewPacket(p) /\ p.type = "SUBSCRIBE"
  <2>1. PICK t \in Tasks : MQTTSubscribe(t) /\ p = request'[t]
    BY <1>9 DEF NewPacket, Marked
  <2>2. "subscribe" \in Calls[t]
    BY <2>1 DEF MQTTSubscribe, Sends, Enters
  <2>3. t = Subscribing
    BY <2>2, TheirCalls DEF Tasks
  <2>4. QED
    BY <1>9, <2>1, <2>3
<1>10. ~(NewPacket(p) /\ p.type = "UNSUBSCRIBE")
  <2>1. SUFFICES ASSUME NewPacket(p), p.type = "UNSUBSCRIBE" PROVE FALSE
    OBVIOUS
  <2>2. PICK t \in Tasks : MQTTUnsubscribe(t)
    BY <2>1 DEF NewPacket, Marked
  <2>3. "unsubscribe" \in Calls[t]
    BY <2>2 DEF MQTTUnsubscribe, Sends, Enters
  <2>4. QED
    BY <2>3, TheirCalls DEF Tasks
<1>11. QED
  BY <1>4, <1>5, <1>6, <1>7, <1>8, <1>9, <1>10 DEF Marked

\* The connecting task returns SUCCESS from the answer only.
LEMMA ConnectSucceeds ==
    ASSUME Types, DeviceInv, at'[Connecting] = "idle",
           result'[Connecting] = SUCCESS, call[Connecting] = "connect",
           Write(Connecting) \/ Cycle(Connecting) \/ Finish(Connecting)
    PROVE  Connected(Connecting) /\ readbuf.code = SUCCESS
<1> DEFINE t == Connecting
<1> t \in Threads
  BY TheirCalls DEF Tasks
<1>1. ~Leaves(t, FAILURE)
  BY DEF Leaves, Types, ThreadTypes, SUCCESS, FAILURE
<1>2. ASSUME NEW where, where # "idle"
      PROVE  /\ ~Goes(t, where)
             /\ ~CyclesAgain(t)
             /\ \A type : ~Reads(t, where, type)
  BY <1>2 DEF Goes, CyclesAgain, Reads, Types, ThreadTypes
<1>3. call[t] \in DOMAIN WaitsFor /\ call[t] = "connect"
  BY DEF WaitsFor
<1>4. ~Write(t)
  BY <1>1, <1>2, <1>3 DEF Write, SendOk, SendFails, AckOk, AckFails, PingOk,
     PingFails
<1>5. ~Cycle(t)
  BY <1>1, <1>2, <1>3 DEF Cycle, ReadPacket, ReadNothing, ReadHangs,
     keepalive, CycleGoesOn, WaitEnds
<1>6. Connected(t)
  BY <1>3, <1>4, <1>5 DEF Finish, Subscribed, Acknowledged
<1>7. readbuf.code = SUCCESS
  BY <1>6 DEF Connected, Leaves, Types, ThreadTypes
<1>8. QED
  BY <1>6, <1>7

\* A task that reported success did so before the step, unless the step is
\* the one in which it finds its answer.
LEMMA SuccessStays ==
    ASSUME Types, DeviceInv, NEW u \in {Connecting, Subscribing}, NEW f,
           Succeeded(u, f)', f \in Operations,
           \/ \E t \in Tasks : MayCall(t) /\ Begin(t)
           \/ \E t \in Tasks : Write(t) \/ Cycle(t) \/ Finish(t)
           \/ Environment \/ UNCHANGED vars
    PROVE  \/ Succeeded(u, f)
           \/ call[u] = f /\ (Write(u) \/ Cycle(u) \/ Finish(u))
<1> Threads = Tasks /\ u \in Tasks /\ f # "none"
  BY TheirCalls DEF Tasks, Operations
<1>1. at'[u] = "idle" /\ call'[u] = f /\ result'[u] = SUCCESS
  BY DEF Succeeded
<1>2. ASSUME NEW t \in Tasks, MayCall(t), Begin(t)
      PROVE  Succeeded(u, f)
  <2>1. CASE t # u
    <3>1. at'[u] = at[u] /\ call'[u] = call[u]
      BY <1>2, <2>1, BeginRequests DEF DeviceInv
    <3>2. result'[u] = result[u]
      BY <1>2, <2>1, Begins DEF Leaves, Enters, Types, ThreadTypes
    <3>3. QED
      BY <1>1, <3>1, <3>2 DEF Succeeded
  <2>2. CASE t = u
    <3>1. call[t] = "none"
      BY <1>2, <2>2, MayCallMeans DEF DeviceInv
    <3>2. PICK g \in Calls[t], where \in {"send", "wait"} :
             Enters(t, g, where)
      BY <1>1, <1>2, <2>2, <3>1, Begins DEF Leaves
    <3>3. QED
      BY <1>1, <2>2, <3>2 DEF Enters, Types, ThreadTypes
  <2>3. QED
    BY <2>1, <2>2
<1>3. ASSUME NEW t \in Tasks, Write(t) \/ Cycle(t) \/ Finish(t)
      PROVE  \/ Succeeded(u, f)
             \/ call[u] = f /\ t = u
  BY <1>1, <1>3, ThreadMoves DEF Succeeded
<1>4. CASE Environment \/ UNCHANGED vars
  BY <1>1, <1>4, EnvironmentStays DEF Succeeded
<1>5. QED
  BY <1>2, <1>3, <1>4

\* What is reported stays granted, and is granted when it is reported.
LEMMA GrantedStep ==
    ASSUME Types, DeviceInv, OrderInv, GrantInv,
           \/ \E t \in Tasks : MayCall(t) /\ Begin(t)
           \/ \E t \in Tasks : Write(t) \/ Cycle(t) \/ Finish(t)
           \/ Environment \/ UNCHANGED vars
    PROVE  Granted'
<1> Threads = Tasks /\ Subscribing \in Tasks /\ Connecting \in Tasks
  BY TheirCalls DEF Tasks
<1>1. call[Connecting] # "none" =>
         /\ session = "accepted" => session' = "accepted"
         /\ subs \subseteq subs'
  BY SessionStays DEF GrantInv
<1>2. call[Subscribing] # "none" => call[Connecting] # "none"
  BY DEF DeviceInv, InTurn, Succeeded
<1>3. readbuf \in Around
  BY DEF Around
<1>4. ASSUME Succeeded(Connecting, "connect")'
      PROVE  session' = "accepted"
  <2>1. CASE Succeeded(Connecting, "connect")
    BY <1>1, <2>1 DEF GrantInv, Granted, Succeeded
  <2>2. CASE ~Succeeded(Connecting, "connect")
    <3>1. /\ call[Connecting] = "connect"
          /\ Write(Connecting) \/ Cycle(Connecting) \/ Finish(Connecting)
      BY <1>4, <2>2, SuccessStays DEF Operations
    <3>2. Connected(Connecting) /\ readbuf.code = SUCCESS
      BY <1>4, <3>1, ConnectSucceeds DEF Succeeded
    <3>3. readbuf.type = "CONNACK"
      BY <3>1, <3>2
      DEF Connected, Answered, Wanted, WaitsFor, DeviceInv, Held
    <3>4. session = "accepted"
      BY <1>3, <3>2, <3>3 DEF GrantInv, Truthful
    <3>5. QED
      BY <1>1, <3>1, <3>4
  <2>3. QED
    BY <2>1, <2>2
<1>5. ASSUME Succeeded(Subscribing, "subscribe")'
      PROVE  \E i \in DOMAIN handlers' : handlers'[i] \in subs'
  <2>1. CASE Succeeded(Subscribing, "subscribe")
    <3>1. /\ at[Subscribing] = "idle" /\ call[Subscribing] # "none"
          /\ call[Connecting] # "none"
      BY <1>2, <2>1 DEF Succeeded
    <3>2. handlers' = handlers
      BY <3>1, HandlersChange, EnvironmentStays DEF Succeeded
    <3>3. QED
      BY <1>1, <2>1, <3>1, <3>2 DEF GrantInv, Granted
  <2>2. CASE ~Succeeded(Subscribing, "subscribe")
    <3>1. /\ call[Subscribing] = "subscribe"
          /\ Write(Subscribing) \/ Cycle(Subscribing) \/ Finish(Subscribing)
      BY <1>5, <2>2, SuccessStays DEF Operations
    <3>2. Subscribed(Subscribing) /\ readbuf.code = SUCCESS
      BY <1>5, <3>1, SubscribeSucceeds DEF Succeeded
    <3>3. readbuf.type = "SUBACK" /\ at[Subscribing] # "idle"
      BY <3>1, <3>2
      DEF Subscribed, Answered, Wanted, WaitsFor, DeviceInv, Held
    <3>4. request[Subscribing].topic \in subs
      BY <1>3, <3>2, <3>3 DEF GrantInv, Truthful
    <3>5. PICK i \in DOMAIN handlers' :
             handlers'[i] = request[Subscribing].topic
      BY <3>2, <3>3, SubscribedTakesOne DEF SUCCESS
    <3>6. QED
      BY <1>1, <1>2, <3>1, <3>4, <3>5
  <2>3. QED
    BY <2>1, <2>2
<1>6. QED
  BY <1>4, <1>5 DEF Granted

\* The grants, for every run of the device.
LEMMA GrantInvariant == DeviceSpec => [](Types /\ DeviceInv /\ GrantInv)
<1>1. Init => GrantInv
  <2> SUFFICES ASSUME Init PROVE GrantInv
    OBVIOUS
  <2>1. Threads = Tasks /\ Subscribing \in Tasks /\ Connecting \in Tasks
    BY TheirCalls DEF Tasks
  <2>2. \A t \in Tasks : at[t] = "idle" /\ call[t] = "none"
    BY <2>1 DEF Init
  <2>3. Around = {NoPacket}
    BY DEF Init, Around
  <2>4. Truthful
    BY <2>1, <2>2, <2>3, ConstantsUnmarked DEF Truthful, Marked
  <2>5. Granted
    BY <2>1, <2>2 DEF Granted, Succeeded
  <2>6. QED
    BY <2>4, <2>5 DEF GrantInv
<1>2. Types /\ DeviceInv /\ OrderInv /\ GrantInv /\ [DeviceNext]_vars =>
         GrantInv' \/ Init'
  <2> SUFFICES ASSUME Types, DeviceInv, OrderInv, GrantInv, [DeviceNext]_vars
               PROVE  GrantInv' \/ Init'
    OBVIOUS
  <2>1. CASE Reset
    BY <2>1, ResetIsInit
  <2>2. CASE ~Reset
    <3>1. \/ \E t \in Tasks : MayCall(t) /\ Begin(t)
          \/ \E t \in Tasks : Write(t) \/ Cycle(t) \/ Finish(t)
          \/ Environment \/ UNCHANGED vars
      BY <2>2, DeviceCases
    <3>2. \A p \in Around' : p \in Around \/ NewPacket(p)
      <4>1. Threads = Tasks
        BY TheirCalls
      <4>2. CASE UNCHANGED vars
        BY <4>2 DEF vars, netVars, Around
      <4>3. QED
        BY <3>1, <4>1, <4>2, BeginAround, RunAround, EnvironmentAround
    <3>3. Truthful'
      BY <3>1, <3>2, TruthfulStep DEF GrantInv
    <3>4. Granted'
      BY <3>1, GrantedStep
    <3>5. QED
      BY <3>3, <3>4 DEF GrantInv
  <2>3. QED
    BY <2>1, <2>2
<1>3. QED
  BY <1>1, <1>2, InitOrder, InitDevice, DeviceOrder, DeviceInvariant, PTL
  DEF DeviceSpec

\* Everything stays in its type on the device, where several tasks use the
\* client: a call returns FAILURE, what SUCCESS stands for, or the code of a
\* refusal, and never what another task has read.
THEOREM DeviceTypeCorrect == DeviceSpec => []TypeOK
<1>1. Types /\ DeviceInv => TypeOK
  BY DEF Types, ThreadTypes, ClientTypes, NetTypes, DeviceInv, ResultTypes,
     TypeOK
<1>2. QED
  BY <1>1, DeviceInvariant, PTL

\* No caller of waitfor compares identifiers, and the device is right all the
\* same: what it takes for the answer to CONNECT or SUBSCRIBE answers its own.
THEOREM AnswersAreOwn == DeviceSpec => []AnswerIsOwn
BY DeviceInvariant, DeviceInvImplies, PTL

\* A subscription reported successful has a slot of messageHandlers, however
\* few there are.
THEOREM SubscriptionsAreHandled == DeviceSpec => []SubscriptionIsHandled
<1>1. DeviceInv => SubscriptionIsHandled
  BY DEF DeviceInv
<1>2. QED
  BY <1>1, DeviceInvariant, PTL

\* No two slots have the same topic: no command is handled twice.
THEOREM HandlersAreIndexed == DeviceSpec => []HandlersIndexedByTopic
BY DeviceInvariant, DeviceInvImplies, PTL

\* The device publishes and polls over a session that the broker has accepted
\* and for a subscription that it has granted, whatever the broker refused
\* before: a positive code is never taken for success.
THEOREM ServesOnlyWhatWasGranted == DeviceSpec => []ServesWhatWasGranted
<1>1. DeviceInv /\ GrantInv => ServesWhatWasGranted
  BY DEF DeviceInv, InTurn, GrantInv, Granted, Succeeded,
     ServesWhatWasGranted
<1>2. QED
  BY <1>1, GrantInvariant, PTL

------------------------------------------------------------------------------
(***************************************************************************)
(* Nothing is sent before the broker has answered CONNECT.                 *)
(***************************************************************************)

\* Before that only the connecting task is within the client, to send CONNECT
\* or to wait, and the keepalive timer has not expired.
Quiet == session = "none" =>
    /\ \A t \in Tasks : at[t] # "idle" =>
          /\ t = Connecting /\ ~pingDue
          /\ at[t] \notin {"ack", "ping"}
          /\ at[t] = "send" => request[t].type = "CONNECT"
    /\ \A i \in 1 .. Len(toServer) :
          toServer[i] = GARBLED \/ toServer[i].type = "CONNECT"

\* Quiet when a call begins: the others wait for the connecting task.
LEMMA BeginQuiet ==
    ASSUME Types, DeviceInv, Granted, Quiet,
           NEW t \in Tasks, MayCall(t), Begin(t)
    PROVE  Quiet'
<1> Threads = Tasks
  BY TheirCalls
<1>1. CASE MQTTConnect(t)
  <2>1. t = Connecting /\ \A u \in Tasks : at[u] = "idle"
    BY <1>1, ConnectsAlone
  <2>2. /\ \A u \in Tasks : u # t => at'[u] = "idle"
        /\ at'[t] = "send" /\ request'[t].type = "CONNECT"
        /\ toServer' = <<>> /\ ~pingDue'
    BY <1>1, <2>1 DEF MQTTConnect, Sends, Enters, Plain, Packet, Types,
       ThreadTypes
  <2>3. QED
    BY <2>1, <2>2 DEF Quiet
<1>2. CASE t = Connecting /\ ~MQTTConnect(t)
  <2>1. Calls[t] = {"connect"}
    BY <1>2, TheirCalls
  <2>2. NotConnected(t) \/ ConnectNetworkFails(t)
    BY <1>2, <2>1 DEF Begin, MQTTSubscribe, MQTTUnsubscribe, MQTTPublish,
       MQTTDisconnect, MQTTYield, Sends, Enters
  <2>3. /\ Leaves(t, FAILURE) /\ UNCHANGED <<pingDue, session>>
        /\ toServer' = toServer \/ toServer' = <<>>
    BY <2>2 DEF NotConnected, ConnectNetworkFails, clientVars, netVars
  <2>4. \A u \in Tasks : at'[u] # "idle" =>
           at'[u] = at[u] /\ request'[u] = request[u]
    BY <2>3 DEF Leaves, Types, ThreadTypes
  <2>5. QED
    BY <2>3, <2>4 DEF Quiet
<1>3. CASE t # Connecting
  <2>1. Succeeded(Connecting, "connect")
    <3>1. t = Subscribing \/ Succeeded(Subscribing, "subscribe")
      BY <1>3, MayCallMeans DEF DeviceInv, Tasks
    <3>2. QED
      BY <3>1, MayCallMeans DEF DeviceInv, InTurn, Succeeded
  <2>2. session = "accepted"
    BY <2>1 DEF Granted
  <2>3. ~MQTTConnect(t)
    BY <1>3, ConnectsAlone
  <2>4. session' = session
    BY <2>3 DEF Begin, NotConnected, ConnectNetworkFails, MQTTSubscribe,
       MQTTUnsubscribe, MQTTPublish, MQTTDisconnect, MQTTYield, netVars
  <2>5. QED
    BY <2>2, <2>4 DEF Quiet
<1>4. QED
  BY <1>1, <1>2, <1>3

\* Quiet when a thread writes: it is CONNECT that is written.
LEMMA WriteQuiet ==
    ASSUME Types, Quiet, NEW t \in Tasks, Write(t)
    PROVE  Quiet'
<1> Threads = Tasks
  BY TheirCalls
<1>1. PICK packets \in Written(t) : Puts(packets)
  BY EveryWrite
  DEF Write, SendOk, SendFails, AckOk, AckFails, PingOk, PingFails
<1>2. session' = session
  BY <1>1 DEF Puts
<1> SUFFICES ASSUME session = "none" PROVE Quiet'
  BY <1>2 DEF Quiet
<1>3. at[t] \in {"send", "ack", "ping"}
  BY DEF Write, SendOk, SendFails, AckOk, AckFails, PingOk, PingFails
<1>4. t = Connecting /\ at[t] = "send" /\ request[t].type = "CONNECT"
      /\ ~pingDue /\ \A u \in Tasks : u # t => at[u] = "idle"
  BY <1>3 DEF Quiet
<1>5. SendOk(t) \/ SendFails(t)
  BY <1>4 DEF Write, AckOk, AckFails, PingOk, PingFails
<1>6. /\ at'[t] \in {"idle", "wait"} /\ ~pingDue'
      /\ \A u \in Tasks : u # t => at'[u] = "idle"
  BY <1>4, <1>5 DEF SendOk, SendFails, Writes, FailsToWrite, Goes, Leaves,
     Types, ThreadTypes
<1>7. Meant(t) = request[t]
  BY <1>4 DEF Meant
<1>8. /\ Len(toServer) \in Nat /\ Len(toServer') \in Nat
      /\ \A i \in 1 .. Len(toServer') :
            \/ i \in 1 .. Len(toServer) /\ toServer'[i] = toServer[i]
            \/ toServer'[i] = GARBLED
            \/ toServer'[i].type = "CONNECT"
  BY <1>1, <1>4, <1>7, QueueAfterWrite, LenProperties DEF Types, NetTypes
<1>9. QED
  BY <1>4, <1>6, <1>8 DEF Quiet

\* Quiet when a cycle goes on or a call ends: there is nothing to read, and
\* no ping is due.
LEMMA RunQuiet ==
    ASSUME Types, OrderInv, Quiet, NEW t \in Tasks, Cycle(t) \/ Finish(t)
    PROVE  Quiet'
<1> Threads = Tasks
  BY TheirCalls
<1>1. CASE ReadPacket(t)
  <2>1. session # "none" /\ session' = session
    BY <1>1 DEF ReadPacket, OrderInv, Unanswered
  <2>2. QED
    BY <2>1 DEF Quiet
<1>2. CASE Finish(t) \/ ReadNothing(t) \/ ReadHangs(t) \/ CycleGoesOn(t)
           \/ WaitEnds(t)
  <2>1. /\ UNCHANGED <<pingDue, session, toServer>> /\ at[t] # "idle"
        /\ at'[t] \notin {"send", "ack", "ping"}
        /\ \A u \in Tasks : u # t =>
              at'[u] = at[u] /\ request'[u] = request[u]
    BY <1>2 DEF Finish, Connected, Subscribed, Acknowledged, Answered,
       ReadNothing, ReadHangs, CycleGoesOn, WaitEnds, Reads, CyclesAgain,
       Leaves, clientVars, netVars, Types, ThreadTypes
  <2>2. QED
    BY <2>1 DEF Quiet
<1>3. CASE keepalive(t)
  <2>1. /\ UNCHANGED <<request, pingDue, session, toServer>>
        /\ at[t] # "idle"
        /\ pingDue \/ at' = [at EXCEPT ![t] = "cycled"]
    BY <1>3 DEF keepalive, Goes, clientVars, netVars
  <2>2. \/ session # "none"
        \/ at'[t] = "cycled" /\ \A u \in Tasks : u # t => at'[u] = at[u]
    BY <2>1 DEF Quiet, Types, ThreadTypes
  <2>3. QED
    BY <2>1, <2>2 DEF Quiet
<1>4. QED
  BY <1>1, <1>2, <1>3 DEF Cycle

\* Quiet in the steps around the client: the timer of a CONNECT runs on while
\* nothing of an answer has come.
LEMMA EnvironmentQuiet ==
    ASSUME Types, DeviceInv, OrderInv, Quiet, Environment \/ UNCHANGED vars
    PROVE  Quiet'
<1> Threads = Tasks
  BY TheirCalls
<1>1. UNCHANGED <<at, request>>
  BY EnvironmentStays
<1>2. CASE PingTimerExpires
  <2>1. UNCHANGED <<session, toServer>>
    BY <1>2 DEF PingTimerExpires, netVars
  <2>2. session = "none" => \A t \in Tasks : at[t] = "idle"
    <3>1. SUFFICES ASSUME session = "none", NEW t \in Tasks, at[t] # "idle"
                   PROVE  FALSE
      OBVIOUS
    <3>2. t = Connecting
      BY <3>1 DEF Quiet
    <3>3. call[t] = "connect"
      BY <3>1, <3>2, TheirCalls DEF DeviceInv, OwnCalls
    <3>4. cycleRc[t] = "CONNACK"
      BY <1>2, <3>1, <3>3 DEF PingTimerExpires
    <3>5. QED
      BY <3>1, <3>4 DEF OrderInv, Unanswered
  <2>3. QED
    BY <1>1, <2>1, <2>2 DEF Quiet
<1>3. CASE BrokerTakes
  <2>1. session' # "none"
    BY <1>3 DEF BrokerTakes
  <2>2. QED
    BY <2>1 DEF Quiet
<1>4. CASE UNCHANGED <<pingDue, session, toServer>> \/ LoseLink
  <2>1. /\ UNCHANGED <<pingDue, session>>
        /\ toServer' = toServer \/ toServer' = <<>>
    BY <1>4 DEF LoseLink, clientVars
  <2>2. QED
    BY <1>1, <2>1 DEF Quiet
<1>5. QED
  BY <1>2, <1>3, <1>4 DEF Environment, TimerExpires, BrokerPublishes, vars,
     clientVars, netVars

\* Behind its CONNECT the device sends nothing before the broker's answer, not
\* even a ping, over any number of resets.
THEOREM NothingGoesBeforeAnswer == DeviceSpec => []NothingBeforeAnswer
<1>1. Init => Quiet
  BY TheirCalls DEF Init, Quiet
<1>2. Types /\ DeviceInv /\ OrderInv /\ GrantInv /\ Quiet
          /\ [DeviceNext]_vars => Quiet' \/ Init'
  BY BeginQuiet, WriteQuiet, RunQuiet, EnvironmentQuiet, DeviceCases,
     ResetIsInit DEF GrantInv
<1>3. Types /\ Quiet => NothingBeforeAnswer
  <2> SUFFICES ASSUME Types, Quiet, session = "none", NEW i \in Legible
               PROVE  toServer[i].type = "CONNECT"
    BY DEF NothingBeforeAnswer
  <2>1. i \in 1 .. Len(toServer) /\ toServer[i] # GARBLED
    BY LenProperties DEF Legible, Types, NetTypes
  <2>2. QED
    BY <2>1 DEF Quiet
<1>4. QED
  BY <1>1, <1>2, <1>3, GrantInvariant, DeviceOrder, PTL DEF DeviceSpec
==============================================================================
