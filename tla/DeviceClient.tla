---------------------------- MODULE DeviceClient ----------------------------
(***************************************************************************)
(* The MQTT client as the firmware uses it: src/src/mqtt.c and the tasks   *)
(* of src/src/tasks.c that call it.  The connecting and the subscribing    *)
(* task make one call each, one after the other; only then Tick publishes  *)
(* and MqttYield polls, at the same time.  A task whose call failed is     *)
(* gone (Restart deletes its caller); the watchdog brings everything back. *)
(***************************************************************************)
EXTENDS MQTTClient

Connecting  == "MqttConnectionTask"
Subscribing == "MqttSubscriptionTask"
Publishing  == "Tick"
Polling     == "MqttYield"
Tasks       == {Connecting, Subscribing, Publishing, Polling}

ASSUME TasksAssumption ==
    /\ Threads = Tasks
    /\ Calls = [t \in Tasks |->
                  CASE t = Connecting  -> {"connect"}
                    [] t = Subscribing -> {"subscribe"}
                    [] t = Publishing  -> {"publish0"}
                    [] t = Polling     -> {"yield"}]

\* The task t has made the call f and it returned SUCCESS.
Succeeded(t, f) == at[t] = "idle" /\ call[t] = f /\ result[t] = SUCCESS

Fresh(t) == call[t] = "none" /\ result[t] = SUCCESS

\* A mutant: the subscribing task tries again, as its message says.
MayCall_Retries(t) ==
    CASE t = Connecting  -> Fresh(t)
      [] t = Subscribing -> /\ Succeeded(Connecting, "connect")
                            /\ ~Succeeded(t, "subscribe")
      [] t = Publishing  -> /\ Succeeded(Subscribing, "subscribe")
                            /\ result[t] = SUCCESS
      [] t = Polling     -> Succeeded(Subscribing, "subscribe")

\* How far each user is, in the words of ClientUse: a task lives to its own
\* failure; the poller ignores what MQTTYield returns.
UserOf == [connecting |-> Connecting, subscribing |-> Subscribing,
           publishing |-> Publishing, polling |-> Polling]

\* A mutant: a code is taken for a failure only when it is negative.
Stage_Negative(u) ==
    LET t == UserOf[u]
    IN  IF at[t] # "idle" THEN "in"
        ELSE IF u = "polling" THEN "idle"
        ELSE IF result[t] < 0 THEN "gone"
        ELSE IF call[t] = "none" \/ u = "publishing" THEN "idle"
        ELSE "ok"

Stage(u) ==
    LET t == UserOf[u]
    IN  IF at[t] # "idle" THEN "in"
        ELSE IF u = "polling" THEN "idle"
        ELSE IF result[t] # SUCCESS THEN "gone"
        ELSE IF call[t] = "none" \/ u = "publishing" THEN "idle"
        ELSE "ok"
Use == INSTANCE ClientUse WITH calls <- [u \in DOMAIN UserOf |-> Stage(u)]

\* A mutant: the poller begins when the connecting task is done, whatever its
\* call returned.
MayCall_PollsEarly(t) ==
    IF t = Polling
      THEN call[Connecting] = "connect" /\ at[Connecting] = "idle"
      ELSE \E u \in DOMAIN UserOf : t = UserOf[u] /\ Use!Allowed(u)

\* A task may call when ClientUse allows it, which Tasks implements.  It may
\* also make no more calls: the stop flags of Tasks take effect at a time
\* that nothing here depends on.
MayCall(t) == \E u \in DOMAIN UserOf : t = UserOf[u] /\ Use!Allowed(u)

\* The chip starts again with all its variables, on a new link.
Reset ==
    /\ at' = [t \in Threads |-> "idle"]
    /\ call' = [t \in Threads |-> "none"]
    /\ request' = [t \in Threads |-> NoPacket]
    /\ cycleRc' = [t \in Threads |-> "none"]
    /\ expired' = [t \in Threads |-> FALSE]
    /\ result' = [t \in Threads |-> SUCCESS]
    /\ buf' = NoPacket /\ readbuf' = NoPacket
    /\ isconnected' = FALSE
    /\ next_packetid' = 0
    /\ ping_outstanding' = FALSE /\ pingDue' = FALSE
    /\ handlers' = [i \in 1 .. MAX_MESSAGE_HANDLERS |-> NoFilter]
    /\ link' = "none"
    /\ toServer' = <<>> /\ toClient' = <<>>
    /\ session' = "none" /\ subs' = {}

DeviceNext ==
    \/ \E t \in Tasks : MayCall(t) /\ Begin(t)
    \/ \E t \in Tasks : Write(t) \/ Cycle(t) \/ Finish(t)
    \/ Environment
    \/ Reset

DeviceSpec == Init /\ [][DeviceNext]_vars

\* A subscription that was reported successful has its handler: a granted
\* filter without one would have every command dropped in silence.
SubscriptionIsHandled ==
    Succeeded(Subscribing, "subscribe") =>
        \E i \in DOMAIN handlers : handlers[i] \in Filters

\* Behind its CONNECT the device sends nothing before the broker has answered
\* it, not even the ping that a client which polls after a failed CONNECT may
\* send (MQTTClient.c:202): nobody polls before the connection has succeeded.
NothingBeforeAnswer ==
    \A i \in Legible : toServer[i].type # "CONNECT" => session # "none"

\* Publisher and poller run only over a session the broker has accepted, and
\* with a subscription that it has granted and that has its handler: its
\* refusals come back as positive codes, which are no SUCCESS all the same.
ServesWhatWasGranted ==
    \A t \in {Publishing, Polling} : call[t] # "none" =>
        /\ session = "accepted"
        /\ \E i \in DOMAIN handlers : handlers[i] \in subs
==============================================================================
