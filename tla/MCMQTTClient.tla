---------------------------- MODULE MCMQTTClient ----------------------------
(***************************************************************************)
(* MQTTClient for TLC: one thread that makes the calls of the client one   *)
(* at a time, as the comment on waitfor requires.  One instance publishes, *)
(* the other subscribes and unsubscribes.                                  *)
(***************************************************************************)
EXTENDS MQTTClient

MCThreads == {"main"}
MCPublishing == [t \in MCThreads |->
    {"connect", "publish0", "publish1", "publish2", "yield", "disconnect"}]
MCCommands == [t \in MCThreads |->
    {"connect", "subscribe", "unsubscribe", "yield"}]
MCFilters == {"cmd"}
==============================================================================
