--------------------------- MODULE MCDeviceClient ---------------------------
(***************************************************************************)
(* DeviceClient for TLC: the four tasks, the one filter the device         *)
(* subscribes to, and messages of QoS 0 as it is subscribed at QoS 0.      *)
(***************************************************************************)
EXTENDS DeviceClient

MCCalls == [t \in Tasks |->
              CASE t = Connecting  -> {"connect"}
                [] t = Subscribing -> {"subscribe"}
                [] t = Publishing  -> {"publish0"}
                [] t = Polling     -> {"yield"}]
MCFilters == {"cmd"}
==============================================================================
