------------------------------ MODULE ClientUse ------------------------------
(***************************************************************************)
(* The discipline of those who share the one MQTT client object, which has *)
(* no lock.  One user opens the connection, then one subscribes, and only  *)
(* after both succeeded others publish and poll, each one call at a time.  *)
(* A user whose call failed, or who is done, makes no other until the chip *)
(* starts again.                                                           *)
(***************************************************************************)
VARIABLE calls   \* of each user: "idle", "in" a call, "ok" or "gone"

Users == {"connecting", "subscribing", "publishing", "polling"}

Init == calls = [u \in Users |-> "idle"]

\* May user u begin a call?
Allowed(u) ==
    /\ calls[u] = "idle"
    /\ u = "subscribing" => calls["connecting"] = "ok"
    /\ u \in {"publishing", "polling"} => calls["subscribing"] = "ok"

Steps(u, from, to) ==
    /\ calls[u] = from
    /\ calls' = [calls EXCEPT ![u] = to]

Begin(u) == Allowed(u) /\ Steps(u, "idle", "in")

\* A command is made once; the two others come back for more.
End(u) == Steps(u, "in", IF u \in {"connecting", "subscribing"}
                           THEN "ok" ELSE "idle")

\* A failed call, a stop flag, or the end of its work removes the user.
Leave(u) == calls[u] # "gone" /\ Steps(u, calls[u], "gone")

Restart == calls' = [u \in Users |-> "idle"]

Next == (\E u \in Users : Begin(u) \/ End(u) \/ Leave(u)) \/ Restart

Spec == Init /\ [][Next]_calls
==============================================================================
