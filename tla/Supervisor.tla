----------------------------- MODULE Supervisor -----------------------------
(***************************************************************************)
(* What the task level promises to the outside.  The device is starting,   *)
(* serving (it publishes) or halted.  It serves only after a start, it may *)
(* halt at any time, and a halted device does nothing until it is reset;   *)
(* the reset always comes.                                                 *)
(***************************************************************************)
VARIABLE phase

Init == phase = "starting"

Serve == phase = "starting" /\ phase' = "serving"

Halt == phase \in {"starting", "serving"} /\ phase' = "halted"

Reset == phase \in {"serving", "halted"} /\ phase' = "starting"

Next == Serve \/ Halt \/ Reset

Safety == Init /\ [][Next]_phase

Spec == Safety /\ WF_phase(phase = "halted" /\ Reset)
==============================================================================
