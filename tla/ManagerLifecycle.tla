-------------------------- MODULE ManagerLifecycle --------------------------
(***************************************************************************)
(* What init() and network_monitor_disable() promise the application about *)
(* the network manager: it is started only when none is there, it powers   *)
(* the modem and the GPS port (the radio) as it likes while it runs, a     *)
(* stop request is never taken back, and the manager is gone only after    *)
(* it has switched the radio off.                                          *)
(***************************************************************************)
VARIABLES
  phase,   \* "idle", "running" or "stopping"
  radio    \* the modem is powered or the GPS port is open

vars == <<phase, radio>>

Init == phase = "idle" /\ radio = FALSE

Start == phase = "idle" /\ phase' = "running" /\ UNCHANGED radio

\* Also while a stop is pending: the manager looks at the request only at the
\* top of its loop.
Use == phase # "idle" /\ radio' \in BOOLEAN /\ UNCHANGED phase

RequestStop == phase = "running" /\ phase' = "stopping" /\ UNCHANGED radio

Stopped == phase = "stopping" /\ ~radio /\ phase' = "idle" /\ UNCHANGED radio

Next == Start \/ Use \/ RequestStop \/ Stopped

Spec == Init /\ [][Next]_vars
=============================================================================
