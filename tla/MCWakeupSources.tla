-------------------------- MODULE MCWakeupSources --------------------------
(* The instance of WakeupSources for TLC: the only parameter is whether     *)
(* the device has the external RTC.                                         *)
EXTENDS WakeupSources
=============================================================================
