---------------------------- MODULE MCSensorHub ----------------------------
(* Small instance of SensorHub for TLC: a thread that makes any call and   *)
(* one that reads the accelerometer.                                       *)
EXTENDS SensorHub

MainAndReader == [main |-> Calls, reader |-> {<<"acc", "read">>}]
=============================================================================
