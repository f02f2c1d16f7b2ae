----------------------------- MODULE MCGpsPort -----------------------------
(* Small instance of GpsPort for TLC.                                      *)
EXTENDS GpsPort
=============================================================================
