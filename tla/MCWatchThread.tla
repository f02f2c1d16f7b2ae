---------------------------- MODULE MCWatchThread ----------------------------
(* Small instance of WatchThread for TLC.                                   *)
EXTENDS WatchThread
=============================================================================
