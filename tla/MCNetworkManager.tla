-------------------------- MODULE MCNetworkManager --------------------------
(* Small instance of NetworkManager for TLC.                               *)
EXTENDS NetworkManager
=============================================================================
