---------------------------- MODULE MCNetworkWindow ----------------------------
(* One secured access point that the search may hide, two processes.       *)
EXTENDS NetworkWindow
=============================================================================
