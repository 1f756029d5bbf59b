-------------------------- MODULE MCSleepInhibition --------------------------
(* SleepInhibition for TLC: its constants are given by the cfg.              *)
EXTENDS SleepInhibition
==============================================================================
