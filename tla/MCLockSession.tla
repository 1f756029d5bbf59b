---------------------------- MODULE MCLockSession ----------------------------
(* LockSession for TLC: every value of its constants is given by the cfg.    *)
EXTENDS LockSession
==============================================================================
